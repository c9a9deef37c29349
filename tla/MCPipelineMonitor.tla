-------------------------- MODULE MCPipelineMonitor --------------------------
(***************************************************************************)
(* Small instances of PipelineMonitor: a pipeline in each of two           *)
(* namespaces, whose two steps run one after the other.                    *)
(***************************************************************************)
EXTENDS PipelineMonitorProperties

Steps      == {"a", "b"}
Namespaces == {"default", "team"}
Keys       == {<<"default", "p">>, <<"team", "p">>}
Texts      == {"started", "done"}

Status(phase, job, ended, active) == [phase |-> phase, jobName |-> job, ended |-> ended, active |-> active]
Waiting  == [status |-> Status("Pending", FALSE, FALSE, FALSE), logs |-> NoPod]
Started  == [status |-> Status("Running", TRUE, FALSE, TRUE), logs |-> "started"]
Finished == [status |-> Status("Succeeded", TRUE, TRUE, FALSE), logs |-> "done"]

\* b starts when a has succeeded.
Chain == << [s \in Steps |-> Waiting],
            [s \in Steps |-> IF s = "a" THEN Started ELSE Waiting],
            [s \in Steps |-> IF s = "a" THEN Finished ELSE Started] >>

\* Both are there, or one, which runs already.
At(n, m)  == [k \in Keys |-> IF k[1] = "default" THEN n ELSE m]
TwoOrOne == {At(1, 2), At(2, Gone)}

\* A secret in one of them, and what others make of it.
Typing  == {"", "k", "k "}
Trimmed == [t \in Typing |-> IF t = "k " THEN "k" ELSE t]
Values  == {"", "v"}
Secret(value)   == [there |-> TRUE, data |-> {<<"k", value>>}]
OneSecret  == {[kind \in StorageKind |-> [k \in Key |->
                  IF kind = "secret-list" /\ k[1] = "default" THEN Secret("v") ELSE NoThing]]}
Replacements == {NoThing}

Budget(pr, cr, de, se, vi, fa) ==
  [k \in EventKind |-> CASE k = "progress" -> pr [] k = "create" -> cr [] k = "delete" -> de
                         [] k = "select" -> se [] k = "visit" -> vi [] k = "failure" -> fa
                         [] OTHER -> 0]
Storing(di, ty, st, se, vi, fa) ==
  [k \in EventKind |-> CASE k = "dialog" -> di [] k = "typing" -> ty [] k = "store" -> st
                         [] k = "select" -> se [] k = "visit" -> vi [] k = "failure" -> fa
                         [] OTHER -> 0]

\* Steps looked at while they progress, one request failing; pipelines that
\* go and come back; pages opened while requests fail.
Some == {Budget(1, 0, 0, 2, 0, 1), Budget(0, 1, 1, 1, 1, 0), Budget(1, 0, 1, 0, 1, 1),
         Storing(2, 2, 0, 0, 0, 1), Storing(2, 0, 1, 1, 0, 0), Storing(1, 1, 0, 0, 1, 1)}
Few  == {Budget(0, 0, 0, 1, 1, 0)}
=============================================================================
