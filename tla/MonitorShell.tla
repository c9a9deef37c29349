---------------------------- MODULE MonitorShell ----------------------------
(***************************************************************************)
(* What the pages of the monitor share: the pipelines on the server, seen  *)
(* as the UI sees them, the sidebar with its choice of a namespace, which  *)
(* page is open, and the requests to delete, which outlive the page they   *)
(* were made on.                                                           *)
(*                                                                         *)
(* A pipeline goes through Stages: what the operator and the jobs make of  *)
(* it is a fixed sequence, of which the UI sees the one it asks at.        *)
(***************************************************************************)
EXTENDS PipelineTypes

CONSTANTS
  Namespace,
  None,                    \* no step, no key
  Key,                     \* <<namespace, name>> of each pipeline
  Stages,                  \* for each stage, status and logs of each step
  Text, NoPod,             \* what a pod can have written; the job has no pod
  Stored,                  \* which pipelines there may be at the start
  MaxCalls,                \* how many overlapping polls of a kind there are
  Budgets                  \* how many outside events of each kind

Gone == 0                  \* the stage of a pipeline that does not exist

\* The fields of StepStatus and its jobStatus that the pages look at:
\* ended is for succeeded, failed and completionTime, active for the others.
StatusView == [phase : StepPhase \cup {""}, jobName : BOOLEAN, ended : BOOLEAN, active : BOOLEAN]
StepView   == [status : StatusView, logs : Text \cup {NoPod}]
Stage      == 0..Len(Stages)

EventKind == {"progress", "create", "delete", "select", "dialog", "typing",
              "store", "visit", "failure"}

ASSUME KeyAssumption    == Key \subseteq Namespace \X STRING /\ "default" \in Namespace
ASSUME StagesAssumption == Stages \in Seq([StepName -> StepView]) /\ Stages # <<>>
ASSUME StoredAssumption == Stored \subseteq [Key -> Stage]
ASSUME BudgetAssumption == MaxCalls \in Nat \ {0} /\ Budgets \subseteq [EventKind -> Nat]

VARIABLES
  server,                  \* the stage of each pipeline
  terminating,             \* those deleted that the operator has yet to let go
  shell,                   \* the namespace chosen in the sidebar
  page,                    \* the component in the router's outlet
  deletes,                 \* requests to delete, and the page that waits for the answer
  events                   \* what is left of the budget

cluster == <<server, terminating>>
ground  == <<cluster, shell, page, deletes, events>>

Pages    == {"pipeline-list", "pipeline-detail", "pvc-list", "secret-list"}
Deletion == [key : Key, taken : BOOLEAN, from : {"list", "detail", "nowhere"}]

Spend(kind) == events[kind] > 0 /\ events' = [events EXCEPT ![kind] = @ - 1]

\* An answer that is not the last one asked for.
Without(seq, i) == SubSeq(seq, 1, i - 1) \o SubSeq(seq, i + 1, Len(seq))

----------------------------------------------------------------------------
\* The cluster, on its own.

Progress(k) ==
  /\ server[k] \in 1..(Len(Stages) - 1) /\ Spend("progress")
  /\ server' = [server EXCEPT ![k] = @ + 1]
  /\ UNCHANGED <<terminating, shell, page, deletes>>

\* A finalizer keeps a deleted pipeline for a while.
Vanish(k) ==
  /\ k \in terminating
  /\ server' = [server EXCEPT ![k] = Gone] /\ terminating' = terminating \ {k}
  /\ UNCHANGED <<shell, page, deletes, events>>

OtherDeletes(k) ==
  /\ server[k] # Gone /\ k \notin terminating /\ Spend("delete")
  /\ terminating' = terminating \cup {k}
  /\ UNCHANGED <<server, shell, page, deletes>>

OtherCreates(k) ==
  /\ server[k] = Gone /\ Spend("create")
  /\ server' = [server EXCEPT ![k] = 1]
  /\ UNCHANGED <<terminating, shell, page, deletes>>

\* The server takes up a request to delete; it refuses one for nothing.
TakeDelete(d) ==
  /\ d \in deletes /\ ~ d.taken /\ server[d.key] # Gone
  /\ deletes' = (deletes \ {d}) \cup {[d EXCEPT !.taken = TRUE]}
  /\ terminating' = terminating \cup {d.key}
  /\ UNCHANGED <<server, shell, page, events>>

\* An error is an alert, and nothing else.
FailDelete(d) ==
  /\ d \in deletes
  /\ \/ ~ d.taken /\ server[d.key] = Gone /\ UNCHANGED events
     \/ Spend("failure")
  /\ deletes' = deletes \ {d}
  /\ UNCHANGED <<cluster, shell, page>>

Cluster ==
  \/ \E k \in Key : Progress(k) \/ Vanish(k) \/ OtherDeletes(k) \/ OtherCreates(k)
  \/ \E d \in deletes : TakeDelete(d) \/ FailDelete(d)

\* The page that deletes has the user's confirmation.
AskDelete(k, from) ==
  /\ Spend("delete")
  /\ deletes' = deletes \cup {[key |-> k, taken |-> FALSE, from |-> from]}
  /\ UNCHANGED <<cluster, shell, page>>

\* What is left of the requests when the page is replaced: the list that
\* waited for an answer is no longer shown, the router is.
Abandoned == {[d EXCEPT !.from = IF @ = "list" THEN "nowhere" ELSE @] : d \in deletes}
=============================================================================
