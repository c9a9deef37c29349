------------------------ MODULE PipelineDependencies ------------------------
(***************************************************************************)
(* When a pending step may start: internal/controller/                     *)
(* pipeline_dependencies.go, with getStepStatus of pipeline_reconciler.go. *)
(* `p` is a Pipeline as the reconciler holds it: p.spec is the sequence of *)
(* its steps, p.steps the sequence of their statuses.                      *)
(***************************************************************************)
EXTENDS PipelineTypes

Least(S) == CHOOSE i \in S : \A j \in S : i <= j

\* The index of the first status with that name; 0 is Go's nil.  Nothing
\* makes names unique, so a later status of the same name is never returned.
StatusIndex(p, name) ==
  LET found == {i \in DOMAIN p.steps : p.steps[i].name = name}
  IN  IF found = {} THEN 0 ELSE Least(found)

\* Reading the phase through a nil status is a nil dereference: "nil".
StatusPhase(p, name) ==
  LET i == StatusIndex(p, name) IN IF i = 0 THEN "nil" ELSE p.steps[i].phase

StepIndex(p, name) == Least({i \in DOMAIN p.spec : p.spec[i].name = name})

----------------------------------------------------------------------------
\* What the two results (ready, shouldSkip) of the checks below say, with
\* the panic the runtime raises instead of a result.
Verdict == {"ready", "skip", "wait", "panic"}

\* Mutant: a running previous step does not hold the next one back.
CheckSequentialExecutionEagerly(p, step) ==
  LET phases == {StatusPhase(p, p.spec[i].name) : i \in 1 .. StepIndex(p, step.name) - 1}
  IN  IF "nil" \in phases THEN "panic"
      ELSE IF "Pending" \in phases THEN "wait"
      ELSE IF phases \cap {"Failed", "Skipped"} # {} THEN "skip" ELSE "ready"

\* A previous step that is Suspended is in none of the cases of the switch.
CheckSequentialExecution(p, step) ==
  LET previous == {p.spec[i].name : i \in 1 .. StepIndex(p, step.name) - 1}
      phases   == {StatusPhase(p, name) : name \in previous}
  IN  IF "nil" \in phases THEN "panic"
      ELSE IF phases \cap {"Pending", "Running"} # {} THEN "wait"
      ELSE IF phases \cap {"Failed", "Skipped"} # {} THEN "skip" ELSE "ready"

\* A reference to a step that does not exist is never complete; a Suspended
\* step neither matches nor keeps the check from being complete.
AllComplete(p, names) ==
  \A name \in names : StatusPhase(p, name) \notin {"nil", "Pending", "Running"}

\* Mutant: the operator is ignored.
ConditionMetByAny(p, names, checkAll, checkFailure) ==
  \E name \in names : StatusPhase(p, name) = IF checkFailure THEN "Failed" ELSE "Succeeded"

ConditionMet(p, names, checkAll, checkFailure) ==
  LET wanted == IF checkFailure THEN "Failed" ELSE "Succeeded"
      match  == {name \in names : StatusPhase(p, name) = wanted}
  IN  IF checkAll THEN match = names ELSE match # {}

CheckConditionalExecution(p, step) ==
  LET runIf == step.runIf
  IN  IF ~ AllComplete(p, runIf.steps) THEN "wait"
      ELSE IF ConditionMet(p, runIf.steps, RequiresAll(runIf), IsCheckingFailure(runIf))
      THEN "ready" ELSE "skip"

AreDependenciesSatisfied(p, step) ==
  IF HasConditionalExecution(step)
  THEN CheckConditionalExecution(p, step)
  ELSE CheckSequentialExecution(p, step)

\* The placeholder shouldSkipStep always answers false.
HasPendingFailureHandlers(p) ==
  \E i \in DOMAIN p.spec : /\ StatusPhase(p, p.spec[i].name) = "Pending"
                           /\ HasConditionalExecution(p.spec[i])
                           /\ IsCheckingFailure(p.spec[i].runIf)
=============================================================================
