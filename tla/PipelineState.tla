---------------------------- MODULE PipelineState ----------------------------
(***************************************************************************)
(* The pure decisions of one reconcile pass: the phase of a step from its  *)
(* job (pipeline_status.go) and the phase and Ready condition of the       *)
(* pipeline from the phases of its steps (pipeline_reconciler.go).         *)
(***************************************************************************)
EXTENDS PipelineDependencies

\* What the operator reads of a batch/v1 Job: whether it exists, its spec's
\* suspend, whether it has active pods, and the first condition of its
\* status that is True among Complete, Failed and Suspended.
JobCondition == {"None", "Complete", "Failed", "Suspended"}
Job == [exists : BOOLEAN, suspend : BOOLEAN, active : BOOLEAN, cond : JobCondition]

NoJob == [exists |-> FALSE, suspend |-> FALSE, active |-> FALSE, cond |-> "None"]

----------------------------------------------------------------------------
InitialStatuses(spec) ==
  [i \in DOMAIN spec |-> [name |-> spec[i].name, phase |-> "Pending", job |-> FALSE]]

\* Mutants: the type of the job's condition taken for the phase of the step;
\* failures overlooked.
DetermineStepPhaseVerbatim(job, currentPhase) ==
  IF job.cond = "None" THEN IF job.active THEN "Running" ELSE currentPhase ELSE job.cond

DetermineStepPhaseHopefully(job, currentPhase) ==
  CASE job.cond = "Complete"  -> "Succeeded"
    [] job.cond = "Suspended" -> "Suspended"
    [] OTHER                  -> IF job.active THEN "Running" ELSE currentPhase

DetermineStepPhase(job, currentPhase) ==
  CASE job.cond = "Complete"  -> "Succeeded"
    [] job.cond = "Failed"    -> "Failed"
    [] job.cond = "Suspended" -> "Suspended"
    [] job.cond = "None"      -> IF job.active THEN "Running" ELSE currentPhase

\* One status after its job has been looked up; a job that is not found
\* leaves the status as it is.
RefreshStatus(status, job) ==
  IF status.job /\ job.exists
  THEN [status EXCEPT !.phase = DetermineStepPhase(job, @)]
  ELSE status

RefreshStatuses(steps, jobOf) == [i \in DOMAIN steps |-> RefreshStatus(steps[i], jobOf[steps[i].name])]

----------------------------------------------------------------------------
AnyStep(p, phase) == \E i \in DOMAIN p.steps : p.steps[i].phase = phase

StepsIn(p, phase) ==
  {n \in StepName : \E i \in DOMAIN p.steps : p.steps[i].name = n /\ p.steps[i].phase = phase}

\* Mutant: skipped steps keep the pipeline from being complete.
AllSucceededUnskipped(p) == \A i \in DOMAIN p.steps : p.steps[i].phase = "Succeeded"

AllSucceeded(p) == \A i \in DOMAIN p.steps : p.steps[i].phase \in {"Succeeded", "Skipped"}

\* Mutant: a failure ends the pipeline at once.
HandlersNeverPending(p) == FALSE

\* Handlers are looked for only when something failed and something is
\* pending; the search dereferences the status of every step of the spec.
HandlersPending(p) ==
  AnyStep(p, "Failed") /\ AnyStep(p, "Pending") /\ HasPendingFailureHandlers(p)

AnalysisPanics(p) ==
  /\ AnyStep(p, "Failed") /\ AnyStep(p, "Pending")
  /\ \E i \in DOMAIN p.spec : StatusPhase(p, p.spec[i].name) = "nil"

NextPipelinePhase(p) ==
  IF AnyStep(p, "Suspended") /\ ~ AnyStep(p, "Running") THEN "Suspended"
  ELSE IF /\ AnyStep(p, "Failed")
          /\ ~ AnyStep(p, "Running") /\ ~ AnyStep(p, "Suspended") /\ ~ HandlersPending(p)
       THEN "Failed"
  ELSE IF AllSucceeded(p) THEN "Succeeded"
  ELSE IF AnyStep(p, "Running") \/ HandlersPending(p) THEN "Running"
  ELSE p.phase

UpdateConditions(p) ==
  [p EXCEPT !.ready = [reason    |-> p.phase,
                       suspended |-> IF p.phase = "Suspended" THEN StepsIn(p, "Suspended") ELSE {}]]

\* Mutant: the conditions are updated before the phase.
WithPhaseAfterwards(p) ==
  LET phase == NextPipelinePhase(p)
  IN  [UpdateConditions(p) EXCEPT !.phase = phase, !.completed = @ \/ phase \in TerminalPhase]

\* The pipeline as updatePipelinePhase leaves it in memory.
WithPhase(p) ==
  LET phase == NextPipelinePhase(p)
  IN  UpdateConditions([p EXCEPT !.phase = phase, !.completed = @ \/ phase \in TerminalPhase])
=============================================================================
