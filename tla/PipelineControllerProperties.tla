-------------------- MODULE PipelineControllerProperties --------------------
(***************************************************************************)
(* What the operator promises of a pipeline, and what its documentation    *)
(* says of it.  Phases are those the API server holds, the ones users see. *)
(***************************************************************************)
EXTENDS PipelineController

\* The type invariant of the controller's state (api/v1/pipeline_types.go).
TypeOK ==
  /\ server \in Pipeline /\ cache \in Pipeline /\ local \in Pipeline
  /\ jobs \in [StepName -> Job] /\ jobCache \in [StepName -> Job]
  /\ pc \in PassStep /\ cursor \in Nat \ {0} /\ doomed \in SUBSET StepName
  /\ created \in [StepName -> Nat] /\ faults \in [FaultKind -> Nat]

Recorded(name) == StatusPhase(server, name)

Earlier(i) == {server.spec[j].name : j \in 1 .. i - 1}

\* The table of docs/conditional-execution.md:34-37.
ConditionHolds(runIf) ==
  LET wanted == IF GetCondition(runIf) = "fail" THEN "Failed" ELSE "Succeeded"
  IN  IF GetOperator(runIf) = "and"
      THEN \A name \in runIf.steps : Recorded(name) = wanted
      ELSE \E name \in runIf.steps : Recorded(name) = wanted

----------------------------------------------------------------------------
(* Which steps run.                                                        *)

\* A step without runIf gets a job only after every earlier step has
\* succeeded (docs/conditional-execution.md:153), whatever passes with stale
\* copies of the pipeline do in between (checkSequentialExecution).
SequentialAfterSuccess ==
  \A i \in DOMAIN server.spec :
    ~ HasConditionalExecution(server.spec[i]) /\ created[server.spec[i].name] > 0
      => \A name \in Earlier(i) : Recorded(name) = "Succeeded"

\* A step with runIf gets a job only if its condition holds of the recorded
\* phases, and still holds ever after (checkConditionalExecution).
RunIfHolds ==
  \A i \in DOMAIN server.spec :
    HasConditionalExecution(server.spec[i]) /\ created[server.spec[i].name] > 0
      => ConditionHolds(server.spec[i].runIf)

\* A step is skipped only when it could never run: all the steps its runIf
\* names are over and the condition does not hold of them, or, without
\* runIf, an earlier step failed or was itself skipped ("allComplete: true
\* if all steps are in a terminal state", pipeline_dependencies.go:146).
SkipJustified ==
  \A i \in DOMAIN server.spec :
    LET step == server.spec[i]
    IN  Recorded(step.name) = "Skipped" =>
          IF HasConditionalExecution(step)
          THEN /\ \A name \in step.runIf.steps : Recorded(name) \in TerminalStepPhase
               /\ ~ ConditionHolds(step.runIf)
          ELSE \E name \in Earlier(i) : Recorded(name) \in {"Failed", "Skipped"}

\* Both, whatever the spec and whatever copies the passes decide on.
RulesObeyed == RunIfHolds /\ SkipJustified

\* How many jobs were removed, by hand or by their TTL.
Vanished == faults["remove"]

\* A step runs at most once (docs/conditional-execution.md:41), and once more
\* for each job that was removed: passes that repeat one whose second write
\* was lost, or that read a copy from before it, create no second job.
AtMostOnce == \A n \in StepName : created[n] <= 1 + Vanished

\* A step is recorded as succeeded or failed only if its job did: the job is
\* there, as long as nobody removes it or the pipeline, and it still says so,
\* whatever copies the passes that wrote it down had read
\* (updateStepStatuses).
OutcomesReal ==
  Vanished = 0 /\ server.exists /\ ~ server.deleting =>
    \A i \in DOMAIN server.steps :
      LET status == server.steps[i]
          job    == jobs[status.name]
      IN  /\ status.phase = "Succeeded" => job.exists /\ job.cond = "Complete"
          /\ status.phase = "Failed"    => job.exists /\ job.cond = "Failed"

----------------------------------------------------------------------------
(* The pipeline as a whole.                                                *)

\* A pipeline is Succeeded only when every step succeeded or was skipped,
\* and Failed only when one failed, none is under way and no failure handler
\* is still to run (updatePipelinePhase).
PhaseSound ==
  /\ server.phase = "Succeeded" =>
       \A i \in DOMAIN server.steps : server.steps[i].phase \in {"Succeeded", "Skipped"}
  /\ server.phase = "Failed" =>
       /\ AnyStep(server, "Failed")
       /\ ~ AnyStep(server, "Running") /\ ~ AnyStep(server, "Suspended")
       /\ ~ HasPendingFailureHandlers(server)

\* The Ready condition is recomputed on every pass but written only with
\* another change (updatePipelinePhase): all the same, it is never the one of
\* another phase, and a pipeline that is over has the condition, and the
\* completion time, of the phase in which it ended.
ReadyAgrees ==
  /\ server.ready.reason \in {"", server.phase}
  /\ server.phase \in TerminalPhase => server.ready.reason = server.phase
  /\ server.completed <=> server.phase \in TerminalPhase

\* A terminal pipeline is over: its status never changes and no job is
\* created for it any more, not even by a pass that began before it ended
\* (Reconcile: "Skip reconciliation for completed pipelines"), unless a job
\* was removed under it.
TerminalIsFinal ==
  [][server.phase \in TerminalPhase =>
       /\ server'.phase = server.phase /\ server'.steps = server.steps
       /\ Vanished = 0 => created' = created]_vars

----------------------------------------------------------------------------
(* Jobs and the finalizer.                                                 *)

\* While the pipeline exists, its jobs are guarded by the finalizer: no
\* deletion, at whatever point of a pass, lets it go past reconcileDelete.
JobsImplyFinalizer ==
  server.exists /\ (\E n \in StepName : jobs[n].exists) => server.finalizer

\* No job is created for a pipeline that is gone, although the copy a pass
\* works on may still show it.
NoJobForTheGone == [][~ server.exists => created' = created]_vars

\* Why the two above hold, as an inductive invariant.  The finalizer, once
\* read, is there as long as the object; past addFinalizer a pass has read
\* it; a copy at the server's version is the server's object; and when the
\* object is gone, the cache shows it on its way out or without a finalizer,
\* so that no pass that could still create a job is under way or can begin.
Starting == PassStep \ {"idle", "addFinalizer", "deleteJobs"}

FinalizerKnown ==
  /\ cache.finalizer /\ server.exists => server.finalizer
  /\ local.finalizer /\ server.exists => server.finalizer
  /\ pc \notin {"idle", "addFinalizer"} => local.finalizer
  /\ pc # "idle" => local.exists

CopiesTrail ==
  /\ cache.rv <= server.rv
  /\ cache.rv = server.rv => cache = server
  /\ pc = "deleteJobs" => /\ local.deleting
                          /\ local.rv <= cache.rv
                          /\ local.rv = cache.rv => local = cache

GoneForGood ==
  ~ server.exists => /\ cache.exists => cache.deleting \/ ~ cache.finalizer
                     /\ pc \notin Starting

DeletionInv == FinalizerKnown /\ CopiesTrail /\ GoneForGood /\ JobsImplyFinalizer

----------------------------------------------------------------------------
(* The operator implements the one-step scheduler of PipelineLifecycle:    *)
(* every status write the API server takes is a decision that is right for *)
(* the pipeline as it is stored at that moment.                            *)

Lifecycle == INSTANCE PipelineLifecycle
               WITH spec <- server.spec, phase <- server.phase, steps <- server.steps

\* In particular a start decided on a copy of the pipeline is still right
\* when, a job later, the status write records it (startReadySteps).
ImplementsLifecycle == Lifecycle!Spec

----------------------------------------------------------------------------
(* What must happen, under FairSpec.                                       *)

AllResumed == \A n \in StepName : ~ jobs[n].suspend

\* Every pipeline ends, if users and failures stay away, and whoever has a
\* job suspended resumes it for good.
Completes == <>[]AllResumed => <>(server.phase \in TerminalPhase)

\* What became of a finished job reaches the step's status
\* ("updateStepStatuses fetches and updates the status of all running
\* jobs", pipeline_status.go:35), unless the pipeline is deleted.
OutcomeRecorded ==
  \A n \in StepName :
    /\ jobs[n].exists /\ jobs[n].cond = "Complete"
         ~> Recorded(n) = "Succeeded" \/ server.deleting \/ ~ server.exists
    /\ jobs[n].exists /\ jobs[n].cond = "Failed"
         ~> Recorded(n) = "Failed" \/ server.deleting \/ ~ server.exists

\* A suspended pipeline whose jobs have all been resumed leaves the phase
\* Suspended ("The pipeline automatically detects the change and
\* continues", docs/job-controls.md:135).
ResumeDetected ==
  server.phase = "Suspended" /\ AllResumed ~> server.phase # "Suspended" \/ ~ AllResumed

\* A deleted pipeline goes, and so do its jobs, whatever is cut short.
DeletionCompletes ==
  server.deleting ~> ~ server.exists /\ \A n \in StepName : ~ jobs[n].exists
=============================================================================
