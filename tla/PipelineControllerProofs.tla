----------------------- MODULE PipelineControllerProofs -----------------------
(***************************************************************************)
(* Theorems about PipelineController, for every set of step names, every   *)
(* set of specs and every number of outside events.                        *)
(***************************************************************************)
EXTENDS PipelineControllerProperties, CommonLemmas, TLAPS

----------------------------------------------------------------------------
(* The types of what the helpers return.                                   *)

\* Every member of a spec is a step.
LEMMA SpecStepType ==
  ASSUME NEW p \in Pipeline, NEW i \in DOMAIN p.spec
  PROVE  p.spec[i] \in PipelineStep /\ i \in Nat \ {0}
BY SpecsAssumption DEF Pipeline

\* A new pipeline is a pipeline, and so is the copy an idle pass holds.
LEMMA NewPipelineType ==
  ASSUME NEW spec \in Specs
  PROVE  NewPipeline(spec) \in Pipeline
<1>1. NoCondition \in ReadyCondition
  BY DEF NoCondition, ReadyCondition, PipelinePhase
<1>2. <<>> \in Seq(StepStatus)
  OBVIOUS
<1> QED
  BY <1>1, <1>2 DEF NewPipeline, Pipeline, PipelinePhase

\* What a pass holds between two runs is a pipeline, if there is any spec.
LEMMA BlankType ==
  ASSUME Specs # {}
  PROVE  Blank \in Pipeline
BY NewPipelineType DEF Blank

\* Setting one field to a value of its type keeps the type.
LEMMA SetFieldType ==
  ASSUME NEW p \in Pipeline
  PROVE  /\ \A rv \in Nat : [p EXCEPT !.rv = rv] \in Pipeline
         /\ \A flag \in BOOLEAN : /\ [p EXCEPT !.exists = flag] \in Pipeline
                                  /\ [p EXCEPT !.finalizer = flag] \in Pipeline
                                  /\ [p EXCEPT !.deleting = flag] \in Pipeline
         /\ \A spec \in Specs : [p EXCEPT !.spec = spec] \in Pipeline
         /\ \A phase \in PipelinePhase : [p EXCEPT !.phase = phase] \in Pipeline
BY DEF Pipeline

\* A pipeline with new step statuses is a pipeline.
LEMMA WithStepsType ==
  ASSUME NEW p \in Pipeline, NEW steps \in Seq(StepStatus)
  PROVE  [p EXCEPT !.steps = steps] \in Pipeline
BY DEF Pipeline

\* Raising the resource version, as every accepted write does, keeps the type.
LEMMA NextVersionType ==
  ASSUME NEW p \in Pipeline, NEW q \in Pipeline
  PROVE  [p EXCEPT !.rv = q.rv + 1] \in Pipeline
BY DEF Pipeline

\* Overwriting the phase, or setting the job, of one status keeps the type.
LEMMA StatusUpdateType ==
  ASSUME NEW p \in Pipeline, NEW i
  PROVE  /\ \A phase \in StepPhase : [p EXCEPT !.steps[i].phase = phase] \in Pipeline
         /\ [p EXCEPT !.steps[i].job = TRUE] \in Pipeline
<1>1. p.steps \in Seq(StepStatus)
  BY DEF Pipeline
<1>2. ASSUME NEW status \in StepStatus, i \in DOMAIN p.steps
      PROVE  [p.steps EXCEPT ![i] = status] \in Seq(StepStatus)
  BY <1>1, <1>2
<1>3. ASSUME i \notin DOMAIN p.steps, NEW status
      PROVE  [p.steps EXCEPT ![i] = status] = p.steps
  BY <1>1, <1>3
<1>4. ASSUME NEW phase \in StepPhase
      PROVE  [p.steps EXCEPT ![i].phase = phase] \in Seq(StepStatus)
  <2>1. CASE i \in DOMAIN p.steps
    <3>1. p.steps[i] \in StepStatus
      BY <1>1, <2>1
    <3>2. [p.steps[i] EXCEPT !.phase = phase] \in StepStatus
      BY <3>1 DEF StepStatus
    <3> QED
      BY <1>2, <2>1, <3>2
  <2>2. CASE i \notin DOMAIN p.steps
    BY <1>1, <1>3, <2>2
  <2> QED
    BY <2>1, <2>2
<1>5. [p.steps EXCEPT ![i].job = TRUE] \in Seq(StepStatus)
  <2>1. CASE i \in DOMAIN p.steps
    <3>1. p.steps[i] \in StepStatus
      BY <1>1, <2>1
    <3>2. [p.steps[i] EXCEPT !.job = TRUE] \in StepStatus
      BY <3>1 DEF StepStatus
    <3> QED
      BY <1>2, <2>1, <3>2
  <2>2. CASE i \notin DOMAIN p.steps
    BY <1>1, <1>3, <2>2
  <2> QED
    BY <2>1, <2>2
<1> QED
  BY <1>4, <1>5 DEF Pipeline

\* The initial statuses are statuses (initializeStepStatuses).
LEMMA InitialStatusesType ==
  ASSUME NEW p \in Pipeline
  PROVE  InitialStatuses(p.spec) \in Seq(StepStatus)
<1>1. p.spec \in Seq(PipelineStep)
  BY SpecsAssumption DEF Pipeline
<1>2. Len(p.spec) \in Nat /\ DOMAIN p.spec = 1 .. Len(p.spec)
  BY <1>1
<1>3. ASSUME NEW i \in DOMAIN p.spec
      PROVE  [name |-> p.spec[i].name, phase |-> "Pending", job |-> FALSE] \in StepStatus
  BY <1>1, SpecStepType DEF StepStatus, StepPhase, PipelineStep
<1> QED
  BY <1>2, <1>3 DEF InitialStatuses

\* A refreshed status is a status (updateStepStatuses, determineStepPhase).
LEMMA RefreshStatusType ==
  ASSUME NEW status \in StepStatus, NEW job \in Job
  PROVE  RefreshStatus(status, job) \in StepStatus
<1>1. DetermineStepPhase(job, status.phase) \in StepPhase
  BY DEF DetermineStepPhase, Job, JobCondition, StepStatus, StepPhase
<1> QED
  BY <1>1 DEF RefreshStatus, StepStatus

\* Refreshing every status of a list gives a list of statuses.
LEMMA RefreshStatusesType ==
  ASSUME NEW steps \in Seq(StepStatus), NEW jobOf \in [StepName -> Job]
  PROVE  RefreshStatuses(steps, jobOf) \in Seq(StepStatus)
<1>1. ASSUME NEW i \in DOMAIN steps
      PROVE  RefreshStatus(steps[i], jobOf[steps[i].name]) \in StepStatus
  <2>1. steps[i] \in StepStatus
    OBVIOUS
  <2>2. jobOf[steps[i].name] \in Job
    BY <2>1 DEF StepStatus
  <2> QED
    BY <2>1, <2>2, RefreshStatusType
<1> QED
  BY <1>1 DEF RefreshStatuses

\* What updatePipelinePhase makes of a pipeline is a pipeline.
LEMMA WithPhaseType ==
  ASSUME NEW p \in Pipeline
  PROVE  WithPhase(p) \in Pipeline /\ WithPhase(p).phase = NextPipelinePhase(p)
<1>1. NextPipelinePhase(p) \in PipelinePhase
  BY DEF NextPipelinePhase, PipelinePhase, Pipeline
<1>2. StepsIn(p, "Suspended") \subseteq StepName
  BY DEF StepsIn, Pipeline, StepStatus
<1> DEFINE q == [p EXCEPT !.phase = NextPipelinePhase(p),
                          !.completed = @ \/ NextPipelinePhase(p) \in TerminalPhase]
<1>3. q \in Pipeline /\ q.phase = NextPipelinePhase(p) /\ q.steps = p.steps
  BY <1>1 DEF Pipeline
<1>4. StepsIn(q, "Suspended") = StepsIn(p, "Suspended")
  BY <1>3 DEF StepsIn
<1> HIDE DEF q
<1>5. UpdateConditions(q) \in Pipeline /\ UpdateConditions(q).phase = q.phase
  BY <1>2, <1>3, <1>4 DEF UpdateConditions, Pipeline, ReadyCondition
<1>6. WithPhase(p) = UpdateConditions(q)
  BY DEF WithPhase, q
<1> QED
  BY <1>3, <1>5, <1>6

----------------------------------------------------------------------------
(* Type correctness.                                                       *)

\* The absence of a job is a value of the type of jobs.
LEMMA NoJobType == NoJob \in Job
BY DEF NoJob, Job, JobCondition

\* What the job controller and users write into a job is a job.
LEMMA JobEditType ==
  ASSUME NEW job \in Job, NEW cond \in JobCondition, NEW flag \in BOOLEAN
  PROVE  /\ [job EXCEPT !.active = flag] \in Job
         /\ [job EXCEPT !.suspend = flag] \in Job
         /\ [job EXCEPT !.cond = cond] \in Job
         /\ [job EXCEPT !.active = flag, !.cond = cond] \in Job
BY DEF Job

\* What users write into a pipeline is a pipeline.
LEMMA PipelineEditType ==
  ASSUME NEW p \in Pipeline, NEW spec \in Specs
  PROVE  /\ [p EXCEPT !.rv = p.rv + 1] \in Pipeline
         /\ [p EXCEPT !.rv = p.rv + 1, !.spec = spec] \in Pipeline
         /\ [p EXCEPT !.rv = p.rv + 1, !.deleting = TRUE] \in Pipeline
         /\ [p EXCEPT !.rv = p.rv + 1, !.exists = FALSE] \in Pipeline
<1>1. [p EXCEPT !.rv = p.rv + 1] \in Pipeline
  BY NextVersionType
<1> DEFINE q == [p EXCEPT !.rv = p.rv + 1]
<1>2. /\ [q EXCEPT !.spec = spec] \in Pipeline
      /\ [q EXCEPT !.deleting = TRUE] \in Pipeline
      /\ [q EXCEPT !.exists = FALSE] \in Pipeline
  <2> HIDE DEF q
  <2> QED
    BY <1>1, SetFieldType DEF q
<1> QED
  BY <1>1, <1>2

\* An outside event that is spent leaves the budgets natural numbers.
LEMMA SpendType ==
  ASSUME TypeOK, NEW kind \in FaultKind, Spend(kind)
  PROVE  faults' \in [FaultKind -> Nat]
BY DEF Spend, TypeOK

\* The end of a pass and a refused write keep the types.
LEMMA EndPassType ==
  ASSUME TypeOK, EndPass
  PROVE  pc' \in PassStep /\ local' \in Pipeline /\ cursor' \in Nat \ {0} /\ doomed' \in SUBSET StepName
<1>1. Specs # {}
  BY DEF TypeOK, Pipeline
<1> QED
  BY <1>1, BlankType DEF EndPass, PassStep

\* A refused write, which ends the pass, keeps the types.
LEMMA RefusedType ==
  ASSUME TypeOK, Refused
  PROVE  TypeOK'
BY EndPassType DEF Refused, TypeOK, objects, caches

\* Where a pass goes is a step of a pass.
LEMMA FirstStepType ==
  ASSUME NEW p \in Pipeline
  PROVE  FirstStep(p) \in PassStep /\ AfterFinalizer(p) \in PassStep
BY DEF FirstStep, AfterFinalizer, PassStep, Pipeline

\* An accepted write of a pipeline keeps the types of server and local.
LEMMA WriteType ==
  ASSUME TypeOK, NEW p \in Pipeline, Write(p)
  PROVE  server' \in Pipeline /\ local' \in Pipeline
BY NextVersionType DEF Write, TypeOK

\* The initial states have the types.
LEMMA InitType == Init => TypeOK
<1> SUFFICES ASSUME Init PROVE TypeOK
  OBVIOUS
<1>1. PICK spec \in Specs : server = NewPipeline(spec)
  BY DEF Init
<1>2. server \in Pipeline
  BY <1>1, NewPipelineType
<1>3. cache \in Pipeline
  BY <1>2 DEF Init, Pipeline
<1>4. local \in Pipeline
  BY <1>1, BlankType DEF Init
<1> QED
  BY <1>2, <1>3, <1>4, NoJobType DEF Init, TypeOK, PassStep

\* Every step, of whatever actor, keeps the types.
LEMMA NextType == TypeOK /\ [Next]_vars => TypeOK'
<1> SUFFICES ASSUME TypeOK, [Next]_vars PROVE TypeOK'
  OBVIOUS
<1> USE DEF objects, caches, pass
<1>1. CASE Reconcile
  BY <1>1, FirstStepType DEF Reconcile, TypeOK
<1>2. CASE AddFinalizer
  <2>1. CASE Refused
    BY <2>1, RefusedType
  <2>2. CASE ~ Refused
    <3>1. [local EXCEPT !.finalizer = TRUE] \in Pipeline
      BY DEF TypeOK, Pipeline
    <3> QED
      BY <1>2, <2>2, <3>1, WriteType, FirstStepType DEF AddFinalizer, TypeOK
  <2> QED
    BY <2>1, <2>2
<1>3. CASE InitializePhase
  <2>1. CASE Refused
    BY <2>1, RefusedType
  <2>2. CASE ~ Refused
    <3>1. [local EXCEPT !.phase = "Pending"] \in Pipeline
      BY SetFieldType DEF TypeOK, PipelinePhase
    <3>2. [[local EXCEPT !.phase = "Pending"] EXCEPT !.rv = server.rv + 1] \in Pipeline
      BY <3>1, NextVersionType DEF TypeOK
    <3> QED
      BY <1>3, <2>2, <3>2, EndPassType DEF InitializePhase, TypeOK
  <2> QED
    BY <2>1, <2>2
<1>4. CASE InitializeStepStatuses
  <2>1. CASE Refused
    BY <2>1, RefusedType
  <2>2. CASE ~ Refused
    <3>1. [local EXCEPT !.steps = InitialStatuses(local.spec)] \in Pipeline
      BY InitialStatusesType, WithStepsType DEF TypeOK
    <3> QED
      BY <1>4, <2>2, <3>1, WriteType DEF InitializeStepStatuses, TypeOK, PassStep
  <2> QED
    BY <2>1, <2>2
<1>5. CASE UpdateStepStatuses
  <2>1. CASE Refused
    BY <2>1, RefusedType
  <2>2. CASE ~ Refused
    <3>1. [local EXCEPT !.steps = RefreshStatuses(local.steps, jobCache)] \in Pipeline
      BY RefreshStatusesType, WithStepsType DEF TypeOK, Pipeline
    <3> QED
      BY <1>5, <2>2, <3>1, WriteType DEF UpdateStepStatuses, TypeOK, PassStep
  <2> QED
    BY <2>1, <2>2
<1>6. CASE UpdatePipelinePhase
  <2>1. CASE Refused
    BY <2>1, RefusedType
  <2>2. CASE ~ Refused
    <3>1. WithPhase(local) \in Pipeline
      BY WithPhaseType DEF TypeOK
    <3>2. [WithPhase(local) EXCEPT !.rv = server.rv + 1] \in Pipeline
      BY <3>1, NextVersionType DEF TypeOK
    <3> QED
      BY <1>6, <2>2, <3>1, <3>2, EndPassType DEF UpdatePipelinePhase, PhaseEndsPass, TypeOK, PassStep
  <2> QED
    BY <2>1, <2>2
<1>7. CASE SkipStep
  <2>1. CASE Refused
    BY <2>1, RefusedType
  <2>2. CASE ~ Refused
    <3>1. PICK i \in Actionable :
             /\ Write([local EXCEPT !.steps[CurrentStatus(i)].phase = "Skipped"])
             /\ cursor' = i + 1
             /\ UNCHANGED <<caches, jobs, pc, doomed, created, faults>>
      BY <1>7, <2>2 DEF SkipStep
    <3>2. [local EXCEPT !.steps[CurrentStatus(i)].phase = "Skipped"] \in Pipeline
      BY StatusUpdateType DEF TypeOK, StepPhase
    <3>3. i \in Nat
      BY SpecStepType DEF Actionable, TypeOK
    <3> QED
      BY <3>1, <3>2, <3>3, WriteType DEF TypeOK
  <2> QED
    BY <2>1, <2>2
<1>8. CASE CreateJobForStep
  <2>1. CASE EndPass /\ UNCHANGED <<objects, caches, created, faults>>
    BY <2>1, EndPassType DEF TypeOK
  <2>2. CASE ~ (EndPass /\ UNCHANGED <<objects, caches, created, faults>>)
    <3>1. PICK i \in Actionable :
            /\ jobs' = [jobs EXCEPT ![local.spec[i].name] =
                          [NoJob EXCEPT !.exists = TRUE, !.suspend = local.spec[i].suspend]]
            /\ created' = [created EXCEPT ![local.spec[i].name] = @ + 1]
            /\ local' = [local EXCEPT !.steps[CurrentStatus(i)].job = TRUE]
            /\ cursor' = i /\ pc' = "markRunning"
            /\ UNCHANGED <<server, caches, doomed, faults>>
      BY <1>8, <2>2 DEF CreateJobForStep
    <3>2. i \in Nat \ {0} /\ local.spec[i].name \in StepName /\ local.spec[i].suspend \in BOOLEAN
      BY SpecStepType DEF Actionable, TypeOK, PipelineStep
    <3>3. [NoJob EXCEPT !.exists = TRUE, !.suspend = local.spec[i].suspend] \in Job
      BY <3>2 DEF NoJob, Job, JobCondition
    <3>4. jobs' \in [StepName -> Job]
      BY <3>1, <3>2, <3>3 DEF TypeOK
    <3>5. created' \in [StepName -> Nat]
      BY <3>1, <3>2 DEF TypeOK
    <3>6. local' \in Pipeline
      BY <3>1, StatusUpdateType DEF TypeOK
    <3> QED
      BY <3>1, <3>2, <3>4, <3>5, <3>6 DEF TypeOK, PassStep
  <2> QED
    BY <2>1, <2>2
<1>9. CASE MarkRunning
  <2>1. CASE Refused
    BY <2>1, RefusedType
  <2>2. CASE ~ Refused
    <3>1. [local EXCEPT !.steps[CurrentStatus(cursor)].phase = "Running"] \in Pipeline
      BY StatusUpdateType DEF TypeOK, StepPhase
    <3> QED
      BY <1>9, <2>2, <3>1, WriteType DEF MarkRunning, TypeOK, PassStep
  <2> QED
    BY <2>1, <2>2
<1>10. CASE FinishPass \/ Panic
  BY <1>10, EndPassType DEF FinishPass, Panic, TypeOK
<1>11. CASE DeleteJob
  BY <1>11, NoJobType, EndPassType DEF DeleteJob, TypeOK
<1>12. CASE RemoveFinalizer
  <2>1. CASE Refused
    BY <2>1, RefusedType
  <2>2. CASE ~ Refused
    <3> DEFINE q == [[local EXCEPT !.finalizer = FALSE] EXCEPT !.exists = FALSE]
    <3>1. [local EXCEPT !.finalizer = FALSE] \in Pipeline
      BY SetFieldType DEF TypeOK
    <3>2. q \in Pipeline
      BY <3>1, SetFieldType
    <3> HIDE DEF q
    <3>3. [q EXCEPT !.rv = server.rv + 1] \in Pipeline
      BY <3>2, NextVersionType DEF TypeOK
    <3> QED
      BY <1>12, <2>2, <3>3, EndPassType DEF RemoveFinalizer, TypeOK, q
  <2> QED
    BY <2>1, <2>2
<1>13. CASE SyncPipeline
  BY <1>13 DEF SyncPipeline, TypeOK
<1>14. CASE TouchPipeline \/ EditSpec \/ DeletePipeline
  <2>1. server' \in Pipeline
    <3>1. CASE TouchPipeline \/ DeletePipeline
      <4>1. server \in Pipeline /\ server.spec \in Specs
        BY DEF TypeOK, Pipeline
      <4> QED
        BY <3>1, <4>1, PipelineEditType DEF TouchPipeline, DeletePipeline
    <3>2. CASE EditSpec
      BY <3>2, PipelineEditType DEF EditSpec, TypeOK
    <3> QED
      BY <1>14, <3>1, <3>2
  <2>2. faults' \in [FaultKind -> Nat]
    BY <1>14, SpendType DEF TouchPipeline, EditSpec, DeletePipeline, FaultKind
  <2> QED
    BY <1>14, <2>1, <2>2 DEF TouchPipeline, EditSpec, DeletePipeline, TypeOK
<1>15. CASE Interrupt
  <2>1. faults' \in [FaultKind -> Nat]
    BY <1>15, SpendType DEF Interrupt, FaultKind
  <2> QED
    BY <1>15, <2>1, EndPassType DEF Interrupt, TypeOK
<1>16. ASSUME NEW n \in StepName, SyncJob(n)
       PROVE  TypeOK'
  BY <1>16 DEF SyncJob, TypeOK
<1>17. ASSUME NEW n \in StepName, JobControllerStep(n)
       PROVE  TypeOK'
  <2>1. jobs[n] \in Job /\ jobs \in [StepName -> Job]
    BY DEF TypeOK
  <2>2. jobs' \in [StepName -> Job]
    <3>1. CASE JobStarts(n)
      <4>1. [jobs[n] EXCEPT !.active = TRUE] \in Job
        BY <2>1, JobEditType DEF JobCondition
      <4>2. jobs' = [jobs EXCEPT ![n] = [jobs[n] EXCEPT !.active = TRUE]]
        BY <3>1 DEF JobStarts
      <4> QED
        BY <4>1, <4>2, <2>1
    <3>2. CASE JobFinishes(n)
      <4>1. PICK c \in {"Complete", "Failed"} :
              jobs' = [jobs EXCEPT ![n] = [jobs[n] EXCEPT !.active = FALSE, !.cond = c]]
        BY <3>2 DEF JobFinishes
      <4>2. [jobs[n] EXCEPT !.active = FALSE, !.cond = c] \in Job
        BY <2>1, JobEditType DEF JobCondition
      <4> QED
        BY <4>1, <4>2, <2>1
    <3>3. CASE JobSuspends(n)
      <4>1. [jobs[n] EXCEPT !.active = FALSE, !.cond = "Suspended"] \in Job
        BY <2>1, JobEditType DEF JobCondition
      <4> QED
        BY <3>3, <4>1, <2>1 DEF JobSuspends
    <3>4. CASE JobResumes(n)
      <4>1. [jobs[n] EXCEPT !.cond = "None"] \in Job
        BY <2>1, JobEditType DEF JobCondition
      <4>2. jobs' = [jobs EXCEPT ![n] = [jobs[n] EXCEPT !.cond = "None"]]
        BY <3>4 DEF JobResumes
      <4> QED
        BY <4>1, <4>2, <2>1
    <3>5. CASE GarbageCollect(n)
      BY <3>5, <2>1, NoJobType DEF GarbageCollect
    <3> QED
      BY <1>17, <3>1, <3>2, <3>3, <3>4, <3>5 DEF JobControllerStep
  <2> QED
    BY <1>17, <2>2 DEF JobControllerStep, TypeOK
<1>18. ASSUME NEW n \in StepName, SuspendJob(n) \/ ResumeJob(n) \/ RemoveJob(n)
       PROVE  TypeOK'
  <2>1. jobs[n] \in Job /\ jobs \in [StepName -> Job]
    BY DEF TypeOK
  <2>2. jobs' \in [StepName -> Job]
    <3>1. CASE SuspendJob(n) \/ ResumeJob(n)
      <4>1. PICK flag \in BOOLEAN : jobs' = [jobs EXCEPT ![n] = [jobs[n] EXCEPT !.suspend = flag]]
        BY <3>1 DEF SuspendJob, ResumeJob
      <4>2. [jobs[n] EXCEPT !.suspend = flag] \in Job
        BY <2>1, JobEditType DEF JobCondition
      <4> QED
        BY <4>1, <4>2, <2>1
    <3>2. CASE RemoveJob(n)
      BY <3>2, <2>1, NoJobType DEF RemoveJob
    <3> QED
      BY <1>18, <3>1, <3>2
  <2>3. faults' \in [FaultKind -> Nat]
    BY <1>18, SpendType DEF SuspendJob, ResumeJob, RemoveJob, FaultKind, TypeOK
  <2> QED
    BY <1>18, <2>2, <2>3 DEF SuspendJob, ResumeJob, RemoveJob, TypeOK
<1>19. CASE UNCHANGED vars
  BY <1>19 DEF vars, TypeOK
<1> QED
  BY <1>1, <1>2, <1>3, <1>4, <1>5, <1>6, <1>7, <1>8, <1>9, <1>10, <1>11, <1>12, <1>13,
     <1>14, <1>15, <1>16, <1>17, <1>18, <1>19 DEF Next, ReconcilerStep, Environment

\* The state always has the types of api/v1/pipeline_types.go, through every
\* interleaving of passes, caches, job controller, users and failures.
THEOREM TypeCorrect == Spec => []TypeOK
BY InitType, NextType, PTL DEF Spec

----------------------------------------------------------------------------
(* Deletion.  DeletionInv is inductive: the steps of a pass that write the *)
(* status (StatusWrite) and those that change nothing but the pass itself  *)
(* (QuietStep) are treated alike, the others one by one.                   *)

StatusWrite ==
  /\ pc \in Starting /\ Accepted
  /\ server'.rv = server.rv + 1
  /\ server'.exists = local.exists /\ server'.finalizer = local.finalizer
  /\ pc' \in Starting \cup {"idle"}
  /\ local'.finalizer => local.finalizer
  /\ pc' \in Starting => local'.finalizer /\ local'.exists
  /\ UNCHANGED <<jobs, caches, created>>

QuietStep ==
  /\ \/ pc' = "idle"
     \/ pc \in Starting /\ pc' \in Starting /\ local'.finalizer /\ local'.exists
  /\ local'.finalizer => local.finalizer
  /\ UNCHANGED <<objects, caches, created>>

\* A pass that ends holds a copy without a finalizer.
LEMMA EndPassIdle == EndPass => pc' = "idle" /\ ~ local'.finalizer
<1>1. \A spec : ~ NewPipeline(spec).finalizer
  BY DEF NewPipeline
<1>2. ~ Blank.finalizer
  BY <1>1 DEF Blank
<1> QED
  BY <1>2 DEF EndPass

\* A refused write changes nothing but the pass.
LEMMA RefusedQuiet == Refused => QuietStep
BY EndPassIdle DEF Refused, QuietStep

\* The in-memory decisions leave the metadata alone.
LEMMA WithPhaseMetadata ==
  ASSUME NEW p \in Pipeline
  PROVE  WithPhase(p).finalizer = p.finalizer /\ WithPhase(p).exists = p.exists
BY DEF WithPhase, UpdateConditions, Pipeline

\* Every step of a pass but those of the finalizer and of jobs is one of
\* the two kinds.
LEMMA PassSteps ==
  ASSUME TypeOK, FinalizerKnown,
         \/ InitializePhase \/ InitializeStepStatuses \/ UpdateStepStatuses \/ UpdatePipelinePhase
         \/ SkipStep \/ MarkRunning \/ FinishPass \/ Panic
  PROVE  StatusWrite \/ QuietStep
<1> SUFFICES ASSUME ~ Refused PROVE StatusWrite \/ QuietStep
  BY RefusedQuiet
<1> USE DEF Starting, PassStep, caches, objects
<1>1. local \in Pipeline /\ server \in Pipeline
  BY DEF TypeOK
<1>2. CASE InitializePhase
  BY <1>1, <1>2, EndPassIdle DEF InitializePhase, StatusWrite, Pipeline
<1>3. CASE InitializeStepStatuses
  BY <1>1, <1>3 DEF InitializeStepStatuses, Write, StatusWrite, FinalizerKnown, Pipeline
<1>4. CASE UpdateStepStatuses
  BY <1>1, <1>4 DEF UpdateStepStatuses, Write, StatusWrite, QuietStep, FinalizerKnown, Pipeline
<1>5. CASE UpdatePipelinePhase
  <2>1. WithPhase(local) \in Pipeline
    BY <1>1, WithPhaseType
  <2> QED
    BY <1>1, <1>5, <2>1, EndPassIdle, WithPhaseMetadata
       DEF UpdatePipelinePhase, PhaseEndsPass, StatusWrite, QuietStep, FinalizerKnown, Pipeline
<1>6. CASE SkipStep
  BY <1>1, <1>6 DEF SkipStep, Write, StatusWrite, FinalizerKnown, Pipeline
<1>7. CASE MarkRunning
  BY <1>1, <1>7 DEF MarkRunning, Write, StatusWrite, FinalizerKnown, Pipeline
<1>8. CASE FinishPass \/ Panic
  BY <1>8, EndPassIdle DEF FinishPass, Panic, QuietStep
<1> QED
  BY <1>2, <1>3, <1>4, <1>5, <1>6, <1>7, <1>8

\* An accepted write of the status keeps DeletionInv: it cannot bring the
\* object back, for it was read with its finalizer and is still at that version.
LEMMA StatusWriteDeletion ==
  ASSUME TypeOK, DeletionInv, StatusWrite
  PROVE  DeletionInv'
<1> USE DEF StatusWrite, Starting, PassStep, caches
<1>1. server.exists /\ local.finalizer /\ local.exists /\ server.rv \in Nat /\ cache.rv \in Nat
  BY DEF DeletionInv, FinalizerKnown, Accepted, TypeOK, Pipeline
<1>2. FinalizerKnown'
  BY <1>1 DEF DeletionInv, FinalizerKnown
<1>3. CopiesTrail'
  BY <1>1 DEF DeletionInv, CopiesTrail
<1>4. JobsImplyFinalizer'
  BY <1>1 DEF JobsImplyFinalizer
<1>5. server'.exists
  BY <1>1
<1> QED
  BY <1>2, <1>3, <1>4, <1>5 DEF DeletionInv, GoneForGood

\* A step that changes only the pass keeps DeletionInv.
LEMMA QuietStepDeletion ==
  ASSUME TypeOK, DeletionInv, QuietStep
  PROVE  DeletionInv'
<1> USE DEF QuietStep, Starting, PassStep, caches, objects
<1>1. FinalizerKnown'
  BY DEF DeletionInv, FinalizerKnown
<1>2. CopiesTrail'
  BY DEF DeletionInv, CopiesTrail
<1>3. GoneForGood' /\ JobsImplyFinalizer'
  BY DEF DeletionInv, GoneForGood, JobsImplyFinalizer
<1> QED
  BY <1>1, <1>2, <1>3 DEF DeletionInv

\* DeletionInv holds before the first pass: no finalizer, no job.
LEMMA InitDeletion == Init => DeletionInv
<1> SUFFICES ASSUME Init PROVE DeletionInv
  OBVIOUS
<1>1. PICK spec \in Specs : server = NewPipeline(spec)
  BY DEF Init
<1>2. /\ server.rv = 1 /\ server.exists /\ ~ server.finalizer
      /\ cache.rv = 0 /\ ~ cache.finalizer
  BY <1>1 DEF Init, NewPipeline
<1>3. ~ local.finalizer /\ pc = "idle"
  <2>1. \A s : ~ NewPipeline(s).finalizer
    BY DEF NewPipeline
  <2> QED
    BY <2>1 DEF Init, Blank
<1>4. \A n \in StepName : ~ jobs[n].exists
  BY DEF Init, NoJob
<1> QED
  BY <1>2, <1>3, <1>4
     DEF DeletionInv, FinalizerKnown, CopiesTrail, GoneForGood, JobsImplyFinalizer

\* DeletionInv is preserved by every step, of whatever actor.
LEMMA NextDeletion == TypeOK /\ DeletionInv /\ [Next]_vars => DeletionInv'
<1> SUFFICES ASSUME TypeOK, DeletionInv, [Next]_vars PROVE DeletionInv'
  OBVIOUS
<1> USE DEF objects, caches, pass
<1>1. /\ server \in Pipeline /\ cache \in Pipeline /\ local \in Pipeline
      /\ server.rv \in Nat /\ cache.rv \in Nat /\ local.rv \in Nat
      /\ jobs \in [StepName -> Job]
  BY DEF TypeOK, Pipeline
<1>2. CASE Reconcile
  <2>1. /\ pc' = "deleteJobs" => cache.deleting /\ cache.finalizer
        /\ pc' \in Starting => ~ cache.deleting /\ cache.finalizer
        /\ pc' \in PassStep
    BY <1>1, <1>2 DEF Reconcile, FirstStep, AfterFinalizer, Starting, PassStep, Pipeline
  <2>2. FinalizerKnown'
    BY <1>2, <2>1 DEF Reconcile, DeletionInv, FinalizerKnown, Starting, PassStep
  <2>3. CopiesTrail'
    BY <1>1, <1>2, <2>1 DEF Reconcile, DeletionInv, CopiesTrail
  <2>4. GoneForGood' /\ JobsImplyFinalizer'
    BY <1>2, <2>1 DEF Reconcile, DeletionInv, GoneForGood, JobsImplyFinalizer, Starting
  <2> QED
    BY <2>2, <2>3, <2>4 DEF DeletionInv
<1>3. CASE AddFinalizer
  <2>1. CASE Refused
    BY <2>1, RefusedQuiet, QuietStepDeletion
  <2>2. CASE ~ Refused
    <3>1. /\ Accepted /\ server'.rv = server.rv + 1
          /\ server'.finalizer /\ server'.exists /\ local' = server'
          /\ pc' # "deleteJobs" /\ UNCHANGED <<caches, jobs>>
      BY <1>1, <1>3, <2>2
         DEF AddFinalizer, Write, AfterFinalizer, DeletionInv, FinalizerKnown, Pipeline
    <3>2. FinalizerKnown' /\ CopiesTrail'
      BY <1>1, <3>1 DEF DeletionInv, FinalizerKnown, CopiesTrail
    <3>3. GoneForGood' /\ JobsImplyFinalizer'
      BY <3>1 DEF GoneForGood, JobsImplyFinalizer
    <3> QED
      BY <3>2, <3>3 DEF DeletionInv
  <2> QED
    BY <2>1, <2>2
<1>4. CASE \/ InitializePhase \/ InitializeStepStatuses \/ UpdateStepStatuses
           \/ UpdatePipelinePhase \/ SkipStep \/ MarkRunning \/ FinishPass \/ Panic
  BY <1>4, PassSteps, StatusWriteDeletion, QuietStepDeletion DEF DeletionInv
<1>5. CASE CreateJobForStep
  <2>1. CASE EndPass /\ UNCHANGED <<objects, caches, created, faults>>
    BY <2>1, EndPassIdle, QuietStepDeletion DEF QuietStep
  <2>2. CASE ~ (EndPass /\ UNCHANGED <<objects, caches, created, faults>>)
    <3>1. PICK i \in Actionable : /\ local' = [local EXCEPT !.steps[CurrentStatus(i)].job = TRUE]
                                  /\ pc = "startSteps" /\ pc' = "markRunning"
                                  /\ UNCHANGED <<server, caches>>
      BY <1>5, <2>2 DEF CreateJobForStep
    <3>2. local'.finalizer = local.finalizer /\ local'.exists = local.exists
      BY <1>1, <3>1 DEF Pipeline
    <3>3. local.finalizer /\ local.exists /\ server.exists
      BY <3>1 DEF DeletionInv, FinalizerKnown, GoneForGood, Starting, PassStep
    <3> QED
      BY <3>1, <3>2, <3>3
         DEF DeletionInv, FinalizerKnown, CopiesTrail, GoneForGood, JobsImplyFinalizer, Starting, PassStep
  <2> QED
    BY <2>1, <2>2
<1>6. CASE DeleteJob
  <2>1. CASE EndPass /\ UNCHANGED <<objects, caches, created, faults>>
    BY <2>1, EndPassIdle, QuietStepDeletion DEF QuietStep
  <2>2. CASE ~ (EndPass /\ UNCHANGED <<objects, caches, created, faults>>)
    <3>1. PICK n \in doomed : /\ jobs[n].exists /\ jobs' = [jobs EXCEPT ![n] = NoJob]
                              /\ UNCHANGED <<server, caches, pc, local>>
      BY <1>6, <2>2 DEF DeleteJob
    <3>2. JobsImplyFinalizer'
      BY <3>1 DEF DeletionInv, JobsImplyFinalizer
    <3> QED
      BY <3>1, <3>2 DEF DeletionInv, FinalizerKnown, CopiesTrail, GoneForGood, Starting
  <2> QED
    BY <2>1, <2>2
<1>7. CASE RemoveFinalizer
  <2>1. CASE Refused
    BY <2>1, RefusedQuiet, QuietStepDeletion
  <2>2. CASE ~ Refused
    <3>1. /\ pc = "deleteJobs" /\ Accepted /\ server'.rv = server.rv + 1
          /\ ~ server'.exists /\ pc' = "idle" /\ ~ local'.finalizer /\ UNCHANGED <<caches, jobs>>
      BY <1>1, <1>7, <2>2, EndPassIdle DEF RemoveFinalizer, Pipeline
    <3>2. cache.deleting
      <4>1. local.rv <= cache.rv /\ cache.rv <= server.rv /\ local.rv = server.rv
        BY <3>1 DEF DeletionInv, CopiesTrail, Accepted
      <4>2. local.rv = cache.rv
        BY <1>1, <4>1
      <4> QED
        BY <3>1, <4>2 DEF DeletionInv, CopiesTrail
    <3> QED
      BY <1>1, <3>1, <3>2
         DEF DeletionInv, FinalizerKnown, CopiesTrail, GoneForGood, JobsImplyFinalizer, Starting
  <2> QED
    BY <2>1, <2>2
<1>8. CASE SyncPipeline
  <2>1. ASSUME pc = "deleteJobs", local.rv = server.rv
        PROVE  local = server
    <3>1. local.rv <= cache.rv /\ cache.rv <= server.rv
      BY <2>1 DEF DeletionInv, CopiesTrail
    <3>2. local.rv = cache.rv
      BY <1>1, <2>1, <3>1
    <3> QED
      BY <2>1, <3>2 DEF DeletionInv, CopiesTrail
  <2>2. CopiesTrail'
    BY <1>1, <1>8, <2>1 DEF SyncPipeline, DeletionInv, CopiesTrail
  <2> QED
    BY <1>8, <2>2 DEF SyncPipeline, DeletionInv, FinalizerKnown, GoneForGood, JobsImplyFinalizer, Starting
<1>9. CASE TouchPipeline \/ EditSpec
  <2>1. /\ server'.rv = server.rv + 1 /\ server'.exists = server.exists
        /\ server'.finalizer = server.finalizer /\ UNCHANGED <<jobs, caches, pass>>
    BY <1>1, <1>9 DEF TouchPipeline, EditSpec, Pipeline
  <2> QED
    BY <1>1, <2>1 DEF DeletionInv, FinalizerKnown, CopiesTrail, GoneForGood, JobsImplyFinalizer, Starting
<1>10. CASE DeletePipeline
  <2>1. /\ server.exists /\ server'.rv = server.rv + 1 /\ server'.finalizer = server.finalizer
        /\ server'.exists = server.finalizer /\ UNCHANGED <<jobs, caches, pass>>
    BY <1>1, <1>10 DEF DeletePipeline, Pipeline
  <2>2. GoneForGood'
    BY <2>1 DEF DeletionInv, FinalizerKnown, GoneForGood, Starting
  <2> QED
    BY <1>1, <2>1, <2>2 DEF DeletionInv, FinalizerKnown, CopiesTrail, JobsImplyFinalizer
<1>11. CASE Interrupt
  BY <1>11, EndPassIdle, QuietStepDeletion DEF Interrupt, QuietStep
<1>12. ASSUME NEW n \in StepName, SyncJob(n)
       PROVE  DeletionInv'
  BY <1>12 DEF SyncJob, DeletionInv, FinalizerKnown, CopiesTrail, GoneForGood, JobsImplyFinalizer, Starting
<1>13. ASSUME NEW n \in StepName,
              \/ JobControllerStep(n) \/ SuspendJob(n) \/ ResumeJob(n)
              \/ RemoveJob(n)
       PROVE  DeletionInv'
  <2>1. jobs[n].exists /\ \E job : jobs' = [jobs EXCEPT ![n] = job]
    <3>1. CASE JobControllerStep(n)
      BY <3>1 DEF JobControllerStep, JobStarts, JobFinishes, JobSuspends, JobResumes, GarbageCollect
    <3>2. CASE SuspendJob(n) \/ ResumeJob(n) \/ RemoveJob(n)
      BY <3>2 DEF SuspendJob, ResumeJob, RemoveJob
    <3> QED
      BY <1>13, <3>1, <3>2
  <2>2. UNCHANGED <<server, caches, pass>>
    BY <1>13 DEF JobControllerStep, SuspendJob, ResumeJob, RemoveJob
  <2>3. JobsImplyFinalizer'
    BY <1>1, <2>1, <2>2 DEF DeletionInv, JobsImplyFinalizer
  <2> QED
    BY <2>2, <2>3 DEF DeletionInv, FinalizerKnown, CopiesTrail, GoneForGood, Starting
<1>14. CASE UNCHANGED vars
  BY <1>14 DEF vars, DeletionInv, FinalizerKnown, CopiesTrail, GoneForGood, JobsImplyFinalizer, Starting
<1> QED
  BY <1>2, <1>3, <1>4, <1>5, <1>6, <1>7, <1>8, <1>9, <1>10, <1>11, <1>12, <1>13, <1>14
     DEF Next, ReconcilerStep, Environment

\* No job of an existing pipeline is ever without the finalizer's protection.
THEOREM FinalizerGuardsJobs == Spec => []JobsImplyFinalizer
<1>1. DeletionInv => JobsImplyFinalizer
  BY DEF DeletionInv
<1> QED
  BY <1>1, InitType, NextType, InitDeletion, NextDeletion, PTL DEF Spec

\* A job is created only by a pass that is starting steps.
LEMMA CreationNeedsAPass == Next /\ created' # created => pc \in Starting
<1> SUFFICES ASSUME Next, created' # created PROVE pc = "startSteps"
  BY DEF Starting, PassStep
<1> USE DEF caches, objects, pass
<1>1. CASE ReconcilerStep
  BY <1>1 DEF ReconcilerStep, Reconcile, AddFinalizer, InitializePhase, InitializeStepStatuses,
              UpdateStepStatuses, UpdatePipelinePhase, SkipStep, CreateJobForStep, MarkRunning,
              FinishPass, Panic, DeleteJob, RemoveFinalizer, Refused
<1>2. CASE Environment
  BY <1>2 DEF Environment, SyncPipeline, TouchPipeline, EditSpec, DeletePipeline, Interrupt, SyncJob,
              JobControllerStep, SuspendJob, ResumeJob, RemoveJob
<1> QED
  BY <1>1, <1>2 DEF Next

\* Once the pipeline is gone, no pass creates a job for it.
THEOREM NothingForTheGone == Spec => NoJobForTheGone
<1>1. DeletionInv /\ [Next]_vars => [~ server.exists => created' = created]_vars
  BY CreationNeedsAPass DEF DeletionInv, GoneForGood, vars
<1> QED
  BY <1>1, InitType, NextType, InitDeletion, NextDeletion, PTL DEF Spec, NoJobForTheGone

----------------------------------------------------------------------------
(* Finding a status by its step's name.                                    *)

\* getStepStatus returns a status of that name, or nil if there is none.
LEMMA FoundIndex ==
  ASSUME NEW p, p.steps \in Seq(StepStatus), NEW name
  PROVE  \/ /\ StatusIndex(p, name) = 0
            /\ \A i \in DOMAIN p.steps : p.steps[i].name # name
         \/ /\ StatusIndex(p, name) \in DOMAIN p.steps /\ StatusIndex(p, name) # 0
            /\ p.steps[StatusIndex(p, name)].name = name
<1> DEFINE found == {i \in DOMAIN p.steps : p.steps[i].name = name}
<1>1. found \in SUBSET Nat /\ 0 \notin found
  OBVIOUS
<1>2. CASE found = {}
  BY <1>2 DEF StatusIndex
<1>3. CASE found # {}
  <2>1. Least(found) \in found
    BY <1>1, <1>3, LeastExists DEF Least
  <2>2. StatusIndex(p, name) = Least(found)
    BY <1>3 DEF StatusIndex
  <2> QED
    BY <1>1, <2>1, <2>2
<1> QED
  BY <1>2, <1>3

\* A phase that is not nil is the phase of the status that was found.
LEMMA FoundPhase ==
  ASSUME NEW p, p.steps \in Seq(StepStatus), NEW name, StatusPhase(p, name) # "nil"
  PROVE  /\ StatusIndex(p, name) \in DOMAIN p.steps /\ StatusIndex(p, name) # 0
         /\ p.steps[StatusIndex(p, name)].name = name
         /\ p.steps[StatusIndex(p, name)].phase = StatusPhase(p, name)
BY FoundIndex DEF StatusPhase

\* What the decisions of a pass depend on: the spec, and the names and the
\* phases of the statuses, but not their jobs or the pipeline's metadata.
Alike(p, q) ==
  /\ p.spec = q.spec /\ DOMAIN p.steps = DOMAIN q.steps
  /\ \A i \in DOMAIN p.steps : p.steps[i].name = q.steps[i].name /\ p.steps[i].phase = q.steps[i].phase

\* The status found by a name, and its phase, are the same for pipelines that are alike.
LEMMA AlikeStatus ==
  ASSUME NEW p, NEW q, p.steps \in Seq(StepStatus), Alike(p, q), NEW name
  PROVE  StatusIndex(q, name) = StatusIndex(p, name) /\ StatusPhase(q, name) = StatusPhase(p, name)
<1>1. {i \in DOMAIN p.steps : p.steps[i].name = name} = {i \in DOMAIN q.steps : q.steps[i].name = name}
  BY DEF Alike
<1>2. StatusIndex(q, name) = StatusIndex(p, name)
  BY <1>1 DEF StatusIndex
<1>3. StatusIndex(p, name) = 0 \/ StatusIndex(p, name) \in DOMAIN p.steps
  BY FoundIndex
<1> QED
  BY <1>2, <1>3 DEF StatusPhase, Alike

\* The verdict on a step is the same for pipelines that are alike.
LEMMA AlikeVerdict ==
  ASSUME NEW p, NEW q, p.steps \in Seq(StepStatus), Alike(p, q), NEW step
  PROVE  AreDependenciesSatisfied(q, step) = AreDependenciesSatisfied(p, step)
<1>1. \A name : StatusPhase(q, name) = StatusPhase(p, name)
  BY AlikeStatus
<1>2. StepIndex(q, step.name) = StepIndex(p, step.name) /\ q.spec = p.spec
  BY DEF StepIndex, Alike
<1>3. CheckSequentialExecution(q, step) = CheckSequentialExecution(p, step)
  <2> DEFINE Phases(r) == {StatusPhase(r, name) : name \in {r.spec[i].name : i \in 1 .. StepIndex(r, step.name) - 1}}
  <2>1. Phases(q) = Phases(p)
    BY <1>1, <1>2
  <2>2. \A r : CheckSequentialExecution(r, step) =
                 IF "nil" \in Phases(r) THEN "panic"
                 ELSE IF Phases(r) \cap {"Pending", "Running"} # {} THEN "wait"
                 ELSE IF Phases(r) \cap {"Failed", "Skipped"} # {} THEN "skip" ELSE "ready"
    BY Zenon DEF CheckSequentialExecution
  <2> QED
    BY <2>1, <2>2, Zenon
<1>4. CheckConditionalExecution(q, step) = CheckConditionalExecution(p, step)
  <2>1. AllComplete(q, step.runIf.steps) = AllComplete(p, step.runIf.steps)
    BY <1>1 DEF AllComplete
  <2>2. \A all, fail : ConditionMet(q, step.runIf.steps, all, fail) = ConditionMet(p, step.runIf.steps, all, fail)
    BY <1>1 DEF ConditionMet
  <2> QED
    BY <2>1, <2>2 DEF CheckConditionalExecution
<1> QED
  BY <1>3, <1>4 DEF AreDependenciesSatisfied

\* The phase computed is the same for pipelines that are alike.
LEMMA AlikePhase ==
  ASSUME NEW p, NEW q, p.steps \in Seq(StepStatus), Alike(p, q), p.phase = q.phase
  PROVE  NextPipelinePhase(q) = NextPipelinePhase(p)
<1>1. \A phase : AnyStep(q, phase) = AnyStep(p, phase)
  BY DEF AnyStep, Alike
<1>2. AllSucceeded(q) = AllSucceeded(p)
  BY DEF AllSucceeded, Alike
<1>3. HandlersPending(q) = HandlersPending(p)
  <2>1. \A name : StatusPhase(q, name) = StatusPhase(p, name)
    BY AlikeStatus
  <2>2. HasPendingFailureHandlers(q) = HasPendingFailureHandlers(p)
    BY <2>1 DEF HasPendingFailureHandlers, Alike
  <2> QED
    BY <1>1, <2>2 DEF HandlersPending
<1> QED
  BY <1>1, <1>2, <1>3 DEF NextPipelinePhase

----------------------------------------------------------------------------
(* What a pass holds of the pipeline.  Its copy is not newer than the      *)
(* object, and at the object's version it agrees with it in all a write    *)
(* carries over, but for the job it has created and not yet recorded.      *)

\* The status of the step whose job a pass has just created.
Recording == CurrentStatus(cursor)

AsStored == IF pc = "markRunning" THEN [local.steps EXCEPT ![Recording].job = FALSE] ELSE local.steps

UpToDate == pc # "idle" /\ local.rv = server.rv

CopyAgrees ==
  /\ pc # "idle" => local.rv <= server.rv
  /\ UpToDate => /\ local.exists = server.exists /\ local.finalizer = server.finalizer
                 /\ local.deleting = server.deleting /\ local.spec = server.spec
                 /\ local.phase = server.phase /\ AsStored = server.steps

\* A status names its job from the moment the job is recorded on.
JobRecorded(status) == status.job <=> status.phase \notin {"Pending", "Skipped"}

JobsRecorded ==
  /\ \A i \in DOMAIN server.steps : JobRecorded(server.steps[i])
  /\ \A i \in DOMAIN cache.steps : JobRecorded(cache.steps[i])
  /\ \A i \in DOMAIN AsStored : JobRecorded(AsStored[i])

\* Each step of a pass finds what the one before it left.
StepFits(step, p) ==
  /\ step \in Starting => p.phase \notin TerminalPhase
  /\ step \in Starting => (step = "initializePhase" <=> p.phase = "")
  /\ step = "initializeSteps" => p.steps = <<>>
  /\ step \in Starting \ {"initializePhase", "initializeSteps"} => p.steps # <<>>

\* The job was created for a step that was pending and whose rule said so.
JustCreated ==
  /\ cursor \in DOMAIN local.spec /\ Recording \in DOMAIN local.steps /\ Recording # 0
  /\ local.steps[Recording].name = local.spec[cursor].name
  /\ local.steps[Recording].phase = "Pending" /\ local.steps[Recording].job
  /\ AreDependenciesSatisfied(local, local.spec[cursor]) = "ready"

PassOrder == StepFits(pc, local) /\ (pc = "markRunning" => JustCreated)

CopyInv == CopyAgrees /\ JobsRecorded /\ PassOrder

----------------------------------------------------------------------------
\* The copy of no pass is that of a pipeline that has just been created.
LEMMA EmptyBlank == Blank.steps = <<>> /\ Blank.phase = "" /\ ~ Blank.deleting
<1>1. \A spec : NewPipeline(spec).steps = <<>> /\ NewPipeline(spec).phase = "" /\ ~ NewPipeline(spec).deleting
  BY DEF NewPipeline
<1> QED
  BY <1>1 DEF Blank

\* The step a pass begins with, and the one after the finalizer, fit the copy it has.
LEMMA FirstStepFits ==
  ASSUME NEW p PROVE /\ StepFits(AfterFinalizer(p), p) /\ StepFits(FirstStep(p), p)
                     /\ AfterFinalizer(p) \in PassStep \ {"markRunning"}
                     /\ FirstStep(p) \in PassStep \ {"markRunning"}
<1>1. StepFits(AfterFinalizer(p), p) /\ AfterFinalizer(p) \in (Starting \cup {"idle"}) \ {"markRunning"}
  BY DEF StepFits, AfterFinalizer, Starting, PassStep, TerminalPhase
<1>2. FirstStep(p) \in {"idle", "deleteJobs", "addFinalizer"} \/ FirstStep(p) = AfterFinalizer(p)
  BY DEF FirstStep
<1>3. ASSUME NEW step \in {"idle", "deleteJobs", "addFinalizer"}
      PROVE  StepFits(step, p) /\ step \in PassStep \ {"markRunning"}
  BY DEF StepFits, Starting, PassStep
<1>4. AfterFinalizer(p) \in PassStep \ {"markRunning"}
  BY <1>1 DEF Starting, PassStep
<1> QED
  BY <1>1, <1>2, <1>3, <1>4

\* What a refresh makes of a status still names its job or not.
LEMMA RefreshRecorded ==
  ASSUME NEW status \in StepStatus, NEW job \in Job, JobRecorded(status)
  PROVE  JobRecorded(RefreshStatus(status, job))
<1>1. CASE status.job /\ job.exists
  <2>1. /\ DetermineStepPhase(job, status.phase) \notin {"Pending", "Skipped"}
    BY <1>1 DEF DetermineStepPhase, JobRecorded, Job, JobCondition
  <2> QED
    BY <1>1, <2>1 DEF RefreshStatus, JobRecorded, StepStatus
<1>2. CASE ~ (status.job /\ job.exists)
  BY <1>2 DEF RefreshStatus
<1> QED
  BY <1>1, <1>2

(* The steps of a pass that write the object, and those that change only   *)
(* the pass.                                                               *)

CopyWrite ==
  /\ pc # "idle" /\ Accepted /\ server'.rv = server.rv + 1 /\ cache' = cache
  /\ \A i \in DOMAIN server'.steps : JobRecorded(server'.steps[i])
  /\ \/ EndPass
     \/ local' = server' /\ pc' # "markRunning" /\ StepFits(pc', local')

CopyKept ==
  /\ UNCHANGED <<server, caches>>
  /\ \/ EndPass
     \/ /\ pc # "idle" /\ local'.rv = local.rv
        /\ local'.exists = local.exists /\ local'.finalizer = local.finalizer
        /\ local'.deleting = local.deleting /\ local'.spec = local.spec
        /\ local'.phase = local.phase /\ AsStored' = AsStored
        /\ PassOrder'

\* A write the API server accepts leaves the pass with what it has written.
LEMMA CopyWriteKeeps == ASSUME TypeOK, CopyInv, CopyWrite PROVE CopyInv'
<1> USE DEF CopyWrite, EndPass
<1>1. server.rv \in Nat
  BY DEF TypeOK, Pipeline
<1>2. pc' # "markRunning" /\ AsStored' = local'.steps
  BY DEF AsStored
<1>3. CASE EndPass
  <2>1. CopyAgrees'
    BY <1>3 DEF CopyAgrees, UpToDate
  <2>2. JobsRecorded'
    <3>1. AsStored' = <<>>
      BY <1>2, <1>3, EmptyBlank
    <3> QED
      BY <3>1 DEF CopyInv, JobsRecorded
  <2>3. PassOrder'
    BY <1>3 DEF PassOrder, StepFits, Starting
  <2> QED
    BY <2>1, <2>2, <2>3 DEF CopyInv
<1>4. CASE ~ EndPass
  <2>1. CopyAgrees'
    BY <1>1, <1>2, <1>4 DEF CopyAgrees, UpToDate
  <2>2. JobsRecorded'
    BY <1>2, <1>4 DEF CopyInv, JobsRecorded
  <2>3. PassOrder'
    BY <1>4 DEF PassOrder
  <2> QED
    BY <2>1, <2>2, <2>3 DEF CopyInv
<1> QED
  BY <1>3, <1>4

\* A step that writes nothing keeps what the copy has to say of the object.
LEMMA CopyKeptKeeps == ASSUME CopyInv, CopyKept PROVE CopyInv'
<1> USE DEF CopyKept, EndPass, caches
<1>1. CASE EndPass
  <2>1. AsStored' = <<>>
    BY <1>1, EmptyBlank DEF AsStored
  <2>2. CopyAgrees'
    BY <1>1 DEF CopyAgrees, UpToDate
  <2>3. JobsRecorded'
    BY <1>1, <2>1 DEF CopyInv, JobsRecorded
  <2>4. PassOrder'
    BY <1>1 DEF PassOrder, StepFits, Starting
  <2> QED
    BY <2>2, <2>3, <2>4 DEF CopyInv
<1>2. CASE ~ EndPass
  <2>1. CopyAgrees'
    BY <1>2 DEF CopyInv, CopyAgrees, UpToDate
  <2>2. JobsRecorded'
    BY <1>2 DEF CopyInv, JobsRecorded
  <2> QED
    BY <1>2, <2>1, <2>2 DEF CopyInv
<1> QED
  BY <1>1, <1>2

\* A write that conflicts ends the pass and changes nothing.
LEMMA RefusedKept == ASSUME Refused PROVE CopyKept
BY DEF Refused, CopyKept, objects

\* A pass that goes from one step to a later one, keeping the copy, except
\* that it may recompute the Ready condition.
LEMMA SameCopyKept ==
  ASSUME pc # "idle", pc # "markRunning", pc' # "markRunning", UNCHANGED <<server, caches>>,
         local' = local, StepFits(pc', local)
  PROVE  CopyKept
BY DEF CopyKept, AsStored, PassOrder

----------------------------------------------------------------------------
\* No pass is under way at first, and neither pipeline has a status.
LEMMA InitCopy == Init => CopyInv
<1> SUFFICES ASSUME Init PROVE CopyInv
  OBVIOUS
<1>1. PICK spec \in Specs : server = NewPipeline(spec)
  BY DEF Init
<1>2. server.steps = <<>> /\ cache.steps = <<>>
  BY <1>1 DEF Init, NewPipeline
<1>3. pc = "idle" /\ AsStored = <<>>
  BY EmptyBlank DEF Init, AsStored
<1> QED
  BY <1>2, <1>3 DEF CopyInv, CopyAgrees, UpToDate, JobsRecorded, PassOrder, StepFits, Starting

\* Each step of a pass either writes the object or keeps the copy it has.
LEMMA CopyPassSteps ==
  ASSUME TypeOK, CopyInv,
         \/ AddFinalizer \/ InitializePhase \/ InitializeStepStatuses \/ UpdateStepStatuses
         \/ UpdatePipelinePhase \/ SkipStep \/ CreateJobForStep \/ MarkRunning
         \/ FinishPass \/ Panic \/ DeleteJob \/ RemoveFinalizer
  PROVE  CopyWrite \/ CopyKept
<1> SUFFICES ASSUME ~ Refused PROVE CopyWrite \/ CopyKept
  BY RefusedKept
<1> USE DEF caches, objects
<1>1. local \in Pipeline /\ server \in Pipeline /\ jobCache \in [StepName -> Job]
      /\ local.steps \in Seq(StepStatus) /\ local.spec \in Seq(PipelineStep) \ {<<>>}
  BY SpecsAssumption DEF TypeOK, Pipeline
<1>2. ASSUME pc # "markRunning" PROVE \A i \in DOMAIN local.steps : JobRecorded(local.steps[i])
  BY <1>2 DEF CopyInv, JobsRecorded, AsStored
<1>3. CASE AddFinalizer
  <2>1. /\ pc = "addFinalizer" /\ Accepted /\ server'.rv = server.rv + 1 /\ cache' = cache
        /\ local' = server' /\ pc' = AfterFinalizer(local)
        /\ server'.steps = local.steps /\ server'.phase = local.phase
    BY <1>1, <1>3 DEF AddFinalizer, Write, Pipeline
  <2>2. StepFits(pc', local') /\ pc' # "markRunning"
    BY <2>1, FirstStepFits DEF StepFits
  <2> QED
    BY <1>2, <2>1, <2>2 DEF CopyWrite
<1>4. CASE InitializePhase
  <2>1. /\ pc = "initializePhase" /\ Accepted /\ server'.rv = server.rv + 1 /\ cache' = cache
        /\ EndPass /\ server'.steps = local.steps
    BY <1>1, <1>4 DEF InitializePhase, Pipeline
  <2> QED
    BY <1>2, <2>1 DEF CopyWrite
<1>5. CASE InitializeStepStatuses
  <2>1. /\ pc = "initializeSteps" /\ Accepted /\ server'.rv = server.rv + 1 /\ cache' = cache
        /\ local' = server' /\ pc' = "updateSteps" /\ server'.phase = local.phase
        /\ server'.steps = InitialStatuses(local.spec)
    BY <1>1, <1>5 DEF InitializeStepStatuses, Write, Pipeline
  <2>2. \A i \in DOMAIN server'.steps : JobRecorded(server'.steps[i])
    BY <2>1 DEF InitialStatuses, JobRecorded
  <2>3. server'.steps # <<>>
    BY <1>1, <2>1 DEF InitialStatuses
  <2>4. StepFits(pc', local')
    BY <2>1, <2>3 DEF CopyInv, PassOrder, StepFits, Starting, PassStep
  <2> QED
    BY <2>1, <2>2, <2>4 DEF CopyWrite
<1>6. CASE UpdateStepStatuses
  <2> DEFINE steps == RefreshStatuses(local.steps, jobCache)
  <2>1. CASE steps = local.steps
    <3>1. pc = "updateSteps" /\ pc' = "updatePhase" /\ UNCHANGED <<server, caches, local>>
      BY <1>6, <2>1 DEF UpdateStepStatuses
    <3>2. StepFits(pc', local)
      BY <3>1 DEF CopyInv, PassOrder, StepFits, Starting, PassStep
    <3> QED
      BY <3>1, <3>2, SameCopyKept
  <2>2. CASE steps # local.steps
    <3>1. /\ pc = "updateSteps" /\ Accepted /\ server'.rv = server.rv + 1 /\ cache' = cache
          /\ local' = server' /\ pc' = "updatePhase" /\ server'.phase = local.phase
          /\ server'.steps = steps
      BY <1>1, <1>6, <2>2 DEF UpdateStepStatuses, Write, Pipeline
    <3>2. ASSUME NEW i \in DOMAIN local.steps PROVE JobRecorded(steps[i])
      <4>1. local.steps[i] \in StepStatus
        BY <1>1
      <4>2. jobCache[local.steps[i].name] \in Job
        BY <1>1, <4>1 DEF StepStatus
      <4> QED
        BY <1>2, <3>1, <4>1, <4>2, RefreshRecorded DEF RefreshStatuses
    <3>3. DOMAIN steps = DOMAIN local.steps
      BY DEF RefreshStatuses
    <3>4. steps # <<>>
      <4>1. local.steps # <<>>
        BY <3>1 DEF CopyInv, PassOrder, StepFits, Starting, PassStep
      <4> HIDE DEF steps
      <4> QED
        BY <1>1, <3>3, <4>1
    <3>5. StepFits(pc', local')
      BY <3>1, <3>4 DEF CopyInv, PassOrder, StepFits, Starting, PassStep
    <3> QED
      BY <3>1, <3>2, <3>3, <3>5 DEF CopyWrite
  <2> QED
    BY <2>1, <2>2
<1>7. CASE UpdatePipelinePhase
  <2> DEFINE p == WithPhase(local)
  <2>1. pc = "updatePhase"
    BY <1>7 DEF UpdatePipelinePhase
  <2>2. /\ p \in Pipeline /\ p.steps = local.steps /\ p.spec = local.spec /\ p.rv = local.rv
        /\ p.exists = local.exists /\ p.finalizer = local.finalizer /\ p.deleting = local.deleting
    BY <1>1, WithPhaseType DEF WithPhase, UpdateConditions, Pipeline
  <2>3. local.phase # "" /\ local.steps # <<>> /\ local.phase \notin TerminalPhase
    BY <2>1 DEF CopyInv, PassOrder, StepFits, Starting, PassStep
  <2>4. p.phase # ""
    BY <1>1, <2>3, WithPhaseType DEF NextPipelinePhase
  <2>5. CASE p.phase = local.phase
    <3>1. local' = p /\ pc' = "startSteps" /\ UNCHANGED <<server, caches>>
      BY <1>7, <2>3, <2>5, Zenon DEF UpdatePipelinePhase, PhaseEndsPass
    <3> HIDE DEF p
    <3>2. StepFits(pc', local')
      BY <2>2, <2>3, <2>5, <3>1 DEF StepFits, Starting, PassStep
    <3> QED
      BY <2>1, <2>2, <2>5, <3>1, <3>2 DEF CopyKept, PassOrder, AsStored
  <2>6. CASE p.phase # local.phase
    <3>1. /\ Accepted /\ server' = [p EXCEPT !.rv = server.rv + 1] /\ UNCHANGED caches
          /\ \/ EndPass
             \/ local' = server' /\ pc' = "startSteps" /\ p.phase \notin TerminalPhase
      BY <1>7, <2>6, Zenon DEF UpdatePipelinePhase, PhaseEndsPass
    <3> HIDE DEF p
    <3>2. server'.rv = server.rv + 1 /\ server'.steps = local.steps /\ server'.phase = p.phase
      BY <2>2, <3>1 DEF Pipeline
    <3>3. EndPass \/ StepFits(pc', local')
      BY <2>3, <2>4, <3>1, <3>2 DEF StepFits, Starting, PassStep
    <3> QED
      BY <1>2, <2>1, <3>1, <3>2, <3>3 DEF CopyWrite
  <2> QED
    BY <2>5, <2>6
<1>8. CASE SkipStep
  <2>1. PICK i \in Actionable :
          /\ pc = "startSteps" /\ Accepted /\ server'.rv = server.rv + 1 /\ cache' = cache
          /\ local' = server' /\ pc' = "startSteps" /\ server'.phase = local.phase
          /\ server'.steps = [local.steps EXCEPT ![CurrentStatus(i)].phase = "Skipped"]
          /\ StepVerdict(i) = "skip"
    BY <1>1, <1>8 DEF SkipStep, Write, Pipeline
  <2>2. StatusPhase(local, local.spec[i].name) = "Pending"
    BY <2>1 DEF StepVerdict
  <2>3. CurrentStatus(i) \in DOMAIN local.steps /\ local.steps[CurrentStatus(i)].phase = "Pending"
    BY <1>1, <2>2, FoundPhase DEF CurrentStatus
  <2>4. \A j \in DOMAIN server'.steps : JobRecorded(server'.steps[j])
    <3>1. ~ local.steps[CurrentStatus(i)].job
      BY <1>2, <2>1, <2>3 DEF JobRecorded
    <3>2. local.steps[CurrentStatus(i)] \in StepStatus
      BY <1>1, <2>3
    <3> QED
      BY <1>1, <1>2, <2>1, <2>3, <3>1, <3>2 DEF JobRecorded, StepStatus
  <2>5. server'.steps # <<>>
    BY <1>1, <2>1, <2>3
  <2>6. StepFits(pc', local')
    BY <2>1, <2>5 DEF CopyInv, PassOrder, StepFits, Starting, PassStep
  <2> QED
    BY <2>1, <2>4, <2>6 DEF CopyWrite
<1>9. CASE CreateJobForStep
  <2>1. CASE EndPass /\ UNCHANGED <<objects, caches, created, faults>>
    BY <2>1 DEF CopyKept
  <2>2. CASE ~ (EndPass /\ UNCHANGED <<objects, caches, created, faults>>)
    <3>1. PICK i \in Actionable :
            /\ pc = "startSteps" /\ pc' = "markRunning" /\ UNCHANGED <<server, caches>>
            /\ local' = [local EXCEPT !.steps[CurrentStatus(i)].job = TRUE]
            /\ cursor' = i /\ StepVerdict(i) = "ready"
      BY <1>9, <2>2 DEF CreateJobForStep
    <3> DEFINE k == CurrentStatus(i)
               name == local.spec[i].name
    <3>2. /\ StatusPhase(local, name) = "Pending" /\ i \in DOMAIN local.spec
          /\ AreDependenciesSatisfied(local, local.spec[i]) = "ready"
      BY <3>1 DEF StepVerdict, Actionable
    <3>3. /\ k \in DOMAIN local.steps /\ k # 0 /\ local.steps[k].name = name
          /\ local.steps[k].phase = "Pending"
      BY <1>1, <3>2, FoundPhase DEF CurrentStatus
    <3>4. ~ local.steps[k].job
      BY <1>2, <3>1, <3>3 DEF JobRecorded
    <3>5. /\ local'.steps = [local.steps EXCEPT ![k].job = TRUE] /\ local'.spec = local.spec
          /\ local'.rv = local.rv /\ local'.exists = local.exists /\ local'.finalizer = local.finalizer
          /\ local'.deleting = local.deleting /\ local'.phase = local.phase
      BY <1>1, <3>1 DEF Pipeline
    <3>6. local.steps[k] \in StepStatus
      BY <1>1, <3>3
    <3>7. Alike(local, local')
      BY <1>1, <3>3, <3>5, <3>6 DEF Alike, StepStatus
    <3>8. Recording' = k
      BY <1>1, <3>1, <3>5, <3>7, AlikeStatus DEF Recording, CurrentStatus
    <3>9. AsStored' = AsStored
      <4>1. AsStored' = [local'.steps EXCEPT ![k].job = FALSE]
        BY <3>1, <3>8 DEF AsStored
      <4>2. [local'.steps EXCEPT ![k].job = FALSE] = local.steps
        BY <1>1, <3>3, <3>4, <3>5, <3>6 DEF StepStatus
      <4> QED
        BY <3>1, <4>1, <4>2 DEF AsStored
    <3>10. JustCreated'
      <4>1. AreDependenciesSatisfied(local', local.spec[i]) = "ready"
        BY <1>1, <3>2, <3>7, AlikeVerdict
      <4>2. k \in DOMAIN local'.steps /\ local'.steps[k] = [local.steps[k] EXCEPT !.job = TRUE]
        BY <1>1, <3>3, <3>5
      <4>3. local'.steps[k].name = name /\ local'.steps[k].phase = "Pending" /\ local'.steps[k].job
        BY <3>3, <3>6, <4>2 DEF StepStatus
      <4> QED
        BY <3>1, <3>2, <3>3, <3>5, <3>8, <4>1, <4>2, <4>3 DEF JustCreated
    <3>11. StepFits(pc', local')
      <4>1. local'.steps # <<>>
        BY <1>1, <3>3, <3>5
      <4> QED
        BY <3>1, <3>5, <4>1 DEF CopyInv, PassOrder, StepFits, Starting, PassStep
    <3> QED
      BY <3>1, <3>5, <3>9, <3>10, <3>11 DEF CopyKept, PassOrder
  <2> QED
    BY <2>1, <2>2
<1>10. CASE MarkRunning
  <2>1. /\ pc = "markRunning" /\ Accepted /\ server'.rv = server.rv + 1 /\ cache' = cache
        /\ local' = server' /\ pc' = "startSteps" /\ server'.phase = local.phase
        /\ server'.steps = [local.steps EXCEPT ![Recording].phase = "Running"]
    BY <1>1, <1>10 DEF MarkRunning, Write, Pipeline, Recording
  <2>2. JustCreated
    BY <2>1 DEF CopyInv, PassOrder
  <2>3. local.steps[Recording] \in StepStatus
    BY <1>1, <2>2 DEF JustCreated
  <2>4. \A j \in DOMAIN server'.steps : JobRecorded(server'.steps[j])
    <3>1. ASSUME NEW j \in DOMAIN local.steps, j # Recording PROVE JobRecorded(local.steps[j])
      <4>1. j \in DOMAIN AsStored /\ AsStored[j] = local.steps[j]
        BY <1>1, <2>1, <3>1 DEF AsStored
      <4> QED
        BY <4>1 DEF CopyInv, JobsRecorded
    <3>2. server'.steps[Recording].job /\ server'.steps[Recording].phase = "Running"
      BY <1>1, <2>1, <2>2, <2>3 DEF JustCreated, StepStatus
    <3>3. \A j \in DOMAIN local.steps : j # Recording => server'.steps[j] = local.steps[j]
      BY <1>1, <2>1
    <3>4. DOMAIN server'.steps = DOMAIN local.steps
      BY <1>1, <2>1
    <3> QED
      BY <3>1, <3>2, <3>3, <3>4 DEF JobRecorded
  <2>5. server'.steps # <<>>
    BY <1>1, <2>1, <2>2 DEF JustCreated
  <2>6. StepFits(pc', local')
    BY <2>1, <2>5 DEF CopyInv, PassOrder, StepFits, Starting, PassStep
  <2> QED
    BY <2>1, <2>4, <2>6 DEF CopyWrite
<1>11. CASE FinishPass \/ Panic
  BY <1>11 DEF FinishPass, Panic, CopyKept
<1>12. CASE DeleteJob
  <2>1. CASE EndPass
    BY <1>12, <2>1 DEF DeleteJob, CopyKept
  <2>2. CASE ~ EndPass
    <3>1. pc = "deleteJobs" /\ UNCHANGED <<server, caches, pc, local>>
      BY <1>12, <2>2 DEF DeleteJob
    <3> QED
      BY <3>1, SameCopyKept DEF CopyInv, PassOrder
  <2> QED
    BY <2>1, <2>2
<1>13. CASE RemoveFinalizer
  <2>1. /\ pc = "deleteJobs" /\ Accepted /\ EndPass /\ server'.rv = server.rv + 1 /\ cache' = cache
        /\ server'.steps = local.steps
    BY <1>1, <1>13 DEF RemoveFinalizer, Pipeline
  <2> QED
    BY <1>2, <2>1 DEF CopyWrite
<1> QED
  BY <1>3, <1>4, <1>5, <1>6, <1>7, <1>8, <1>9, <1>10, <1>11, <1>12, <1>13

\* CopyInv is inductive: the passes one by one, and what goes on around them.
LEMMA NextCopy == TypeOK /\ DeletionInv /\ CopyInv /\ [Next]_vars => CopyInv'
<1> SUFFICES ASSUME TypeOK, DeletionInv, CopyInv, [Next]_vars PROVE CopyInv'
  OBVIOUS
<1> USE DEF objects, caches, pass
<1>1. server \in Pipeline /\ cache \in Pipeline /\ server.rv \in Nat /\ local.rv \in Nat
  BY DEF TypeOK, Pipeline
<1>2. CASE Reconcile
  <2>1. UNCHANGED <<server, caches>> /\ local' = cache /\ pc' = FirstStep(cache)
    BY <1>2 DEF Reconcile
  <2>2. StepFits(pc', local') /\ pc' # "markRunning"
    BY <2>1, FirstStepFits
  <2>3. AsStored' = cache.steps
    BY <2>1, <2>2 DEF AsStored
  <2>4. cache.rv <= server.rv /\ (cache.rv = server.rv => cache = server)
    BY DEF DeletionInv, CopiesTrail
  <2>5. CopyAgrees'
    BY <2>1, <2>3, <2>4 DEF CopyAgrees, UpToDate
  <2>6. JobsRecorded'
    BY <2>1, <2>3 DEF CopyInv, JobsRecorded
  <2> QED
    BY <2>2, <2>5, <2>6 DEF CopyInv, PassOrder
<1>3. CASE \/ AddFinalizer \/ InitializePhase \/ InitializeStepStatuses \/ UpdateStepStatuses
           \/ UpdatePipelinePhase \/ SkipStep \/ CreateJobForStep \/ MarkRunning
           \/ FinishPass \/ Panic \/ DeleteJob \/ RemoveFinalizer
  BY <1>3, CopyPassSteps, CopyWriteKeeps, CopyKeptKeeps
<1>4. CASE TouchPipeline \/ EditSpec \/ DeletePipeline
  <2>1. server'.rv = server.rv + 1 /\ server'.steps = server.steps /\ UNCHANGED <<caches, pass>>
    BY <1>1, <1>4 DEF TouchPipeline, EditSpec, DeletePipeline, Pipeline
  <2>2. AsStored' = AsStored /\ (PassOrder' <=> PassOrder)
    BY <2>1 DEF AsStored, Recording, CurrentStatus, PassOrder, JustCreated
  <2>3. CopyAgrees'
    BY <1>1, <2>1 DEF CopyInv, CopyAgrees, UpToDate
  <2> QED
    BY <2>1, <2>2, <2>3 DEF CopyInv, JobsRecorded
<1>5. CASE Interrupt
  BY <1>5, CopyKeptKeeps DEF Interrupt, CopyKept
<1>6. CASE SyncPipeline
  <2>1. AsStored' = AsStored /\ (PassOrder' <=> PassOrder)
    BY <1>6 DEF SyncPipeline, AsStored, Recording, CurrentStatus, PassOrder, JustCreated
  <2> QED
    BY <1>6, <2>1 DEF SyncPipeline, CopyInv, CopyAgrees, UpToDate, JobsRecorded
<1>7. CASE \/ UNCHANGED vars
           \/ \E n \in StepName : \/ SyncJob(n) \/ JobControllerStep(n)
                                  \/ SuspendJob(n) \/ ResumeJob(n) \/ RemoveJob(n)
  <2>1. UNCHANGED <<server, cache, pass>>
    BY <1>7 DEF vars, SyncJob, JobControllerStep, SuspendJob, ResumeJob, RemoveJob
  <2>2. AsStored' = AsStored /\ (PassOrder' <=> PassOrder)
    BY <2>1 DEF AsStored, Recording, CurrentStatus, PassOrder, JustCreated
  <2> QED
    BY <2>1, <2>2 DEF CopyInv, CopyAgrees, UpToDate, JobsRecorded
<1> QED
  BY <1>2, <1>3, <1>4, <1>5, <1>6, <1>7 DEF Next, ReconcilerStep, Environment

----------------------------------------------------------------------------
(* How often a step runs.  Once a pass deletes jobs, or the object is      *)
(* gone, no job is created any more; until then a job that was created is  *)
(* there, or was removed by a user.                                        *)

Winding == cache.deleting /\ pc \notin Starting \cup {"addFinalizer"}

Over == ~ server.exists \/ Winding

DeletionKnown ==
  /\ cache.deleting => server.deleting
  /\ pc # "idle" /\ local.deleting => cache.deleting

JobsKept ==
  \A n \in StepName : /\ created[n] <= 1 + Vanished
                      /\ jobs[n].exists \/ Over \/ created[n] <= Vanished

OnceInv == DeletionKnown /\ JobsKept

\* The steps that neither create nor delete a job.
JobsStay ==
  /\ created' = created /\ (Over => Over')
  /\ \A n \in StepName : jobs[n].exists => jobs'[n].exists
  /\ faults'["remove"] = faults["remove"]

\* A step that neither creates nor removes a job keeps the count of the jobs.
LEMMA JobsStayKept == ASSUME JobsKept, JobsStay PROVE JobsKept'
BY DEF JobsKept, JobsStay, Vanished

\* No job was ever created at first.
LEMMA InitOnce == Init => OnceInv
<1> SUFFICES ASSUME Init PROVE OnceInv
  OBVIOUS
<1>1. PICK spec \in Specs : server = NewPipeline(spec)
  BY DEF Init
<1>2. ~ server.deleting /\ ~ cache.deleting
  BY <1>1 DEF Init, NewPipeline
<1> QED
  BY <1>2 DEF Init, OnceInv, DeletionKnown, JobsKept, Vanished, FaultKind

\* A deletion is seen first on the object, then in the cache, then by a pass.
LEMMA NextDeletionKnown ==
  TypeOK /\ CopyInv /\ DeletionKnown /\ [Next]_vars => DeletionKnown'
<1> SUFFICES ASSUME TypeOK, CopyInv, DeletionKnown, [Next]_vars PROVE DeletionKnown'
  OBVIOUS
<1> USE DEF objects, caches, pass
<1>1. server \in Pipeline /\ local \in Pipeline
  BY DEF TypeOK
<1>2. Accepted /\ pc # "idle" => local.deleting = server.deleting
  BY DEF CopyInv, CopyAgrees, UpToDate, Accepted
<1>3. CASE Reconcile
  BY <1>3 DEF Reconcile, DeletionKnown
<1>4. CASE \/ AddFinalizer \/ InitializePhase \/ InitializeStepStatuses \/ UpdateStepStatuses
           \/ SkipStep \/ CreateJobForStep \/ MarkRunning
           \/ FinishPass \/ Panic \/ DeleteJob \/ RemoveFinalizer
  <2>1. /\ cache' = cache /\ pc # "idle"
        /\ server' = server \/ (Accepted /\ server'.deleting = local.deleting)
        /\ pc' = "idle" \/ local'.deleting = local.deleting
    BY <1>1, <1>4
       DEF AddFinalizer, InitializePhase, InitializeStepStatuses, UpdateStepStatuses, SkipStep,
           CreateJobForStep, MarkRunning, FinishPass, Panic, DeleteJob, RemoveFinalizer, Refused,
           Write, EndPass, Pipeline
  <2> QED
    BY <1>2, <2>1 DEF DeletionKnown
<1>5. CASE UpdatePipelinePhase
  <2> DEFINE p == WithPhase(local)
  <2>1. p \in Pipeline /\ p.deleting = local.deleting /\ pc # "idle"
    BY <1>1, <1>5, WithPhaseType DEF UpdatePipelinePhase, WithPhase, UpdateConditions, Pipeline
  <2> DEFINE q == [p EXCEPT !.rv = server.rv + 1]
  <2>2. /\ cache' = cache
        /\ \/ server' = server /\ (pc' = "idle" \/ local' = p)
           \/ Accepted /\ server' = q /\ (pc' = "idle" \/ local' = q)
    BY <1>5, Zenon DEF UpdatePipelinePhase, Refused, EndPass
  <2>3. q.deleting = local.deleting
    BY <2>1 DEF Pipeline
  <2> HIDE DEF p, q
  <2> QED
    BY <1>2, <2>1, <2>2, <2>3 DEF DeletionKnown
<1>6. CASE TouchPipeline \/ EditSpec \/ DeletePipeline
  <2>1. (server.deleting => server'.deleting) /\ UNCHANGED <<caches, pass>>
    BY <1>1, <1>6 DEF TouchPipeline, EditSpec, DeletePipeline, Pipeline
  <2> QED
    BY <2>1 DEF DeletionKnown
<1>7. CASE \/ Interrupt \/ SyncPipeline \/ UNCHANGED vars
           \/ \E n \in StepName : \/ SyncJob(n) \/ JobControllerStep(n)
                                  \/ SuspendJob(n) \/ ResumeJob(n) \/ RemoveJob(n)
  BY <1>7 DEF Interrupt, EndPass, SyncPipeline, vars, SyncJob, JobControllerStep, SuspendJob, ResumeJob,
              RemoveJob, DeletionKnown
<1> QED
  BY <1>3, <1>4, <1>5, <1>6, <1>7 DEF Next, ReconcilerStep, Environment

\* Once the deletion of the jobs has begun or the object is gone, it stays so.
LEMMA OverStays == TypeOK /\ DeletionInv /\ CopyInv /\ OnceInv /\ [Next]_vars => (Over => Over')
<1> SUFFICES ASSUME TypeOK, DeletionInv, CopyInv, OnceInv, [Next]_vars, Over PROVE Over'
  OBVIOUS
<1> USE DEF objects, caches, pass
<1>1. server \in Pipeline /\ local \in Pipeline
  BY DEF TypeOK
<1>2. pc \notin Starting
  BY DEF Over, Winding, DeletionInv, GoneForGood
<1>3. CASE Reconcile
  <2>1. cache.deleting => pc' \in {"idle", "deleteJobs"}
    BY <1>3 DEF Reconcile, FirstStep
  <2> QED
    BY <1>3, <2>1 DEF Reconcile, Over, Winding, Starting
<1>4. CASE AddFinalizer \/ DeleteJob \/ RemoveFinalizer
  <2>1. CASE pc = "addFinalizer"
    <3>1. ~ server.exists
      BY <2>1 DEF Over, Winding
    <3> QED
      BY <1>4, <2>1, <3>1 DEF AddFinalizer, DeleteJob, RemoveFinalizer, Refused, Accepted, Over
  <2>2. CASE pc = "deleteJobs"
    <3>1. /\ cache' = cache /\ (server' = server \/ ~ server'.exists)
          /\ pc' \in {"idle", "deleteJobs"}
      BY <1>1, <1>4, <2>2 DEF AddFinalizer, DeleteJob, RemoveFinalizer, Refused, EndPass, Pipeline
    <3> QED
      BY <3>1 DEF Over, Winding, Starting
  <2> QED
    BY <1>4, <2>1, <2>2 DEF AddFinalizer, DeleteJob, RemoveFinalizer
<1>5. CASE \/ InitializePhase \/ InitializeStepStatuses \/ UpdateStepStatuses \/ UpdatePipelinePhase
           \/ SkipStep \/ CreateJobForStep \/ MarkRunning \/ FinishPass \/ Panic
  <2>1. pc \in Starting
    BY <1>5 DEF InitializePhase, InitializeStepStatuses, UpdateStepStatuses, UpdatePipelinePhase, SkipStep,
                CreateJobForStep, MarkRunning, FinishPass, Panic, Starting, PassStep
  <2> QED
    BY <1>2, <2>1
<1>6. CASE TouchPipeline \/ EditSpec \/ DeletePipeline
  <2>1. server.exists /\ UNCHANGED <<caches, pass>>
    BY <1>6 DEF TouchPipeline, EditSpec, DeletePipeline
  <2> QED
    BY <2>1 DEF Over, Winding
<1>7. CASE SyncPipeline
  BY <1>7 DEF SyncPipeline, Over, Winding, OnceInv, DeletionKnown
<1>8. CASE \/ Interrupt \/ UNCHANGED vars
           \/ \E n \in StepName : \/ SyncJob(n) \/ JobControllerStep(n)
                                  \/ SuspendJob(n) \/ ResumeJob(n) \/ RemoveJob(n)
  BY <1>8 DEF Interrupt, EndPass, vars, SyncJob, JobControllerStep, SuspendJob, ResumeJob, RemoveJob,
              Over, Winding, Starting
<1> QED
  BY <1>3, <1>4, <1>5, <1>6, <1>7, <1>8 DEF Next, ReconcilerStep, Environment

\* A job is created only where there is none, and lost only to a user or to a
\* deletion, after which none is created.
LEMMA NextJobsKept ==
  TypeOK /\ DeletionInv /\ CopyInv /\ OnceInv /\ [Next]_vars => JobsKept'
<1> SUFFICES ASSUME TypeOK, DeletionInv, CopyInv, OnceInv, [Next]_vars PROVE JobsKept'
  OBVIOUS
<1> USE DEF objects, caches, pass
<1>1. /\ jobs \in [StepName -> Job] /\ created \in [StepName -> Nat] /\ faults \in [FaultKind -> Nat]
      /\ faults["remove"] \in Nat /\ local.spec \in Seq(PipelineStep)
  BY SpecsAssumption DEF TypeOK, FaultKind, Pipeline
<1>2. (Over => Over') /\ JobsKept
  BY OverStays DEF OnceInv
<1>3. CASE CreateJobForStep
  <2>1. CASE UNCHANGED <<objects, created, faults>>
    BY <1>2, <2>1, JobsStayKept DEF JobsStay
  <2>2. CASE ~ UNCHANGED <<objects, created, faults>>
    <3>1. PICK i \in Actionable :
            /\ pc = "startSteps" /\ ~ NameTaken(local.spec[i].name) /\ UNCHANGED faults
            /\ jobs' = [jobs EXCEPT ![local.spec[i].name] =
                          [NoJob EXCEPT !.exists = TRUE, !.suspend = local.spec[i].suspend]]
            /\ created' = [created EXCEPT ![local.spec[i].name] = @ + 1]
      BY <1>3, <2>2 DEF CreateJobForStep
    <3> DEFINE n == local.spec[i].name
    <3>2. n \in StepName
      <4>1. local.spec[i] \in PipelineStep
        BY <1>1 DEF Actionable
      <4> QED
        BY <4>1 DEF PipelineStep
    <3>3. ~ Over
      BY <3>1 DEF Over, Winding, DeletionInv, GoneForGood, Starting, PassStep
    <3>4. created[n] <= Vanished
      BY <1>2, <3>1, <3>2, <3>3 DEF JobsKept, NameTaken
    <3>5. created'[n] <= 1 + Vanished /\ jobs'[n].exists /\ Vanished' = Vanished
      BY <1>1, <3>1, <3>2, <3>4 DEF NoJob, Vanished
    <3>6. \A m \in StepName : m # n => created'[m] = created[m] /\ jobs'[m] = jobs[m]
      BY <1>1, <3>1
    <3> QED
      BY <1>2, <3>5, <3>6 DEF JobsKept
  <2> QED
    BY <2>1, <2>2
<1>4. CASE DeleteJob
  <2>1. created' = created /\ faults' = faults /\ UNCHANGED cache /\ pc' \in {"idle", "deleteJobs"}
    BY <1>4 DEF DeleteJob, EndPass
  <2>2. cache.deleting
    BY <1>4 DEF DeleteJob, DeletionInv, CopiesTrail, OnceInv, DeletionKnown
  <2>3. Over'
    BY <2>1, <2>2 DEF Over, Winding, Starting
  <2> QED
    BY <1>2, <2>1, <2>3 DEF JobsKept, Vanished
<1>5. ASSUME NEW n \in StepName, RemoveJob(n)
      PROVE  JobsKept'
  <2>1. created' = created /\ Vanished' = Vanished + 1
    BY <1>1, <1>5 DEF RemoveJob, Spend, Vanished, FaultKind
  <2> QED
    BY <1>1, <1>2, <2>1 DEF JobsKept, Vanished
<1>6. ASSUME NEW n \in StepName, JobControllerStep(n)
      PROVE  JobsKept'
  <2>1. created' = created /\ faults' = faults /\ server' = server
    BY <1>6 DEF JobControllerStep
  <2>2. CASE GarbageCollect(n)
    BY <1>2, <2>1, <2>2 DEF GarbageCollect, JobsKept, Vanished, Over
  <2>3. CASE JobStarts(n) \/ JobFinishes(n) \/ JobSuspends(n) \/ JobResumes(n)
    <3>1. jobs'[n].exists = jobs[n].exists /\ \A m \in StepName : m # n => jobs'[m] = jobs[m]
      BY <1>1, <2>3 DEF JobStarts, JobFinishes, JobSuspends, JobResumes, Job
    <3> QED
      BY <1>2, <2>1, <3>1, JobsStayKept DEF JobsStay
  <2> QED
    BY <1>6, <2>2, <2>3 DEF JobControllerStep
<1>7. ASSUME NEW n \in StepName, SuspendJob(n) \/ ResumeJob(n)
      PROVE  JobsKept'
  <2>1. jobs'[n].exists = jobs[n].exists /\ \A m \in StepName : m # n => jobs'[m] = jobs[m]
    BY <1>1, <1>7 DEF SuspendJob, ResumeJob, Job
  <2>2. created' = created /\ faults'["remove"] = faults["remove"]
    BY <1>1, <1>7 DEF SuspendJob, ResumeJob, Spend, FaultKind
  <2> QED
    BY <1>2, <2>1, <2>2, JobsStayKept DEF JobsStay
<1>8. CASE \/ Reconcile \/ AddFinalizer \/ InitializePhase \/ InitializeStepStatuses \/ UpdateStepStatuses
           \/ UpdatePipelinePhase \/ SkipStep \/ MarkRunning \/ FinishPass \/ Panic \/ RemoveFinalizer
  <2>1. UNCHANGED <<jobs, created, faults>>
    BY <1>8 DEF Reconcile, AddFinalizer, InitializePhase, InitializeStepStatuses, UpdateStepStatuses,
                UpdatePipelinePhase, SkipStep, MarkRunning, FinishPass, Panic, RemoveFinalizer, Refused
  <2> QED
    BY <1>2, <2>1, JobsStayKept DEF JobsStay
<1>9. CASE \/ SyncPipeline \/ TouchPipeline \/ EditSpec \/ DeletePipeline \/ Interrupt
           \/ UNCHANGED vars \/ \E n \in StepName : SyncJob(n)
  <2>1. UNCHANGED <<jobs, created>> /\ faults'["remove"] = faults["remove"]
    BY <1>1, <1>9 DEF SyncPipeline, TouchPipeline, EditSpec, DeletePipeline, Interrupt, Spend, FaultKind, vars,
                      SyncJob
  <2> QED
    BY <1>2, <2>1, JobsStayKept DEF JobsStay
<1> QED
  BY <1>3, <1>4, <1>5, <1>6, <1>7, <1>8, <1>9 DEF Next, ReconcilerStep, Environment

\* OnceInv is inductive.
LEMMA NextOnce == TypeOK /\ DeletionInv /\ CopyInv /\ OnceInv /\ [Next]_vars => OnceInv'
BY NextDeletionKnown, NextJobsKept DEF OnceInv

\* A step runs at most once, and once more for each job that was removed:
\* whatever is edited or cut short, and however stale the copies are that
\* the passes work on (createJobForStep before the status is updated).
THEOREM RunsAtMostOnce == Spec => []AtMostOnce
<1>1. OnceInv => AtMostOnce
  BY DEF OnceInv, JobsKept, AtMostOnce
<1> QED
  BY <1>1, InitType, NextType, InitDeletion, NextDeletion, InitCopy, NextCopy, InitOnce, NextOnce, PTL
     DEF Spec

----------------------------------------------------------------------------
(* What the statuses say of the jobs.  As long as no job was removed, a    *)
(* status that names a job names one that was created; a step that has     *)
(* succeeded or failed did so because its job did, and the job, where it   *)
(* is still seen, still says so.                                           *)

Ended(status) == status.phase \in {"Succeeded", "Failed"}

Condition(phase) == IF phase = "Succeeded" THEN "Complete" ELSE "Failed"

\* A job is suspended only by a user, or because its step says so.
MayPause == faults["suspend"] > 0 \/ \E spec \in Specs : \E i \in DOMAIN spec : spec[i].suspend

Backed(status) ==
  /\ status.job => created[status.name] > 0
  /\ status.phase = "Suspended" => MayPause
  /\ Ended(status) =>
       /\ status.job
       /\ jobs[status.name].exists => jobs[status.name].cond = Condition(status.phase)
       /\ jobCache[status.name].exists => jobCache[status.name].cond = Condition(status.phase)

AllBacked(steps) == \A i \in DOMAIN steps : Backed(steps[i])

StatusesBacked == AllBacked(server.steps) /\ AllBacked(cache.steps) /\ AllBacked(local.steps)

\* A job that is seen was created, and its outcome, once seen, is final.
JobKnown(n) ==
  /\ jobs[n].suspend \/ jobs[n].cond = "Suspended" \/ jobCache[n].cond = "Suspended" => MayPause
  /\ jobs[n].exists \/ jobCache[n].exists => created[n] > 0
  /\ jobs[n].active => jobs[n].cond = "None"
  /\ jobs[n].exists /\ jobCache[n].exists /\ jobCache[n].cond \in {"Complete", "Failed"} =>
       jobs[n].cond = jobCache[n].cond

OutcomeInv == Vanished = 0 => StatusesBacked /\ \A n \in StepName : JobKnown(n)

----------------------------------------------------------------------------
\* Nothing was recorded, created or seen at first.
LEMMA InitOutcome == Init => OutcomeInv
<1> SUFFICES ASSUME Init PROVE OutcomeInv
  OBVIOUS
<1>1. PICK spec \in Specs : server = NewPipeline(spec)
  BY DEF Init
<1>2. server.steps = <<>> /\ cache.steps = <<>> /\ local.steps = <<>>
  BY <1>1, EmptyBlank DEF Init, NewPipeline
<1>3. \A n \in StepName : JobKnown(n)
  BY DEF Init, NoJob, JobKnown
<1>4. StatusesBacked
  BY <1>2 DEF StatusesBacked, AllBacked
<1> QED
  BY <1>3, <1>4 DEF OutcomeInv

\* A status that takes over what is seen of its job is backed by the job.
LEMMA RefreshBacked ==
  ASSUME NEW status \in StepStatus, jobCache \in [StepName -> Job],
         Backed(status), JobKnown(status.name)
  PROVE  Backed(RefreshStatus(status, jobCache[status.name]))
<1> DEFINE job == jobCache[status.name]
           new == RefreshStatus(status, job)
<1> SUFFICES Backed(new)
  OBVIOUS
<1>1. CASE ~ (status.job /\ job.exists)
  BY <1>1 DEF RefreshStatus
<1>2. CASE status.job /\ job.exists
  <2>1. new = [status EXCEPT !.phase = DetermineStepPhase(job, status.phase)]
    BY <1>2 DEF RefreshStatus
  <2>2. new.name = status.name /\ new.job = status.job /\ new.phase = DetermineStepPhase(job, status.phase)
    BY <2>1 DEF StepStatus
  <2>3. job \in Job
    BY DEF StepStatus
  <2>4. \/ job.cond = "Complete" /\ new.phase = "Succeeded"
        \/ job.cond = "Failed" /\ new.phase = "Failed"
        \/ job.cond = "Suspended" /\ new.phase = "Suspended"
        \/ new.phase \in {"Running", status.phase}
    BY <2>2, <2>3 DEF DetermineStepPhase, Ended, Job, JobCondition
  <2> HIDE DEF new
  <2> QED
    BY <1>2, <2>2, <2>4 DEF Backed, JobKnown, Ended, Condition
<1> QED
  BY <1>1, <1>2

\* A pass that touches no job backs every status it writes or holds.
LEMMA PassBacks ==
  ASSUME TypeOK, CopyInv, StatusesBacked, \A n \in StepName : JobKnown(n),
         \/ AddFinalizer \/ InitializePhase \/ InitializeStepStatuses \/ UpdateStepStatuses
         \/ UpdatePipelinePhase \/ SkipStep \/ MarkRunning \/ FinishPass \/ Panic \/ RemoveFinalizer
  PROVE  cache' = cache /\ AllBacked(server'.steps) /\ AllBacked(local'.steps)
<1> USE DEF caches, objects
<1>1. local \in Pipeline /\ server \in Pipeline /\ jobCache \in [StepName -> Job]
      /\ local.steps \in Seq(StepStatus)
  BY DEF TypeOK, Pipeline
<1>2. \A i \in DOMAIN local.steps : local.steps[i] \in StepStatus /\ Backed(local.steps[i])
  BY <1>1 DEF StatusesBacked, AllBacked
<1>3. AllBacked(server.steps) /\ AllBacked(local.steps) /\ AllBacked(Blank.steps)
  <2>1. AllBacked(<<>>)
    BY DEF AllBacked
  <2> QED
    BY <2>1, EmptyBlank DEF StatusesBacked
<1>4. CASE Refused
  BY <1>4, <1>3 DEF Refused, EndPass
<1> DEFINE Takes(steps) ==
      /\ cache' = cache /\ server'.steps = steps
      /\ local'.steps = steps \/ local' = Blank
<1>5. ASSUME NEW steps, Takes(steps), AllBacked(steps)
      PROVE  cache' = cache /\ AllBacked(server'.steps) /\ AllBacked(local'.steps)
  BY <1>5, <1>3
<1>6. CASE (AddFinalizer \/ InitializePhase \/ RemoveFinalizer) /\ ~ Refused
  <2>1. Takes(local.steps)
    BY <1>1, <1>6
       DEF AddFinalizer, InitializePhase, RemoveFinalizer, Write, EndPass, Pipeline
  <2> QED
    BY <1>3, <1>5, <2>1
<1>7. CASE InitializeStepStatuses /\ ~ Refused
  <2>1. Takes(InitialStatuses(local.spec))
    BY <1>1, <1>7 DEF InitializeStepStatuses, Write, Pipeline
  <2>2. AllBacked(InitialStatuses(local.spec))
    BY DEF InitialStatuses, AllBacked, Backed, Ended
  <2> QED
    BY <1>5, <2>1, <2>2
<1>8. CASE UpdateStepStatuses /\ ~ Refused
  <2> DEFINE steps == RefreshStatuses(local.steps, jobCache)
  <2>1. \/ Takes(steps)
        \/ UNCHANGED <<server, caches, local>>
    BY <1>1, <1>8 DEF UpdateStepStatuses, Write, Pipeline
  <2>2. ASSUME NEW i \in DOMAIN steps PROVE Backed(steps[i])
    <3>1. i \in DOMAIN local.steps /\ steps[i] = RefreshStatus(local.steps[i], jobCache[local.steps[i].name])
      BY DEF RefreshStatuses
    <3>2. local.steps[i] \in StepStatus /\ Backed(local.steps[i])
      BY <1>2, <3>1
    <3>3. JobKnown(local.steps[i].name)
      BY <3>2 DEF StepStatus
    <3> QED
      BY <1>1, <3>1, <3>2, <3>3, RefreshBacked
  <2>3. AllBacked(steps)
    BY <2>2, Zenon DEF AllBacked
  <2> HIDE DEF steps
  <2> QED
    BY <1>3, <1>5, <2>1, <2>3
<1>9. CASE UpdatePipelinePhase /\ ~ Refused
  <2> DEFINE p == WithPhase(local)
             q == [p EXCEPT !.rv = server.rv + 1]
  <2>1. p \in Pipeline /\ p.steps = local.steps
    BY <1>1, WithPhaseType DEF WithPhase, UpdateConditions, Pipeline
  <2>2. q.steps = local.steps
    BY <2>1 DEF Pipeline
  <2>3. /\ cache' = cache /\ server' \in {server, q} /\ local' \in {p, q, Blank}
    BY <1>9, Zenon DEF UpdatePipelinePhase, EndPass
  <2> HIDE DEF p, q
  <2> QED
    BY <1>3, <2>1, <2>2, <2>3
<1>10. CASE SkipStep /\ ~ Refused
  <2>1. PICK i \in Actionable :
          /\ pc = "startSteps" /\ StepVerdict(i) = "skip"
          /\ Takes([local.steps EXCEPT ![CurrentStatus(i)].phase = "Skipped"])
    BY <1>1, <1>10 DEF SkipStep, Write, Pipeline
  <2> DEFINE k == CurrentStatus(i)
             steps == [local.steps EXCEPT ![k].phase = "Skipped"]
  <2>2. StatusPhase(local, local.spec[i].name) = "Pending"
    BY <2>1 DEF StepVerdict
  <2>3. k \in DOMAIN local.steps /\ local.steps[k] \in StepStatus /\ Backed(local.steps[k])
    BY <1>1, <1>2, <2>2, FoundPhase DEF CurrentStatus
  <2>4. steps[k] = [local.steps[k] EXCEPT !.phase = "Skipped"]
    BY <1>1, <2>3
  <2>5. Backed(steps[k])
    BY <2>3, <2>4 DEF Backed, Ended, StepStatus
  <2>6. \A j \in DOMAIN steps : j \in DOMAIN local.steps /\ (j # k => steps[j] = local.steps[j])
    BY <1>1
  <2> HIDE DEF steps
  <2>7. AllBacked(steps)
    BY <1>2, <2>5, <2>6 DEF AllBacked
  <2> QED
    BY <1>5, <2>1, <2>7 DEF steps
<1>11. CASE MarkRunning /\ ~ Refused
  <2> DEFINE k == Recording
             steps == [local.steps EXCEPT ![k].phase = "Running"]
  <2>1. pc = "markRunning" /\ Takes(steps)
    BY <1>1, <1>11 DEF MarkRunning, Write, Pipeline, Recording
  <2>2. k \in DOMAIN local.steps
    BY <2>1 DEF CopyInv, PassOrder, JustCreated
  <2>3. local.steps[k] \in StepStatus /\ Backed(local.steps[k])
    BY <1>2, <2>2
  <2>4. steps[k] = [local.steps[k] EXCEPT !.phase = "Running"]
    BY <1>1, <2>2
  <2>5. Backed(steps[k])
    BY <2>3, <2>4 DEF Backed, Ended, StepStatus
  <2>6. \A j \in DOMAIN steps : j \in DOMAIN local.steps /\ (j # k => steps[j] = local.steps[j])
    BY <1>1
  <2> HIDE DEF steps
  <2>7. AllBacked(steps)
    BY <1>2, <2>5, <2>6 DEF AllBacked
  <2> QED
    BY <1>5, <2>1, <2>7
<1>12. CASE FinishPass \/ Panic
  BY <1>12, <1>3 DEF FinishPass, Panic, EndPass
<1> QED
  BY <1>4, <1>6, <1>7, <1>8, <1>9, <1>10, <1>11, <1>12

\* What happens to a job keeps the statuses backed, and the job known.
LEMMA JobStepBacks ==
  ASSUME TypeOK, \A n \in StepName : JobKnown(n), NEW n \in StepName,
         \/ SyncJob(n) \/ JobControllerStep(n) \/ SuspendJob(n) \/ ResumeJob(n)
  PROVE  /\ \A m \in StepName : JobKnown(m)'
         /\ \A status \in StepStatus : Backed(status) => Backed(status)'
         /\ UNCHANGED <<server, cache, local>>
<1>1. /\ jobs \in [StepName -> Job] /\ jobCache \in [StepName -> Job]
      /\ jobs[n] \in Job /\ JobKnown(n)
  BY DEF TypeOK
<1>2. UNCHANGED <<server, cache, local, created>>
  BY DEF SyncJob, JobControllerStep, SuspendJob, ResumeJob, pass, objects, caches
<1>3. (MayPause => MayPause') /\ (SuspendJob(n) => MayPause')
  <2>1. faults \in [FaultKind -> Nat] /\ faults["suspend"] \in Nat
    BY DEF TypeOK, FaultKind
  <2>2. CASE SuspendJob(n)
    BY <2>1, <2>2 DEF SuspendJob, Spend, MayPause, FaultKind
  <2>3. CASE ~ SuspendJob(n)
    BY <2>3 DEF SyncJob, JobControllerStep, ResumeJob, MayPause
  <2> QED
    BY <2>2, <2>3
<1>4. \A m \in StepName : m # n => jobs'[m] = jobs[m] /\ jobCache'[m] = jobCache[m]
  BY <1>1 DEF SyncJob, JobControllerStep, SuspendJob, ResumeJob, caches, objects,
              JobStarts, JobFinishes, JobSuspends, JobResumes, GarbageCollect
<1>5. /\ JobKnown(n)'
      /\ \A status \in StepStatus : status.name = n /\ Backed(status) => Backed(status)'
  <2>1. CASE SyncJob(n)
    <3>1. jobCache'[n] = jobs[n] /\ jobs' = jobs
      BY <1>1, <2>1 DEF SyncJob, objects
    <3> QED
      BY <1>1, <1>2, <1>3, <3>1 DEF JobKnown, Backed
  \* The job goes, or keeps the outcome it has, if it has one.
  <2>2. CASE ~ SyncJob(n)
    <3>1. jobs[n].exists /\ jobCache' = jobCache
      BY <2>2 DEF JobControllerStep, SuspendJob, ResumeJob, caches, SyncJob,
                  JobStarts, JobFinishes, JobSuspends, JobResumes, GarbageCollect
    <3>2. \/ jobs' = [jobs EXCEPT ![n] = NoJob]
          \/ \E flag \in BOOLEAN : /\ jobs' = [jobs EXCEPT ![n] = [jobs[n] EXCEPT !.suspend = flag]]
                                   /\ flag => MayPause'
          \/ /\ jobs[n].cond = "None"
             /\ \/ jobs' = [jobs EXCEPT ![n] = [jobs[n] EXCEPT !.active = TRUE]]
                \/ \E c : /\ jobs' = [jobs EXCEPT ![n] = [jobs[n] EXCEPT !.active = FALSE, !.cond = c]]
                          /\ c = "Suspended" => MayPause
          \/ jobs[n].cond = "Suspended" /\ jobs' = [jobs EXCEPT ![n] = [jobs[n] EXCEPT !.cond = "None"]]
      <4>1. CASE JobControllerStep(n)
        BY <1>1, <4>1 DEF JobControllerStep, JobStarts, JobFinishes, JobSuspends, JobResumes, GarbageCollect,
                          JobKnown
      <4>2. CASE SuspendJob(n) \/ ResumeJob(n)
        BY <4>2, <1>3 DEF SuspendJob, ResumeJob
      <4> QED
        BY <2>2, <4>1, <4>2
    <3>3. /\ jobs'[n].suspend \/ jobs'[n].cond = "Suspended" => MayPause'
          /\ \/ ~ jobs'[n].exists /\ ~ jobs'[n].active
             \/ /\ jobs'[n].active => jobs'[n].cond = "None"
                /\ jobs[n].cond \in {"Complete", "Failed"} => jobs'[n].cond = jobs[n].cond
      <4>1. \A job : jobs' = [jobs EXCEPT ![n] = job] => jobs'[n] = job
        BY <1>1
      <4>2. \/ jobs'[n] = NoJob
            \/ \E flag \in BOOLEAN : jobs'[n] = [jobs[n] EXCEPT !.suspend = flag] /\ (flag => MayPause')
            \/ /\ jobs[n].cond = "None"
               /\ \/ jobs'[n] = [jobs[n] EXCEPT !.active = TRUE]
                  \/ \E c : /\ jobs'[n] = [jobs[n] EXCEPT !.active = FALSE, !.cond = c]
                            /\ c = "Suspended" => MayPause
            \/ jobs[n].cond = "Suspended" /\ jobs'[n] = [jobs[n] EXCEPT !.cond = "None"]
        BY <3>2, <4>1
      <4>3. CASE jobs'[n] = NoJob
        BY <4>3 DEF NoJob
      <4>4. ASSUME NEW flag \in BOOLEAN, jobs'[n] = [jobs[n] EXCEPT !.suspend = flag]
            PROVE  jobs'[n].cond = jobs[n].cond /\ jobs'[n].active = jobs[n].active /\ jobs'[n].suspend = flag
        BY <1>1, <4>4 DEF Job
      <4>5. ASSUME jobs'[n] = [jobs[n] EXCEPT !.active = TRUE]
            PROVE  jobs'[n].cond = jobs[n].cond /\ jobs'[n].suspend = jobs[n].suspend
        BY <1>1, <4>5 DEF Job
      <4>6. ASSUME NEW c, jobs'[n] = [jobs[n] EXCEPT !.active = FALSE, !.cond = c]
            PROVE  ~ jobs'[n].active /\ jobs'[n].cond = c /\ jobs'[n].suspend = jobs[n].suspend
        BY <1>1, <4>6 DEF Job
      <4>7. ASSUME jobs'[n] = [jobs[n] EXCEPT !.cond = "None"]
            PROVE  jobs'[n].cond = "None" /\ jobs'[n].suspend = jobs[n].suspend
        BY <1>1, <4>7 DEF Job
      <4>8. /\ jobs[n].suspend \/ jobs[n].cond = "Suspended" => MayPause'
            /\ jobs[n].active => jobs[n].cond = "None"
        BY <1>1, <1>3 DEF JobKnown
      <4>9. CASE \E flag \in BOOLEAN : jobs'[n] = [jobs[n] EXCEPT !.suspend = flag] /\ (flag => MayPause')
        BY <4>4, <4>8, <4>9
      <4>10. CASE jobs[n].cond = "None" /\ jobs'[n] = [jobs[n] EXCEPT !.active = TRUE]
        BY <4>5, <4>8, <4>10
      <4>11. CASE /\ jobs[n].cond = "None"
                  /\ \E c : /\ jobs'[n] = [jobs[n] EXCEPT !.active = FALSE, !.cond = c]
                            /\ c = "Suspended" => MayPause
        BY <1>3, <4>6, <4>8, <4>11
      <4>12. CASE jobs[n].cond = "Suspended" /\ jobs'[n] = [jobs[n] EXCEPT !.cond = "None"]
        BY <4>7, <4>8, <4>12
      <4> QED
        BY <4>2, <4>3, <4>9, <4>10, <4>11, <4>12
    <3> QED
      BY <1>1, <1>2, <1>3, <3>1, <3>3 DEF JobKnown, Backed, Ended, Condition
  <2> QED
    BY <2>1, <2>2
<1>6. \A status \in StepStatus : Backed(status) => Backed(status)'
  <2> SUFFICES ASSUME NEW status \in StepStatus, Backed(status) PROVE Backed(status)'
    OBVIOUS
  <2>1. CASE status.name = n
    BY <1>5, <2>1
  <2>2. CASE status.name # n
    <3>1. status.name \in StepName
      BY DEF StepStatus
    <3> QED
      BY <1>2, <1>3, <1>4, <2>2, <3>1 DEF Backed
  <2> QED
    BY <2>1, <2>2
<1>7. \A m \in StepName : JobKnown(m)'
  BY <1>2, <1>3, <1>4, <1>5 DEF JobKnown
<1> QED
  BY <1>2, <1>6, <1>7

\* Nothing takes back that a job may be suspended.
LEMMA PauseStays == TypeOK /\ [Next]_vars => (MayPause => MayPause')
<1> SUFFICES ASSUME TypeOK, [Next]_vars PROVE MayPause => MayPause'
  OBVIOUS
<1>1. faults \in [FaultKind -> Nat] /\ faults["suspend"] \in Nat
  BY DEF TypeOK, FaultKind
<1>2. CASE \E kind \in FaultKind : faults' = [faults EXCEPT ![kind] = @ + 1]
  BY <1>1, <1>2 DEF MayPause, FaultKind
<1>3. CASE UNCHANGED faults
  BY <1>3 DEF MayPause
<1>4. CASE ReconcilerStep
  BY <1>3, <1>4 DEF ReconcilerStep, Reconcile, AddFinalizer, InitializePhase, InitializeStepStatuses,
              UpdateStepStatuses, UpdatePipelinePhase, SkipStep, CreateJobForStep, MarkRunning,
              FinishPass, Panic, DeleteJob, RemoveFinalizer, Refused
<1>5. CASE Environment
  BY <1>2, <1>3, <1>5 DEF Environment, SyncPipeline, TouchPipeline, EditSpec, DeletePipeline, Interrupt, SyncJob,
              JobControllerStep, SuspendJob, ResumeJob, RemoveJob, Spend, FaultKind
<1>6. CASE UNCHANGED vars
  BY <1>3, <1>6 DEF vars
<1> QED
  BY <1>4, <1>5, <1>6 DEF Next

\* OutcomeInv is inductive: the passes, the jobs, and what goes on around them.
LEMMA NextOutcome ==
  TypeOK /\ DeletionInv /\ CopyInv /\ OnceInv /\ OutcomeInv /\ [Next]_vars => OutcomeInv'
<1> SUFFICES ASSUME TypeOK, DeletionInv, CopyInv, OnceInv, OutcomeInv, [Next]_vars, Vanished' = 0
             PROVE  StatusesBacked' /\ \A n \in StepName : JobKnown(n)'
  BY DEF OutcomeInv
<1> USE DEF objects, caches, pass
<1>1. /\ server.steps \in Seq(StepStatus) /\ cache.steps \in Seq(StepStatus)
      /\ local.steps \in Seq(StepStatus) /\ local.spec \in Seq(PipelineStep) /\ local \in Pipeline
      /\ jobs \in [StepName -> Job] /\ jobCache \in [StepName -> Job]
      /\ created \in [StepName -> Nat] /\ faults \in [FaultKind -> Nat]
  BY SpecsAssumption DEF TypeOK, Pipeline
<1>2. faults["remove"] \in Nat
  BY <1>1 DEF FaultKind
<1>3. ASSUME Vanished = 0
      PROVE  StatusesBacked /\ \A n \in StepName : JobKnown(n)
  BY <1>3 DEF OutcomeInv
\* Where the jobs and their copies stay, so does what backs a status.
<1>4. MayPause => MayPause'
  BY <1>1, PauseStays
<1>5. ASSUME UNCHANGED <<jobs, jobCache, created>>
      PROVE  /\ \A n \in StepName : JobKnown(n) => JobKnown(n)'
             /\ \A steps : AllBacked(steps) => AllBacked(steps)'
  BY <1>5, <1>4 DEF JobKnown, AllBacked, Backed
\* Where the statuses stay, they stay backed if each one of them does.
<1>6. ASSUME UNCHANGED <<server, cache, local>>, StatusesBacked,
             \A status \in StepStatus : Backed(status) => Backed(status)'
      PROVE  StatusesBacked'
  BY <1>1, <1>6 DEF StatusesBacked, AllBacked
<1>7. CASE Reconcile
  <2>1. Vanished = 0 /\ UNCHANGED <<jobs, jobCache, created, server, cache>> /\ local' = cache
    BY <1>7 DEF Reconcile, Vanished
  <2> QED
    BY <1>3, <1>5, <2>1 DEF StatusesBacked
<1>8. CASE \/ AddFinalizer \/ InitializePhase \/ InitializeStepStatuses \/ UpdateStepStatuses
           \/ UpdatePipelinePhase \/ SkipStep \/ MarkRunning \/ FinishPass \/ Panic \/ RemoveFinalizer
  <2>1. Vanished = 0 /\ UNCHANGED <<jobs, jobCache, created>>
    BY <1>8 DEF AddFinalizer, InitializePhase, InitializeStepStatuses, UpdateStepStatuses,
                UpdatePipelinePhase, SkipStep, MarkRunning, FinishPass, Panic, RemoveFinalizer, Refused,
                Vanished
  <2>2. cache' = cache /\ AllBacked(server'.steps) /\ AllBacked(local'.steps)
    BY <1>3, <1>8, <2>1, PassBacks
  <2> QED
    BY <1>3, <1>5, <2>1, <2>2 DEF StatusesBacked
<1>9. CASE CreateJobForStep
  <2>1. CASE EndPass /\ UNCHANGED <<objects, caches, created, faults>>
    <3>1. Vanished = 0 /\ UNCHANGED <<jobs, jobCache, created, server, cache>> /\ local'.steps = <<>>
      BY <2>1, EmptyBlank DEF EndPass, Vanished
    <3>2. AllBacked(<<>>)
      BY DEF AllBacked
    <3> QED
      BY <1>3, <1>5, <3>1, <3>2 DEF StatusesBacked
  <2>2. CASE ~ (EndPass /\ UNCHANGED <<objects, caches, created, faults>>)
    <3>1. PICK i \in Actionable :
            /\ pc = "startSteps" /\ ~ NameTaken(local.spec[i].name) /\ UNCHANGED <<server, caches, faults>>
            /\ jobs' = [jobs EXCEPT ![local.spec[i].name] =
                          [NoJob EXCEPT !.exists = TRUE, !.suspend = local.spec[i].suspend]]
            /\ created' = [created EXCEPT ![local.spec[i].name] = @ + 1]
            /\ local' = [local EXCEPT !.steps[CurrentStatus(i)].job = TRUE]
            /\ StepVerdict(i) = "ready"
      BY <1>9, <2>2 DEF CreateJobForStep
    <3> DEFINE n == local.spec[i].name
    <3>2. n \in StepName /\ Vanished = 0
      <4>1. local.spec[i] \in PipelineStep
        BY <1>1 DEF Actionable
      <4> QED
        BY <3>1, <4>1 DEF PipelineStep, Vanished
    <3>3. ~ Over
      BY <3>1 DEF Over, Winding, DeletionInv, GoneForGood, Starting, PassStep
    <3>4. created[n] = 0 /\ ~ jobs[n].exists
      BY <1>1, <3>1, <3>2, <3>3 DEF OnceInv, JobsKept, NameTaken
    <3>5. ~ jobCache[n].exists
      BY <1>3, <3>2, <3>4 DEF JobKnown
    <3>6. /\ created'[n] = 1 /\ jobs'[n].cond = "None" /\ ~ jobs'[n].active /\ jobCache' = jobCache
          /\ \A m \in StepName : m # n => created'[m] = created[m] /\ jobs'[m] = jobs[m]
      BY <1>1, <3>1, <3>2, <3>4 DEF NoJob
    <3>7. \A m \in StepName : JobKnown(m)'
      <4>1. jobs'[n].suspend => MayPause
        <5>1. i \in DOMAIN local.spec /\ local.spec \in Specs
          BY <3>1 DEF Actionable, TypeOK, Pipeline
        <5>2. jobs'[n].suspend => local.spec[i].suspend
          BY <1>1, <3>1, <3>2 DEF NoJob
        <5> QED
          BY <5>1, <5>2 DEF MayPause
      <4> QED
        BY <1>3, <1>4, <3>2, <3>5, <3>6, <4>1 DEF JobKnown
    <3>8. ASSUME NEW status \in StepStatus, Backed(status) PROVE Backed(status)'
      <4>1. status.name \in StepName
        BY DEF StepStatus
      <4> QED
        BY <1>4, <3>2, <3>4, <3>6, <3>8, <4>1 DEF Backed
    <3>9. AllBacked(server.steps)' /\ AllBacked(cache.steps)'
      BY <1>1, <1>3, <3>1, <3>2, <3>8 DEF StatusesBacked, AllBacked
    <3>10. AllBacked(local.steps)'
      <4>1. StatusPhase(local, n) = "Pending"
        BY <3>1 DEF StepVerdict
      <4>2. PICK k \in DOMAIN local.steps :
              /\ k = CurrentStatus(i) /\ local.steps[k].name = n
              /\ local.steps[k].phase = "Pending" /\ local.steps[k] \in StepStatus
        BY <1>1, <4>1, FoundPhase DEF CurrentStatus
      <4>3. local'.steps = [local.steps EXCEPT ![k] = [local.steps[k] EXCEPT !.job = TRUE]]
        BY <1>1, <3>1, <4>2 DEF Pipeline
      <4>4. local'.steps[k] = [local.steps[k] EXCEPT !.job = TRUE]
        BY <1>1, <4>2, <4>3
      <4>5. local'.steps[k].name = n /\ local'.steps[k].phase = "Pending"
        BY <4>2, <4>4 DEF StepStatus
      <4>6. Backed(local.steps[k])'
        BY <3>6, <4>5 DEF Backed, Ended
      <4>7. ASSUME NEW j \in DOMAIN local'.steps, j # k PROVE Backed(local.steps[j])'
        <5>1. j \in DOMAIN local.steps /\ local'.steps[j] = local.steps[j] /\ local.steps[j] \in StepStatus
          BY <1>1, <4>3, <4>7
        <5>2. Backed(local.steps[j])
          BY <1>3, <3>2, <5>1 DEF StatusesBacked, AllBacked
        <5>3. PICK old \in StepStatus : old = local.steps[j]
          BY <5>1
        <5>4. Backed(old)'
          BY <3>8, <5>2, <5>3
        <5> QED
          BY <5>1, <5>3, <5>4 DEF Backed, Ended
      <4> QED
        BY <4>6, <4>7 DEF AllBacked
    <3> QED
      BY <3>7, <3>9, <3>10 DEF StatusesBacked
  <2> QED
    BY <2>1, <2>2
<1>10. CASE DeleteJob
  <2>1. CASE EndPass /\ UNCHANGED <<objects, caches, created, faults>>
    <3>1. Vanished = 0 /\ UNCHANGED <<jobs, jobCache, created, server, cache>> /\ local'.steps = <<>>
      BY <2>1, EmptyBlank DEF EndPass, Vanished
    <3>2. AllBacked(<<>>)
      BY DEF AllBacked
    <3> QED
      BY <1>3, <1>5, <3>1, <3>2 DEF StatusesBacked
  <2>2. CASE ~ (EndPass /\ UNCHANGED <<objects, caches, created, faults>>)
    <3>1. PICK n \in doomed : jobs' = [jobs EXCEPT ![n] = NoJob] /\ UNCHANGED <<server, caches, local, created, faults>>
      BY <1>10, <2>2 DEF DeleteJob
    <3>2. Vanished = 0 /\ n \in StepName
      BY <3>1 DEF Vanished, TypeOK
    <3>3. /\ ~ jobs'[n].exists /\ ~ jobs'[n].active /\ ~ jobs'[n].suspend /\ jobs'[n].cond = "None"
          /\ \A m \in StepName : m # n => jobs'[m] = jobs[m]
      BY <1>1, <3>1, <3>2 DEF NoJob
    <3>4. \A m \in StepName : JobKnown(m)'
      BY <1>3, <1>4, <3>1, <3>2, <3>3 DEF JobKnown
    <3>5. ASSUME NEW status \in StepStatus, Backed(status) PROVE Backed(status)'
      BY <1>4, <3>1, <3>3, <3>5 DEF Backed, StepStatus
    <3> QED
      BY <1>3, <1>6, <3>1, <3>2, <3>4, <3>5
  <2> QED
    BY <2>1, <2>2
<1>11. ASSUME NEW n \in StepName, SyncJob(n) \/ JobControllerStep(n) \/ SuspendJob(n) \/ ResumeJob(n)
       PROVE  StatusesBacked' /\ \A m \in StepName : JobKnown(m)'
  <2>1. Vanished = 0
    BY <1>1, <1>11 DEF SyncJob, JobControllerStep, SuspendJob, ResumeJob, Spend, Vanished, FaultKind
  <2> QED
    BY <1>3, <1>6, <1>11, <2>1, JobStepBacks
<1>12. ASSUME NEW n \in StepName, RemoveJob(n)
       PROVE  FALSE
  BY <1>1, <1>2, <1>12 DEF RemoveJob, Spend, Vanished, FaultKind
<1>13. CASE SyncPipeline \/ TouchPipeline \/ EditSpec \/ DeletePipeline \/ UNCHANGED vars
  <2>1. /\ Vanished = 0 /\ UNCHANGED <<jobs, jobCache, created, local>>
        /\ server'.steps = server.steps /\ cache' \in {cache, server}
    BY <1>1, <1>13 DEF SyncPipeline, TouchPipeline, EditSpec, DeletePipeline, vars, Spend, Vanished, FaultKind,
                       TypeOK, Pipeline
  <2> QED
    BY <1>3, <1>5, <2>1 DEF StatusesBacked
<1>14. CASE Interrupt
  <2>1. Vanished = 0 /\ UNCHANGED <<jobs, jobCache, created, server, cache>> /\ local'.steps = <<>>
    BY <1>1, <1>14, EmptyBlank DEF Interrupt, EndPass, Spend, Vanished, FaultKind
  <2>2. AllBacked(<<>>)
    BY DEF AllBacked
  <2> QED
    BY <1>3, <1>5, <2>1, <2>2 DEF StatusesBacked
<1> QED
  BY <1>7, <1>8, <1>9, <1>10, <1>11, <1>12, <1>13, <1>14 DEF Next, ReconcilerStep, Environment

\* What the status says of a step is what became of its job.
LEMMA OutcomesKnown == DeletionInv /\ OnceInv /\ OutcomeInv /\ TypeOK => OutcomesReal
<1> SUFFICES ASSUME DeletionInv, OnceInv, OutcomeInv, TypeOK, Vanished = 0, server.exists, ~ server.deleting,
                    NEW i \in DOMAIN server.steps, Ended(server.steps[i])
             PROVE  /\ jobs[server.steps[i].name].exists
                    /\ jobs[server.steps[i].name].cond = Condition(server.steps[i].phase)
  BY DEF OutcomesReal, Ended, Condition
<1>1. server.steps[i] \in StepStatus
  BY DEF TypeOK, Pipeline
<1>2. server.steps[i].name \in StepName
  BY <1>1 DEF StepStatus
<1>3. Backed(server.steps[i])
  BY DEF OutcomeInv, StatusesBacked, AllBacked
<1>4. created[server.steps[i].name] > 0
  BY <1>3 DEF Backed
<1>5. ~ Over
  BY DEF Over, Winding, OnceInv, DeletionKnown
<1>6. jobs[server.steps[i].name].exists
  BY <1>2, <1>4, <1>5 DEF OnceInv, JobsKept, TypeOK
<1> QED
  BY <1>3, <1>6 DEF Backed

\* A step is recorded as succeeded or failed only if its job did, whatever
\* copies of pipeline and job the passes read and however often a pass is
\* repeated (updateStepStatuses).
THEOREM OutcomesAreReal == Spec => []OutcomesReal
BY OutcomesKnown, InitType, NextType, InitDeletion, NextDeletion, InitCopy, NextCopy, InitOnce, NextOnce,
   InitOutcome, NextOutcome, PTL DEF Spec
=============================================================================
