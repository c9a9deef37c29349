---------------------- MODULE PipelineLifecycleProofs -----------------------
(***************************************************************************)
(* What PipelineControllerProofs establishes of the copies a pass works on *)
(* and of the jobs, put to use: the phase of a pipeline and its Ready      *)
(* condition fit its steps; every status write is a step of the abstract   *)
(* scheduler of PipelineLifecycle; the rules by which steps run and are    *)
(* skipped are obeyed; and what is over stays so.                          *)
(***************************************************************************)
EXTENDS PipelineControllerProofs

\* What PhaseSound says of the stored pipeline.
PhaseFits(p) ==
  /\ p.phase = "Succeeded" => \A i \in DOMAIN p.steps : p.steps[i].phase \in {"Succeeded", "Skipped"}
  /\ p.phase = "Failed" => /\ AnyStep(p, "Failed")
                           /\ ~ AnyStep(p, "Running") /\ ~ AnyStep(p, "Suspended")
                           /\ ~ HasPendingFailureHandlers(p)

\* A phase and the steps it was computed from, for a spec.
FitsSpec(phase, spec, steps) == PhaseFits([phase |-> phase, spec |-> spec, steps |-> steps])

\* No pipeline's spec is edited.
NoEdits == \A spec \in Specs : MaxFaults[spec]["spec"] = 0

----------------------------------------------------------------------------
\* The search for handlers is not needed where nothing is pending.
LEMMA HandlersArePending ==
  ASSUME NEW p \in Pipeline, HasPendingFailureHandlers(p)
  PROVE  AnyStep(p, "Pending")
BY FoundPhase DEF HasPendingFailureHandlers, AnyStep, Pipeline

\* updatePipelinePhase: the phase computed fits the steps it was computed from.
LEMMA NewPhaseFits ==
  ASSUME NEW p \in Pipeline, p.phase \notin TerminalPhase
  PROVE  PhaseFits(WithPhase(p)) /\ WithPhase(p).rv = p.rv
<1> DEFINE q == WithPhase(p)
<1>1. q.steps = p.steps /\ q.spec = p.spec /\ q.rv = p.rv
  BY DEF WithPhase, UpdateConditions, Pipeline
<1>2. q.phase = NextPipelinePhase(p)
  BY WithPhaseType
<1>3. CASE q.phase = "Failed"
  <2>1. /\ AnyStep(p, "Failed") /\ ~ AnyStep(p, "Running") /\ ~ AnyStep(p, "Suspended")
        /\ ~ HandlersPending(p)
    BY <1>2, <1>3 DEF NextPipelinePhase, TerminalPhase
  <2>2. ~ HasPendingFailureHandlers(p)
    BY <2>1, HandlersArePending DEF HandlersPending
  <2> QED
    BY <1>1, <1>3, <2>1, <2>2 DEF PhaseFits, AnyStep, HasPendingFailureHandlers, StatusPhase, StatusIndex
<1>4. CASE q.phase = "Succeeded"
  <2>1. AllSucceeded(p)
    BY <1>2, <1>4 DEF NextPipelinePhase, TerminalPhase
  <2> QED
    BY <1>1, <1>4, <2>1 DEF PhaseFits, AllSucceeded
<1>5. CASE q.phase \notin {"Failed", "Succeeded"}
  <2> HIDE DEF q
  <2>1. PhaseFits(q)
    BY <1>5 DEF PhaseFits
  <2> QED
    BY <1>1, <2>1 DEF q
<1> QED
  BY <1>3, <1>4, <1>5

StatusKept == server'.phase = server.phase /\ server'.steps = server.steps

\* A pass writes the status only of a pipeline that is not over.
LEMMA StartingIsOpen ==
  ASSUME CopyInv, Accepted, pc \in Starting
  PROVE  server.phase \notin TerminalPhase
BY DEF CopyInv, CopyAgrees, UpToDate, Accepted, PassOrder, StepFits, Starting

\* What is over keeps its status, whatever is edited or removed.
LEMMA TerminalKept ==
  ASSUME TypeOK, CopyInv, [Next]_vars, server.phase \in TerminalPhase
  PROVE  StatusKept
<1> USE DEF objects, caches, pass
<1>1. local \in Pipeline /\ server \in Pipeline
  BY DEF TypeOK
<1>2. CASE Refused \/ UNCHANGED server
  BY <1>2 DEF Refused, StatusKept
<1>3. CASE (AddFinalizer \/ RemoveFinalizer) /\ ~ Refused
  <2>1. /\ Accepted /\ pc \in {"addFinalizer", "deleteJobs"}
        /\ server'.steps = local.steps /\ server'.phase = local.phase
    BY <1>1, <1>3 DEF AddFinalizer, RemoveFinalizer, Write, Pipeline
  <2> QED
    BY <2>1 DEF StatusKept, AsStored, CopyInv, CopyAgrees, UpToDate, Accepted
<1>4. CASE \/ InitializePhase \/ InitializeStepStatuses \/ UpdateStepStatuses \/ UpdatePipelinePhase
           \/ SkipStep \/ MarkRunning
  <2>1. pc \in Starting /\ (Accepted \/ Refused \/ UNCHANGED server)
    BY <1>4 DEF InitializePhase, InitializeStepStatuses, UpdateStepStatuses, UpdatePipelinePhase,
                SkipStep, MarkRunning, Starting, PassStep
  <2> QED
    BY <1>2, <2>1, StartingIsOpen
<1>5. CASE TouchPipeline \/ EditSpec \/ DeletePipeline
  BY <1>1, <1>5 DEF TouchPipeline, EditSpec, DeletePipeline, StatusKept, Pipeline
<1>6. CASE \/ Reconcile \/ CreateJobForStep \/ FinishPass \/ Panic \/ DeleteJob \/ SyncPipeline \/ Interrupt
           \/ UNCHANGED vars
           \/ \E n \in StepName : \/ SyncJob(n) \/ JobControllerStep(n)
                                  \/ SuspendJob(n) \/ ResumeJob(n) \/ RemoveJob(n)
  <2>1. UNCHANGED server
    BY <1>6 DEF Reconcile, CreateJobForStep, FinishPass, Panic, DeleteJob, SyncPipeline, Interrupt, vars, SyncJob,
                JobControllerStep, SuspendJob, ResumeJob, RemoveJob
  <2> QED
    BY <1>2, <2>1
<1> QED
  BY <1>2, <1>3, <1>4, <1>5, <1>6 DEF Next, ReconcilerStep, Environment

\* A pipeline becomes terminal by the last write of a pass.
LEMMA TerminalBegins ==
  ASSUME TypeOK, CopyInv, [Next]_vars, server.phase \notin TerminalPhase, server'.phase \in TerminalPhase
  PROVE  /\ pc = "updatePhase" /\ Accepted /\ UNCHANGED caches /\ pc' = "idle"
         /\ server'.steps = local.steps
         /\ FitsSpec(server'.phase, local.spec, local.steps)
<1> USE DEF objects, caches, pass
<1>1. local \in Pipeline /\ server \in Pipeline
  BY DEF TypeOK
<1>2. server' # server
  OBVIOUS
<1>3. CASE UpdatePipelinePhase
  <2> DEFINE p == WithPhase(local)
             q == [p EXCEPT !.rv = server.rv + 1]
  <2>1. pc = "updatePhase" /\ local.phase \notin TerminalPhase
    BY <1>3 DEF UpdatePipelinePhase, CopyInv, PassOrder, StepFits, Starting, PassStep
  <2>2. /\ p \in Pipeline /\ PhaseFits(p)
        /\ p.steps = local.steps /\ p.spec = local.spec
    BY <1>1, <2>1, WithPhaseType, NewPhaseFits DEF WithPhase, UpdateConditions, Pipeline
  <2>3. ~ Refused
    BY <1>2 DEF Refused
  <2>4. /\ Accepted /\ server' = q /\ UNCHANGED <<cache, jobCache>>
        /\ p.phase \in TerminalPhase => pc' = "idle"
    BY <1>2, <1>3, <2>3, Zenon DEF UpdatePipelinePhase, PhaseEndsPass, EndPass
  <2>5. q.phase = p.phase /\ q.steps = p.steps /\ q.spec = p.spec
    BY <2>2 DEF Pipeline
  <2>6. FitsSpec(p.phase, p.spec, p.steps)
    BY <2>2 DEF FitsSpec, PhaseFits, AnyStep, HasPendingFailureHandlers, StatusPhase, StatusIndex
  <2> HIDE DEF p, q
  <2> QED
    BY <2>1, <2>2, <2>4, <2>5, <2>6
<1>4. CASE ReconcilerStep /\ ~ UpdatePipelinePhase
  <2>1. ~ Refused
    BY <1>2 DEF Refused
  <2>2. /\ Accepted /\ pc # "idle"
        /\ server'.phase = local.phase \/ server'.phase = "Pending"
    BY <1>1, <1>2, <1>4, <2>1
       DEF ReconcilerStep, Reconcile, AddFinalizer, InitializePhase, InitializeStepStatuses,
           UpdateStepStatuses, SkipStep, CreateJobForStep, MarkRunning, FinishPass, Panic, DeleteJob,
           RemoveFinalizer, Write, Pipeline
  <2>3. local.phase = server.phase
    BY <2>2 DEF CopyInv, CopyAgrees, UpToDate, Accepted
  <2> QED
    BY <2>2, <2>3 DEF TerminalPhase
<1>5. CASE Environment \/ UNCHANGED vars
  BY <1>1, <1>5 DEF Environment, SyncPipeline, TouchPipeline, EditSpec, DeletePipeline, Interrupt, SyncJob,
     JobControllerStep, SuspendJob, ResumeJob, RemoveJob, Pipeline, vars
<1> QED
  BY <1>3, <1>4, <1>5 DEF Next

----------------------------------------------------------------------------
\* The object, its copy in the cache and that of the pass have one spec.
OneSpec == cache.spec = server.spec /\ (pc # "idle" => local.spec = server.spec)

\* The cache begins with the object, and no pass is under way.
LEMMA InitOneSpec == Init => OneSpec
<1> SUFFICES ASSUME Init PROVE OneSpec
  OBVIOUS
<1>1. PICK spec \in Specs : server = NewPipeline(spec)
  BY DEF Init
<1> QED
  BY <1>1 DEF Init, OneSpec, NewPipeline

\* Nothing but an edit changes the spec.
LEMMA SpecKept ==
  ASSUME NoEdits, TypeOK, OneSpec, [Next]_vars
  PROVE  server'.spec = server.spec /\ OneSpec'
<1> USE DEF objects, caches, pass, OneSpec
<1>1. server \in Pipeline /\ local \in Pipeline
  BY DEF TypeOK
<1>2. CASE Reconcile
  BY <1>2 DEF Reconcile
<1>3. CASE \/ AddFinalizer \/ InitializePhase \/ InitializeStepStatuses \/ UpdateStepStatuses
           \/ SkipStep \/ CreateJobForStep \/ MarkRunning
           \/ FinishPass \/ Panic \/ DeleteJob \/ RemoveFinalizer
  <2>1. /\ cache' = cache /\ pc # "idle"
        /\ server' = server \/ server'.spec = local.spec
        /\ pc' = "idle" \/ local'.spec = local.spec
    BY <1>1, <1>3
       DEF AddFinalizer, InitializePhase, InitializeStepStatuses, UpdateStepStatuses, SkipStep,
           CreateJobForStep, MarkRunning, FinishPass, Panic, DeleteJob, RemoveFinalizer, Refused,
           Write, EndPass, Pipeline
  <2> QED
    BY <2>1
<1>4. CASE UpdatePipelinePhase
  <2> DEFINE p == WithPhase(local)
  <2>1. p \in Pipeline /\ p.spec = local.spec /\ pc # "idle"
    BY <1>1, <1>4, WithPhaseType DEF UpdatePipelinePhase, WithPhase, UpdateConditions, Pipeline
  <2> DEFINE q == [p EXCEPT !.rv = server.rv + 1]
  <2>2. /\ cache' = cache
        /\ \/ server' = server /\ (pc' = "idle" \/ local' = p)
           \/ server' = q /\ (pc' = "idle" \/ local' = q)
    BY <1>4, Zenon DEF UpdatePipelinePhase, Refused, EndPass
  <2>3. q.spec = local.spec
    BY <2>1 DEF Pipeline
  <2> HIDE DEF p, q
  <2> QED
    BY <2>1, <2>2, <2>3
<1>5. CASE EditSpec
  <2>1. faults["spec"] < MaxFaults[server.spec]["spec"]
    BY <1>5 DEF EditSpec, Spend
  <2>2. MaxFaults[server.spec]["spec"] = 0
    BY <1>1 DEF NoEdits, Pipeline
  <2>3. faults["spec"] \in Nat
    BY DEF TypeOK, FaultKind
  <2> QED
    BY <2>1, <2>2, <2>3
<1>6. CASE TouchPipeline \/ DeletePipeline
  <2>1. server'.spec = server.spec /\ UNCHANGED <<caches, pass>>
    BY <1>1, <1>6 DEF TouchPipeline, DeletePipeline, Pipeline
  <2> QED
    BY <2>1
<1>7. CASE \/ Interrupt \/ SyncPipeline \/ UNCHANGED vars
           \/ \E n \in StepName : \/ SyncJob(n) \/ JobControllerStep(n)
                                  \/ SuspendJob(n) \/ ResumeJob(n) \/ RemoveJob(n)
  BY <1>7 DEF Interrupt, EndPass, SyncPipeline, vars, SyncJob, JobControllerStep, SuspendJob, ResumeJob,
              RemoveJob
<1> QED
  BY <1>2, <1>3, <1>4, <1>5, <1>6, <1>7 DEF Next, ReconcilerStep, Environment

----------------------------------------------------------------------------
\* PhaseFits reads the phase, the spec and the steps of a pipeline.
LEMMA RestrictedFits ==
  ASSUME NEW p, FitsSpec(p.phase, p.spec, p.steps)
  PROVE  PhaseFits(p)
<1> DEFINE q == [phase |-> p.phase, spec |-> p.spec, steps |-> p.steps]
<1>1. PhaseFits(q)
  BY DEF FitsSpec
<1>2. q.phase = p.phase /\ q.spec = p.spec /\ q.steps = p.steps
  OBVIOUS
<1> HIDE DEF q
<1> QED
  BY <1>1, <1>2 DEF PhaseFits, AnyStep, HasPendingFailureHandlers, StatusPhase, StatusIndex

\* A phase that has just been computed, or computed before and kept, fits.
LEMMA NextPhaseFits ==
  ASSUME NoEdits, TypeOK, CopyInv, OneSpec, PhaseFits(server), [Next]_vars
  PROVE  PhaseFits(server')
<1>1. server'.spec = server.spec
  BY SpecKept
<1>2. CASE server'.phase \notin TerminalPhase
  BY <1>2 DEF PhaseFits, TerminalPhase
<1>3. CASE server.phase \in TerminalPhase
  BY <1>1, <1>3, TerminalKept
     DEF StatusKept, PhaseFits, AnyStep, HasPendingFailureHandlers, StatusPhase, StatusIndex
<1>4. CASE server.phase \notin TerminalPhase /\ server'.phase \in TerminalPhase
  <2>1. /\ pc = "updatePhase" /\ server'.steps = local.steps
        /\ FitsSpec(server'.phase, local.spec, local.steps)
    BY <1>4, TerminalBegins
  <2>2. local.spec = server'.spec
    BY <1>1, <2>1 DEF OneSpec
  <2>3. FitsSpec(server'.phase, server'.spec, server'.steps)
    BY <2>1, <2>2
  <2> QED
    BY <2>3, RestrictedFits
<1> QED
  BY <1>2, <1>3, <1>4

\* Unless its spec is edited, a pipeline is Succeeded or Failed only if its
\* steps are, whatever jobs vanish and whatever passes are cut short
\* (updatePipelinePhase).
THEOREM PhasesAreSound == ASSUME NoEdits PROVE Spec => []PhaseSound
<1>1. Init => PhaseFits(server)
  <2> SUFFICES ASSUME Init PROVE PhaseFits(server)
    OBVIOUS
  <2>1. PICK spec \in Specs : server = NewPipeline(spec)
    BY DEF Init
  <2>2. server.phase = ""
    BY <2>1 DEF NewPipeline
  <2> QED
    BY <2>2 DEF PhaseFits
<1>2. TypeOK /\ CopyInv /\ OneSpec /\ PhaseFits(server) /\ [Next]_vars => OneSpec' /\ PhaseFits(server)'
  BY SpecKept, NextPhaseFits
<1>3. PhaseFits(server) => PhaseSound
  BY DEF PhaseFits, PhaseSound
<1> QED
  BY <1>1, <1>2, <1>3, InitType, NextType, InitDeletion, NextDeletion, InitCopy, NextCopy, InitOneSpec, PTL
     DEF Spec

----------------------------------------------------------------------------
(* The Ready condition and the completion time, under any edits.  A pass   *)
(* recomputes them in memory and may write them later with something else; *)
(* what it holds therefore has to agree as well, and so has the cache.     *)

ReadyFits(p) ==
  /\ p.ready.reason \in {"", p.phase}
  /\ p.phase \in TerminalPhase => p.ready.reason = p.phase
  /\ p.completed <=> p.phase \in TerminalPhase

\* No pass goes on with a pipeline that is over, or begins one twice.
StepSuits(step, p) ==
  /\ step \in Starting => p.phase \notin TerminalPhase
  /\ step = "initializePhase" => p.phase = ""

ReadyInv ==
  /\ ReadyFits(server) /\ ReadyFits(cache) /\ ReadyFits(local)
  /\ StepSuits(pc, local)

SameReady(q, p) == q.phase = p.phase /\ q.ready = p.ready /\ q.completed = p.completed

\* The Ready condition, the phase and the completion time are all ReadyFits reads.
LEMMA SameReadyFits == ASSUME NEW p, NEW q, ReadyFits(p), SameReady(q, p) PROVE ReadyFits(q)
BY DEF ReadyFits, SameReady

\* A pipeline that has just been created has no condition.
LEMMA NewPipelineFits == ASSUME NEW spec PROVE ReadyFits(NewPipeline(spec))
BY DEF NewPipeline, NoCondition, ReadyFits, TerminalPhase

\* updateConditions: the condition fits the phase it was computed with.
LEMMA WithPhaseFits ==
  ASSUME NEW p \in Pipeline, ReadyFits(p), p.phase \notin TerminalPhase
  PROVE  ReadyFits(WithPhase(p))
<1> DEFINE new == NextPipelinePhase(p)
           completed == p.completed \/ new \in TerminalPhase
           q == [p EXCEPT !.phase = new, !.completed = completed]
<1>1. completed <=> new \in TerminalPhase
  BY DEF ReadyFits
<1> HIDE DEF new, completed
<1>2. q.phase = new /\ q.completed = completed
  BY DEF Pipeline
<1>3. /\ UpdateConditions(q).phase = new /\ UpdateConditions(q).completed = completed
      /\ UpdateConditions(q).ready.reason = new
  BY <1>2 DEF UpdateConditions, Pipeline
<1>4. WithPhase(p) = UpdateConditions(q)
  BY Zenon DEF WithPhase, new, completed
<1> HIDE DEF q
<1> QED
  BY <1>1, <1>3, <1>4 DEF ReadyFits

\* A write that leaves the three fields as the pass read them.
ReadyKept ==
  /\ SameReady(server', local) /\ cache' = cache
  /\ \/ EndPass
     \/ local' = server' /\ StepSuits(pc', local)

\* The server's object keeps the three fields, and the pass ends or goes on.
PassMoves ==
  /\ SameReady(server', server) /\ cache' \in {cache, server}
  /\ \/ EndPass
     \/ SameReady(local', local) /\ StepSuits(pc', local)

\* The copy of no pass fits.
LEMMA BlankFits == ReadyFits(Blank)
BY NewPipelineFits DEF Blank

\* A write that leaves phase, condition and completion time alone keeps ReadyInv.
LEMMA ReadyKeptKeeps == ASSUME ReadyInv, ReadyKept PROVE ReadyInv'
<1>1. ReadyFits(server') /\ ReadyFits(cache)
  BY SameReadyFits DEF ReadyInv, ReadyKept
<1>2. ReadyFits(local')
  BY <1>1, BlankFits DEF ReadyKept, EndPass
<1>3. StepSuits(pc', local')
  BY DEF ReadyKept, SameReady, StepSuits, EndPass, Starting
<1> QED
  BY <1>1, <1>2, <1>3 DEF ReadyInv, ReadyKept, ReadyFits

\* So does a step that moves the pass on, or ends it.
LEMMA PassMovesKeeps == ASSUME ReadyInv, PassMoves PROVE ReadyInv'
<1>1. ReadyFits(server') /\ ReadyFits(cache')
  BY SameReadyFits DEF ReadyInv, PassMoves
<1>2. ReadyFits(local')
  BY BlankFits, SameReadyFits DEF ReadyInv, PassMoves, EndPass
<1>3. StepSuits(pc', local')
  BY DEF PassMoves, SameReady, StepSuits, EndPass, Starting
<1> QED
  BY <1>1, <1>2, <1>3 DEF ReadyInv, ReadyFits

\* A write that conflicts ends the pass.
LEMMA RefusedMoves == ASSUME Refused PROVE PassMoves
BY DEF Refused, PassMoves, SameReady, objects, caches

\* updatePipelinePhase recomputes the condition, and writes it only with the phase.
LEMMA PhaseUpdateReady == ASSUME TypeOK, ReadyInv, UpdatePipelinePhase PROVE ReadyInv'
<1> DEFINE p == WithPhase(local)
<1> USE DEF Starting, PassStep, caches, objects
<1>1. local \in Pipeline /\ pc = "updatePhase"
  BY DEF TypeOK, UpdatePipelinePhase
<1>2. ReadyFits(p) /\ p \in Pipeline
  BY <1>1, WithPhaseFits, WithPhaseType DEF ReadyInv, StepSuits
<1>3. CASE Refused
  BY <1>3, RefusedMoves, PassMovesKeeps
<1>4. CASE ~ Refused
  <2> DEFINE q == [p EXCEPT !.rv = server.rv + 1]
  <2>1. SameReady(q, p)
    BY <1>2 DEF SameReady, Pipeline
  <2>2. ReadyFits(q) /\ q.phase = p.phase
    BY <1>2, <2>1, SameReadyFits DEF SameReady
  <2>3. /\ server' \in {server, q} /\ cache' = cache
        /\ \/ local' = Blank /\ pc' = "idle"
           \/ local' \in {p, q} /\ p.phase \notin TerminalPhase /\ pc' = "startSteps"
    BY <1>4, Zenon DEF UpdatePipelinePhase, PhaseEndsPass, EndPass
  <2> HIDE DEF p, q
  <2> QED
    BY <1>2, <2>2, <2>3, BlankFits DEF ReadyInv, ReadyFits, StepSuits
<1> QED
  BY <1>3, <1>4

\* No condition was set at first.
LEMMA InitReady == Init => ReadyInv
<1> SUFFICES ASSUME Init PROVE ReadyInv
  OBVIOUS
<1>1. PICK spec \in Specs : server = NewPipeline(spec)
  BY DEF Init
<1>2. ReadyFits(server)
  BY <1>1, NewPipelineFits
<1>3. SameReady(cache, server)
  BY <1>1 DEF Init, NewPipeline, SameReady
<1> QED
  BY <1>2, <1>3, SameReadyFits, BlankFits DEF Init, ReadyInv, Starting, StepSuits

\* The step a pass begins with suits the phase of its copy.
LEMMA FirstStepSuits ==
  ASSUME NEW p PROVE StepSuits(AfterFinalizer(p), p) /\ StepSuits(FirstStep(p), p)
<1>1. StepSuits(AfterFinalizer(p), p)
  BY DEF StepSuits, AfterFinalizer, Starting, PassStep, TerminalPhase
<1>2. FirstStep(p) \in {"idle", "deleteJobs", "addFinalizer", AfterFinalizer(p)}
  BY DEF FirstStep
<1> QED
  BY <1>1, <1>2 DEF StepSuits, Starting

\* ReadyInv is inductive.
LEMMA NextReady == TypeOK /\ ReadyInv /\ [Next]_vars => ReadyInv'
<1> SUFFICES ASSUME TypeOK, ReadyInv, [Next]_vars PROVE ReadyInv'
  OBVIOUS
<1> USE DEF objects, caches, pass
<1>1. server \in Pipeline /\ local \in Pipeline
  BY DEF TypeOK
<1>2. CASE Refused
  BY <1>2, RefusedMoves, PassMovesKeeps
<1>3. CASE Reconcile
  <2>1. UNCHANGED <<server, caches>> /\ local' = cache /\ pc' = FirstStep(cache)
    BY <1>3 DEF Reconcile
  <2>2. StepSuits(pc', cache)
    BY <2>1, FirstStepSuits
  <2> QED
    BY <2>1, <2>2 DEF ReadyInv, ReadyFits
<1>4. CASE AddFinalizer /\ ~ Refused
  <2>1. SameReady(server', local) /\ local' = server' /\ pc' = AfterFinalizer(local) /\ cache' = cache
    BY <1>1, <1>4 DEF AddFinalizer, Write, SameReady, Pipeline
  <2>2. StepSuits(pc', local)
    BY <2>1, FirstStepSuits
  <2> QED
    BY <2>1, <2>2, ReadyKeptKeeps DEF ReadyKept
<1>5. CASE InitializePhase /\ ~ Refused
  <2>1. /\ server'.phase = "Pending" /\ server'.ready = local.ready
        /\ server'.completed = local.completed /\ cache' = cache /\ local' = Blank /\ pc' = "idle"
    BY <1>1, <1>5 DEF InitializePhase, EndPass, Pipeline
  <2>2. local.phase = ""
    BY <1>5 DEF InitializePhase, ReadyInv, StepSuits
  <2> QED
    BY <2>1, <2>2, BlankFits DEF ReadyInv, ReadyFits, StepSuits, Starting, TerminalPhase
<1>6. CASE InitializeStepStatuses /\ ~ Refused
  <2>1. /\ pc = "initializeSteps" /\ pc' = "updateSteps"
        /\ SameReady(server', local) /\ local' = server' /\ cache' = cache
    BY <1>1, <1>6 DEF InitializeStepStatuses, Write, SameReady, Pipeline
  <2> QED
    BY <2>1, ReadyKeptKeeps DEF ReadyKept, ReadyInv, StepSuits, Starting, PassStep
<1>7. CASE UpdateStepStatuses /\ ~ Refused
  <2>1. CASE RefreshStatuses(local.steps, jobCache) = local.steps
    <3>1. UNCHANGED <<objects, caches, local>> /\ pc = "updateSteps" /\ pc' = "updatePhase"
      BY <1>7, <2>1 DEF UpdateStepStatuses
    <3> QED
      BY <3>1, PassMovesKeeps DEF PassMoves, SameReady, ReadyInv, StepSuits, Starting, PassStep
  <2>2. CASE RefreshStatuses(local.steps, jobCache) # local.steps
    <3>1. /\ pc = "updateSteps" /\ pc' = "updatePhase"
          /\ SameReady(server', local) /\ local' = server' /\ cache' = cache
      BY <1>1, <1>7, <2>2 DEF UpdateStepStatuses, Write, SameReady, Pipeline
    <3> QED
      BY <3>1, ReadyKeptKeeps DEF ReadyKept, ReadyInv, StepSuits, Starting, PassStep
  <2> QED
    BY <2>1, <2>2
<1>8. CASE UpdatePipelinePhase
  BY <1>8, PhaseUpdateReady
<1>9. CASE (SkipStep \/ MarkRunning) /\ ~ Refused
  <2>1. /\ pc \in Starting /\ pc' = "startSteps"
        /\ SameReady(server', local) /\ local' = server' /\ cache' = cache
    BY <1>1, <1>9 DEF SkipStep, MarkRunning, Write, SameReady, Pipeline, Starting, PassStep
  <2> QED
    BY <2>1, ReadyKeptKeeps DEF ReadyKept, ReadyInv, StepSuits, Starting, PassStep
<1>10. CASE CreateJobForStep
  <2>1. /\ UNCHANGED <<server, caches>> /\ pc = "startSteps"
        /\ \/ SameReady(local', local) /\ pc' = "markRunning"
           \/ EndPass
    BY <1>1, <1>10 DEF CreateJobForStep, SameReady, Pipeline
  <2> QED
    BY <2>1, PassMovesKeeps DEF PassMoves, SameReady, ReadyInv, StepSuits, Starting, PassStep
<1>11. CASE FinishPass \/ Panic
  BY <1>11, PassMovesKeeps DEF FinishPass, Panic, PassMoves, SameReady
<1>12. CASE DeleteJob
  BY <1>12, PassMovesKeeps DEF DeleteJob, PassMoves, SameReady, StepSuits, Starting
<1>13. CASE RemoveFinalizer /\ ~ Refused
  <2>1. SameReady(server', local) /\ EndPass /\ cache' = cache
    BY <1>1, <1>13 DEF RemoveFinalizer, SameReady, Pipeline
  <2> QED
    BY <2>1, ReadyKeptKeeps DEF ReadyKept
<1>14. CASE TouchPipeline \/ EditSpec \/ DeletePipeline
  <2>1. SameReady(server', server) /\ UNCHANGED <<caches, pass>>
    BY <1>1, <1>14 DEF TouchPipeline, EditSpec, DeletePipeline, SameReady, Pipeline
  <2> QED
    BY <2>1, PassMovesKeeps DEF PassMoves, SameReady, ReadyInv
<1>15. CASE Interrupt \/ SyncPipeline
  BY <1>15, PassMovesKeeps DEF Interrupt, SyncPipeline, PassMoves, SameReady, ReadyInv
<1>16. ASSUME NEW n \in StepName,
              \/ SyncJob(n) \/ JobControllerStep(n) \/ SuspendJob(n) \/ ResumeJob(n) \/ RemoveJob(n)
       PROVE  ReadyInv'
  <2>1. UNCHANGED <<server, cache, pass>>
    BY <1>16 DEF SyncJob, JobControllerStep, SuspendJob, ResumeJob, RemoveJob
  <2> QED
    BY <2>1, PassMovesKeeps DEF PassMoves, SameReady, ReadyInv
<1>17. CASE UNCHANGED vars
  BY <1>17, PassMovesKeeps DEF vars, PassMoves, SameReady, ReadyInv
<1> QED
  BY <1>2, <1>3, <1>4, <1>5, <1>6, <1>7, <1>8, <1>9, <1>10, <1>11, <1>12, <1>13, <1>14, <1>15,
     <1>16, <1>17 DEF Next, ReconcilerStep, Environment

\* The Ready condition and the completion time agree with the phase, at
\* every moment and whatever is edited, removed or cut short, although the
\* condition is recomputed more often than it is written
\* (updatePipelinePhase).
THEOREM ReadyAlwaysAgrees == Spec => []ReadyAgrees
<1>1. ReadyInv => ReadyAgrees
  BY DEF ReadyInv, ReadyFits, ReadyAgrees
<1> QED
  BY <1>1, InitReady, NextReady, InitType, NextType, PTL DEF Spec

----------------------------------------------------------------------------
(* The decisions of PipelineLifecycle are those of the controller: its     *)
(* operators are the same definitions, read through the instance.          *)

\* The status of a step, as the abstract scheduler finds it.
LEMMA SameStatus ==
  ASSUME NEW p, NEW name
  PROVE  /\ Lifecycle!StatusIndex(p, name) = StatusIndex(p, name)
         /\ Lifecycle!StatusPhase(p, name) = StatusPhase(p, name)
<1>1. Lifecycle!StatusIndex(p, name) = StatusIndex(p, name)
  BY DEF Lifecycle!StatusIndex, StatusIndex, Lifecycle!Least, Least
<1> QED
  BY <1>1 DEF Lifecycle!StatusPhase, StatusPhase

\* The verdict on a step.
LEMMA SameVerdict ==
  ASSUME NEW p, NEW step
  PROVE  Lifecycle!AreDependenciesSatisfied(p, step) = AreDependenciesSatisfied(p, step)
<1>1. \A name : Lifecycle!StatusPhase(p, name) = StatusPhase(p, name)
  BY SameStatus
<1>2. Lifecycle!StepIndex(p, step.name) = StepIndex(p, step.name)
  BY DEF Lifecycle!StepIndex, StepIndex, Lifecycle!Least, Least
<1>3. Lifecycle!CheckSequentialExecution(p, step) = CheckSequentialExecution(p, step)
  <2> DEFINE names == {p.spec[i].name : i \in 1 .. StepIndex(p, step.name) - 1}
             Phases == {StatusPhase(p, name) : name \in names}
             Decide(phases) ==
               IF "nil" \in phases THEN "panic"
               ELSE IF phases \cap {"Pending", "Running"} # {} THEN "wait"
               ELSE IF phases \cap {"Failed", "Skipped"} # {} THEN "skip" ELSE "ready"
  <2>1. {Lifecycle!StatusPhase(p, name) : name \in names} = Phases
    BY <1>1
  <2>2. CheckSequentialExecution(p, step) = Decide(Phases)
    BY Zenon DEF CheckSequentialExecution
  <2>3. Lifecycle!CheckSequentialExecution(p, step) = Decide({Lifecycle!StatusPhase(p, name) : name \in names})
    BY <1>2, Zenon DEF Lifecycle!CheckSequentialExecution
  <2> HIDE DEF Phases, Decide
  <2> QED
    BY <2>1, <2>2, <2>3
<1>4. Lifecycle!CheckConditionalExecution(p, step) = CheckConditionalExecution(p, step)
  <2>1. Lifecycle!AllComplete(p, step.runIf.steps) = AllComplete(p, step.runIf.steps)
    BY <1>1 DEF Lifecycle!AllComplete, AllComplete
  <2>2. \A all, fail : Lifecycle!ConditionMet(p, step.runIf.steps, all, fail) = ConditionMet(p, step.runIf.steps, all, fail)
    BY <1>1 DEF Lifecycle!ConditionMet, ConditionMet
  <2>3. /\ Lifecycle!RequiresAll(step.runIf) = RequiresAll(step.runIf)
        /\ Lifecycle!IsCheckingFailure(step.runIf) = IsCheckingFailure(step.runIf)
    BY DEF Lifecycle!RequiresAll, RequiresAll, Lifecycle!IsCheckingFailure, IsCheckingFailure,
           Lifecycle!GetOperator, GetOperator, Lifecycle!GetCondition, GetCondition
  <2> QED
    BY <2>1, <2>2, <2>3 DEF Lifecycle!CheckConditionalExecution, CheckConditionalExecution
<1> QED
  BY <1>3, <1>4 DEF Lifecycle!AreDependenciesSatisfied, AreDependenciesSatisfied,
     Lifecycle!HasConditionalExecution, HasConditionalExecution

\* The phase computed.
LEMMA SamePhase ==
  ASSUME NEW p
  PROVE  Lifecycle!NextPipelinePhase(p) = NextPipelinePhase(p)
<1>1. \A phase : Lifecycle!AnyStep(p, phase) = AnyStep(p, phase)
  BY DEF Lifecycle!AnyStep, AnyStep
<1>2. Lifecycle!AllSucceeded(p) = AllSucceeded(p)
  BY DEF Lifecycle!AllSucceeded, AllSucceeded
<1>3. Lifecycle!HandlersPending(p) = HandlersPending(p)
  <2>1. \A name : Lifecycle!StatusPhase(p, name) = StatusPhase(p, name)
    BY SameStatus
  <2>2. Lifecycle!HasPendingFailureHandlers(p) = HasPendingFailureHandlers(p)
    BY <2>1 DEF Lifecycle!HasPendingFailureHandlers, HasPendingFailureHandlers,
                Lifecycle!HasConditionalExecution, HasConditionalExecution,
                Lifecycle!IsCheckingFailure, IsCheckingFailure, Lifecycle!GetCondition, GetCondition
  <2> QED
    BY <1>1, <2>2 DEF Lifecycle!HandlersPending, HandlersPending
<1> QED
  BY <1>1, <1>2, <1>3 DEF Lifecycle!NextPipelinePhase, NextPipelinePhase

\* A refreshed status is one the abstract step may become.
LEMMA RefreshSucceeds ==
  ASSUME NEW status \in StepStatus, NEW jobOf \in [StepName -> Job], jobOf = jobCache,
         JobRecorded(status), Backed(status)
  PROVE  RefreshStatus(status, jobOf[status.name]) \in Lifecycle!Successors(status)
<1> DEFINE job == jobOf[status.name]
           new == RefreshStatus(status, job)
           next == DetermineStepPhase(job, status.phase)
<1>0. job \in Job
  BY DEF StepStatus
<1>1. CASE ~ (status.job /\ job.exists)
  <2>1. new = status
    BY <1>1 DEF RefreshStatus
  <2>2. status = [status EXCEPT !.phase = status.phase]
    BY DEF StepStatus
  <2> QED
    BY <2>1, <2>2 DEF Lifecycle!Successors
<1>2. CASE status.job /\ job.exists
  <2>1. new = [status EXCEPT !.phase = next]
    BY <1>2 DEF RefreshStatus
  <2>2. next \in {status.phase, "Running", "Suspended", "Succeeded", "Failed"}
    BY <1>0 DEF DetermineStepPhase, Job, JobCondition
  <2>3. CASE status.phase \notin TerminalStepPhase
    BY <1>2, <2>1, <2>2, <2>3, Zenon DEF Lifecycle!Successors, Lifecycle!TerminalStepPhase, TerminalStepPhase
  <2>4. CASE status.phase \in TerminalStepPhase
    <3>1. Ended(status)
      BY <1>2, <2>4 DEF TerminalStepPhase, Ended, JobRecorded
    <3>2. job.cond = Condition(status.phase)
      BY <1>2, <3>1 DEF Backed
    <3>3. next = status.phase
      BY <3>1, <3>2 DEF DetermineStepPhase, Condition, Ended
    <3>4. new = status
      BY <2>1, <3>3 DEF StepStatus
    <3> QED
      BY <2>4, <3>4 DEF Lifecycle!Successors, Lifecycle!TerminalStepPhase, TerminalStepPhase
  <2> QED
    BY <2>3, <2>4
<1> QED
  BY <1>1, <1>2

----------------------------------------------------------------------------
(* Every write of the status is a step of the abstract scheduler on the    *)
(* pipeline as it is stored, as long as no job was removed.                *)

LifecycleMove ==
  \/ Lifecycle!Begin \/ Lifecycle!Initialize \/ Lifecycle!Progress \/ Lifecycle!Conclude
  \/ \E i \in DOMAIN server.spec : Lifecycle!Start(i) \/ Lifecycle!Skip(i)

\* What a pass decides on a copy that is up to date is right for the object.
LEMMA ViewAlike ==
  ASSUME TypeOK, CopyInv, Accepted, pc # "idle"
  PROVE  /\ Alike(local, Lifecycle!view)
         /\ \A step : Lifecycle!AreDependenciesSatisfied(Lifecycle!view, step) =
                      AreDependenciesSatisfied(local, step)
         /\ Lifecycle!NextPipelinePhase(Lifecycle!view) = NextPipelinePhase(local)
         /\ \A name : Lifecycle!StatusIndex(Lifecycle!view, name) = StatusIndex(local, name)
<1>1. local.steps \in Seq(StepStatus)
  BY DEF TypeOK, Pipeline
<1>2. AsStored = server.steps /\ local.spec = server.spec /\ local.phase = server.phase
  BY DEF CopyInv, CopyAgrees, UpToDate, Accepted
<1>3. /\ DOMAIN AsStored = DOMAIN local.steps
      /\ \A i \in DOMAIN local.steps : AsStored[i].name = local.steps[i].name /\ AsStored[i].phase = local.steps[i].phase
  <2>1. CASE pc # "markRunning"
    BY <2>1 DEF AsStored
  <2>2. CASE pc = "markRunning"
    <3> DEFINE k == Recording
    <3>1. AsStored = [local.steps EXCEPT ![k] = [local.steps[k] EXCEPT !.job = FALSE]]
      BY <2>2 DEF AsStored
    <3>2. k \in DOMAIN local.steps /\ local.steps[k] \in StepStatus
      BY <1>1, <2>2 DEF CopyInv, PassOrder, JustCreated
    <3>3. AsStored[k] = [local.steps[k] EXCEPT !.job = FALSE]
      BY <1>1, <3>1, <3>2
    <3>4. AsStored[k].name = local.steps[k].name /\ AsStored[k].phase = local.steps[k].phase
      BY <3>2, <3>3 DEF StepStatus
    <3>5. \A i \in DOMAIN local.steps : i # k => AsStored[i] = local.steps[i]
      BY <1>1, <3>1
    <3>6. DOMAIN AsStored = DOMAIN local.steps
      BY <1>1, <3>1
    <3> QED
      BY <3>4, <3>5, <3>6
  <2> QED
    BY <2>1, <2>2
<1>4. Lifecycle!view.steps = server.steps /\ Lifecycle!view.spec = server.spec /\ Lifecycle!view.phase = server.phase
  BY DEF Lifecycle!view
<1>5. Alike(local, Lifecycle!view)
  BY <1>2, <1>3, <1>4 DEF Alike
<1>6. \A step : Lifecycle!AreDependenciesSatisfied(Lifecycle!view, step) = AreDependenciesSatisfied(local, step)
  BY <1>1, <1>5, AlikeVerdict, SameVerdict
<1>7. Lifecycle!NextPipelinePhase(Lifecycle!view) = NextPipelinePhase(local)
  BY <1>1, <1>2, <1>4, <1>5, AlikePhase, SamePhase
<1>8. \A name : Lifecycle!StatusIndex(Lifecycle!view, name) = StatusIndex(local, name)
  BY <1>1, <1>5, AlikeStatus, SameStatus
<1> QED
  BY <1>5, <1>6, <1>7, <1>8

\* Every step of the system that changes the status is one of the abstract scheduler.
LEMMA ServerMoves ==
  ASSUME TypeOK, CopyInv, OutcomeInv, Vanished = 0, [Next]_vars
  PROVE  StatusKept \/ (LifecycleMove /\ server'.spec = server.spec)
<1> SUFFICES ASSUME ~ StatusKept PROVE LifecycleMove /\ server'.spec = server.spec
  OBVIOUS
<1> USE DEF objects, caches, pass
<1>1. local \in Pipeline /\ server \in Pipeline /\ jobCache \in [StepName -> Job]
      /\ local.steps \in Seq(StepStatus) /\ local.spec \in Seq(PipelineStep)
  BY SpecsAssumption DEF TypeOK, Pipeline
<1>2. ASSUME Accepted, pc # "idle"
      PROVE  AsStored = server.steps /\ local.spec = server.spec /\ local.phase = server.phase
  BY <1>2 DEF CopyInv, CopyAgrees, UpToDate, Accepted
<1>3. ASSUME Accepted, pc \in Starting
      PROVE  /\ Lifecycle!Active
             /\ pc = "initializePhase" <=> server.phase = ""
             /\ pc = "initializeSteps" => server.steps = <<>>
             /\ pc \notin {"initializePhase", "initializeSteps"} => server.steps # <<>>
  <2>1. AsStored = server.steps /\ local.phase = server.phase
    BY <1>2, <1>3 DEF Starting
  <2>2. local.steps = <<>> <=> AsStored = <<>>
    <3>1. DOMAIN AsStored = DOMAIN local.steps /\ (AsStored \in Seq(StepStatus))
      BY <1>1, <1>2, <1>3 DEF AsStored, Starting, Pipeline
    <3> QED
      BY <1>1, <3>1
  <2> QED
    BY <1>3, <2>1, <2>2
       DEF CopyInv, PassOrder, StepFits, Lifecycle!Active, Lifecycle!TerminalPhase, TerminalPhase, Starting
<1>4. CASE Refused \/ UNCHANGED server
  BY <1>4 DEF Refused, StatusKept
<1>5. CASE (AddFinalizer \/ RemoveFinalizer) /\ ~ Refused
  <2>1. Accepted /\ pc \in {"addFinalizer", "deleteJobs"} /\ server'.steps = local.steps /\ server'.phase = local.phase
    BY <1>1, <1>5 DEF AddFinalizer, RemoveFinalizer, Write, Pipeline
  <2> QED
    BY <1>2, <2>1 DEF StatusKept, AsStored
<1>6. CASE InitializePhase /\ ~ Refused
  <2>1. /\ Accepted /\ pc = "initializePhase" /\ server'.phase = "Pending"
        /\ server'.steps = local.steps /\ server'.spec = local.spec
    BY <1>1, <1>6 DEF InitializePhase, Pipeline
  <2>2. Lifecycle!Begin
    BY <1>2, <1>3, <2>1 DEF Lifecycle!Begin, AsStored, Starting, PassStep
  <2> QED
    BY <1>2, <2>1, <2>2 DEF LifecycleMove
<1>7. CASE InitializeStepStatuses /\ ~ Refused
  <2>1. /\ Accepted /\ pc = "initializeSteps" /\ server'.phase = local.phase
        /\ server'.steps = InitialStatuses(local.spec) /\ server'.spec = local.spec
    BY <1>1, <1>7 DEF InitializeStepStatuses, Write, Pipeline
  <2>2. Lifecycle!Initialize
    BY <1>2, <1>3, <2>1
       DEF Lifecycle!Initialize, Lifecycle!InitialStatuses, InitialStatuses, Starting, PassStep
  <2> QED
    BY <1>2, <2>1, <2>2 DEF LifecycleMove
<1>8. CASE UpdateStepStatuses /\ ~ Refused
  <2> DEFINE steps == RefreshStatuses(local.steps, jobCache)
  <2>1. /\ pc = "updateSteps" /\ Accepted /\ server'.phase = local.phase
        /\ server'.steps = steps /\ server'.spec = local.spec
    BY <1>1, <1>8 DEF UpdateStepStatuses, Write, Pipeline, StatusKept
  <2>2. local.steps = server.steps
    BY <1>2, <2>1 DEF AsStored
  <2>3. /\ DOMAIN steps = DOMAIN server.steps
        /\ \A i \in DOMAIN server.steps : steps[i] \in Lifecycle!Successors(server.steps[i])
    <3>1. ASSUME NEW i \in DOMAIN local.steps
          PROVE  steps[i] \in Lifecycle!Successors(local.steps[i])
      <4>1. local.steps[i] \in StepStatus
        BY <1>1
      <4>2. JobRecorded(local.steps[i]) /\ Backed(local.steps[i])
        BY <2>1 DEF CopyInv, JobsRecorded, AsStored, OutcomeInv, StatusesBacked, AllBacked
      <4>3. steps[i] = RefreshStatus(local.steps[i], jobCache[local.steps[i].name])
        BY DEF RefreshStatuses
      <4> QED
        BY <1>1, <4>1, <4>2, <4>3, RefreshSucceeds
    <3> QED
      BY <2>2, <3>1 DEF RefreshStatuses
  <2>4. Lifecycle!Progress
    BY <1>2, <1>3, <2>1, <2>3 DEF Lifecycle!Progress, Starting, PassStep
  <2> QED
    BY <1>2, <2>1, <2>4 DEF LifecycleMove
<1>9. CASE UpdatePipelinePhase /\ ~ Refused
  <2> DEFINE p == WithPhase(local)
  <2>1. pc = "updatePhase" /\ Accepted /\ server' = [p EXCEPT !.rv = server.rv + 1]
    <3>1. server' # server
      BY DEF StatusKept
    <3> QED
      BY <1>9, <3>1, Zenon DEF UpdatePipelinePhase
  <2>2. p \in Pipeline /\ p.phase = NextPipelinePhase(local) /\ p.steps = local.steps /\ p.spec = local.spec
    BY <1>1, WithPhaseType DEF WithPhase, UpdateConditions, Pipeline
  <2> HIDE DEF p
  <2>3. server'.phase = p.phase /\ server'.steps = local.steps /\ server'.spec = local.spec
    BY <2>1, <2>2 DEF Pipeline
  <2>4. Lifecycle!Conclude
    BY <1>2, <1>3, <2>1, <2>2, <2>3, ViewAlike DEF Lifecycle!Conclude, AsStored, Starting, PassStep
  <2> QED
    BY <1>2, <2>1, <2>3, <2>4 DEF LifecycleMove
<1>10. CASE SkipStep /\ ~ Refused
  <2>1. PICK i \in Actionable :
          /\ pc = "startSteps" /\ Accepted /\ StepVerdict(i) = "skip"
          /\ server'.phase = local.phase /\ server'.spec = local.spec
          /\ server'.steps = [local.steps EXCEPT ![CurrentStatus(i)].phase = "Skipped"]
    BY <1>1, <1>10 DEF SkipStep, Write, Pipeline
  <2>2. /\ i \in DOMAIN local.spec /\ StatusPhase(local, local.spec[i].name) = "Pending"
        /\ AreDependenciesSatisfied(local, local.spec[i]) = "skip"
    BY <2>1 DEF StepVerdict, Actionable
  <2>3. CurrentStatus(i) \in DOMAIN local.steps /\ local.steps[CurrentStatus(i)].phase = "Pending"
    BY <1>1, <2>2, FoundPhase DEF CurrentStatus
  <2>4. local.steps = server.steps /\ local.spec = server.spec /\ local.phase = server.phase
    BY <1>2, <2>1 DEF AsStored
  <2>5. Lifecycle!StatusIndex(Lifecycle!view, server.spec[i].name) = CurrentStatus(i)
    BY <2>1, <2>4, ViewAlike DEF CurrentStatus
  <2>6. Lifecycle!Active
    BY <1>3, <2>1 DEF Starting, PassStep
  <2>7. Lifecycle!Skip(i)
    BY <2>1, <2>2, <2>3, <2>4, <2>5, <2>6, ViewAlike DEF Lifecycle!Skip, Lifecycle!Pending
  <2> QED
    BY <2>1, <2>2, <2>4, <2>7 DEF LifecycleMove
<1>11. CASE MarkRunning /\ ~ Refused
  <2> DEFINE k == Recording
  <2>1. /\ pc = "markRunning" /\ Accepted /\ server'.phase = local.phase /\ server'.spec = local.spec
        /\ server'.steps = [local.steps EXCEPT ![k].phase = "Running"]
    BY <1>1, <1>11 DEF MarkRunning, Write, Pipeline, Recording
  <2>2. JustCreated
    BY <2>1 DEF CopyInv, PassOrder
  <2>3. server.steps = [local.steps EXCEPT ![k].job = FALSE] /\ local.spec = server.spec /\ local.phase = server.phase
    BY <1>2, <2>1 DEF AsStored
  <2>4. Lifecycle!StatusIndex(Lifecycle!view, server.spec[cursor].name) = k
    BY <2>1, <2>3, ViewAlike DEF Recording, CurrentStatus
  <2>5. k \in DOMAIN local.steps /\ local.steps[k] \in StepStatus /\ local.steps[k].phase = "Pending"
        /\ local.steps[k].job
    BY <1>1, <2>2 DEF JustCreated
  <2>6. server.steps[k] = [local.steps[k] EXCEPT !.job = FALSE]
    BY <1>1, <2>3, <2>5
  <2>7. server.steps[k].phase = "Pending"
    BY <2>5, <2>6 DEF StepStatus
  <2>8. [server.steps[k] EXCEPT !.phase = "Running", !.job = TRUE] = [local.steps[k] EXCEPT !.phase = "Running"]
    BY <2>5, <2>6 DEF StepStatus
  <2>9. server'.steps = [server.steps EXCEPT ![k] = [server.steps[k] EXCEPT !.phase = "Running", !.job = TRUE]]
    BY <1>1, <2>1, <2>3, <2>5, <2>8
  <2>10. Lifecycle!Active
    BY <1>3, <2>1 DEF Starting, PassStep
  <2>11. AreDependenciesSatisfied(local, server.spec[cursor]) = "ready" /\ cursor \in DOMAIN server.spec
    BY <2>2, <2>3 DEF JustCreated
  <2>12. Lifecycle!Start(cursor)
    BY <2>1, <2>3, <2>4, <2>7, <2>9, <2>10, <2>11, ViewAlike DEF Lifecycle!Start, Lifecycle!Pending
  <2> QED
    BY <2>1, <2>3, <2>11, <2>12 DEF LifecycleMove
<1>12. CASE TouchPipeline \/ EditSpec \/ DeletePipeline
  BY <1>1, <1>12 DEF TouchPipeline, EditSpec, DeletePipeline, StatusKept, Pipeline
<1>13. CASE \/ Reconcile \/ CreateJobForStep \/ FinishPass \/ Panic \/ DeleteJob \/ SyncPipeline \/ Interrupt
            \/ UNCHANGED vars
            \/ \E n \in StepName : \/ SyncJob(n) \/ JobControllerStep(n)
                                   \/ SuspendJob(n) \/ ResumeJob(n) \/ RemoveJob(n)
  <2>1. UNCHANGED server
    BY <1>13 DEF Reconcile, CreateJobForStep, FinishPass, Panic, DeleteJob, SyncPipeline, Interrupt, vars, SyncJob,
                 JobControllerStep, SuspendJob, ResumeJob, RemoveJob
  <2> QED
    BY <1>4, <2>1
<1> QED
  BY <1>4, <1>5, <1>6, <1>7, <1>8, <1>9, <1>10, <1>11, <1>12, <1>13 DEF Next, ReconcilerStep, Environment

----------------------------------------------------------------------------
(* The lists of statuses.  Once there, a list keeps its length and its     *)
(* names, and a step that is over stays as it is.                          *)

Follows(steps, later) ==
  \/ steps = <<>>
  \/ /\ DOMAIN steps = DOMAIN later
     /\ \A i \in DOMAIN steps :
          /\ later[i].name = steps[i].name
          /\ steps[i].phase \in TerminalStepPhase => later[i].phase = steps[i].phase

\* A list of statuses follows itself.
LEMMA FollowsItself == ASSUME NEW steps PROVE Follows(steps, steps)
BY DEF Follows

\* What follows a list that follows another follows that one.
LEMMA FollowsAlong ==
  ASSUME NEW r \in Seq(StepStatus), NEW s \in Seq(StepStatus), NEW t \in Seq(StepStatus),
         Follows(r, s), Follows(s, t)
  PROVE  Follows(r, t)
<1>1. CASE r = <<>>
  BY <1>1 DEF Follows
<1>2. CASE r # <<>>
  <2>1. s # <<>>
    BY <1>2 DEF Follows
  <2> QED
    BY <1>2, <2>1 DEF Follows
<1> QED
  BY <1>1, <1>2

\* What is over in one is over in the same way in the other.
LEMMA FollowsPhase ==
  ASSUME NEW p, NEW q, p.steps \in Seq(StepStatus), q.steps \in Seq(StepStatus),
         Follows(p.steps, q.steps), NEW name
  PROVE  /\ StatusPhase(p, name) \in TerminalStepPhase => StatusPhase(q, name) = StatusPhase(p, name)
         /\ StatusPhase(p, name) # "nil" => StatusIndex(q, name) = StatusIndex(p, name)
<1> SUFFICES ASSUME StatusPhase(p, name) # "nil"
             PROVE  /\ StatusIndex(q, name) = StatusIndex(p, name)
                    /\ StatusPhase(p, name) \in TerminalStepPhase => StatusPhase(q, name) = StatusPhase(p, name)
  BY DEF TerminalStepPhase
<1>1. StatusIndex(p, name) \in DOMAIN p.steps /\ StatusIndex(p, name) # 0
      /\ p.steps[StatusIndex(p, name)].phase = StatusPhase(p, name)
  BY FoundPhase
<1>2. p.steps # <<>>
  BY <1>1
<1>3. {i \in DOMAIN p.steps : p.steps[i].name = name} = {i \in DOMAIN q.steps : q.steps[i].name = name}
  BY <1>2 DEF Follows
<1>4. StatusIndex(q, name) = StatusIndex(p, name)
  BY <1>3 DEF StatusIndex
<1> QED
  BY <1>1, <1>2, <1>4 DEF Follows, StatusPhase

\* A move of the abstract scheduler leads to a list that follows.
LEMMA MoveFollows ==
  ASSUME TypeOK, LifecycleMove
  PROVE  Follows(server.steps, server'.steps)
<1>1. server.steps \in Seq(StepStatus)
  BY DEF TypeOK, Pipeline
<1>2. CASE Lifecycle!Begin \/ Lifecycle!Conclude
  BY <1>2, FollowsItself DEF Lifecycle!Begin, Lifecycle!Conclude
<1>3. CASE Lifecycle!Initialize
  BY <1>3 DEF Lifecycle!Initialize, Follows
<1>4. CASE Lifecycle!Progress
  <2>1. ASSUME NEW i \in DOMAIN server.steps
        PROVE  /\ server'.steps[i].name = server.steps[i].name
               /\ server.steps[i].phase \in TerminalStepPhase => server'.steps[i].phase = server.steps[i].phase
    <3> DEFINE status == server.steps[i]
    <3>1. status \in StepStatus /\ server'.steps[i] \in Lifecycle!Successors(status)
      BY <1>1, <1>4 DEF Lifecycle!Progress
    <3>2. server'.steps[i] = status \/ (status.phase \notin TerminalStepPhase /\
             \E next \in {status.phase, "Running", "Suspended", "Succeeded", "Failed"} :
               server'.steps[i] = [status EXCEPT !.phase = next])
      BY <3>1 DEF Lifecycle!Successors, Lifecycle!TerminalStepPhase, TerminalStepPhase
    <3>3. \A next : [status EXCEPT !.phase = next].name = status.name
      BY <3>1 DEF StepStatus
    <3> QED
      BY <3>2, <3>3
  <2> QED
    BY <1>4, <2>1 DEF Lifecycle!Progress, Follows
<1>5. ASSUME NEW i \in DOMAIN server.spec, Lifecycle!Start(i) \/ Lifecycle!Skip(i)
      PROVE  Follows(server.steps, server'.steps)
  <2> DEFINE k == Lifecycle!StatusIndex(Lifecycle!view, server.spec[i].name)
  <2>1. server.steps[k].phase = "Pending"
    BY <1>5 DEF Lifecycle!Start, Lifecycle!Skip, Lifecycle!Pending
  <2>2. \/ server'.steps = [server.steps EXCEPT ![k] = [server.steps[k] EXCEPT !.phase = "Running", !.job = TRUE]]
        \/ server'.steps = [server.steps EXCEPT ![k] = [server.steps[k] EXCEPT !.phase = "Skipped"]]
    BY <1>5 DEF Lifecycle!Start, Lifecycle!Skip
  <2> HIDE DEF k
  <2>3. DOMAIN server'.steps = DOMAIN server.steps /\ \A j \in DOMAIN server.steps : j # k => server'.steps[j] = server.steps[j]
    BY <1>1, <2>2
  <2>4. ASSUME k \in DOMAIN server.steps PROVE server'.steps[k].name = server.steps[k].name
    <3>1. server.steps[k] \in StepStatus
      BY <1>1, <2>4
    <3>2. \/ server'.steps[k] = [server.steps[k] EXCEPT !.phase = "Running", !.job = TRUE]
          \/ server'.steps[k] = [server.steps[k] EXCEPT !.phase = "Skipped"]
      BY <1>1, <2>2, <2>4
    <3> QED
      BY <3>1, <3>2 DEF StepStatus
  <2> QED
    BY <2>1, <2>3, <2>4 DEF Follows, TerminalStepPhase
<1> QED
  BY <1>2, <1>3, <1>4, <1>5 DEF LifecycleMove

\* Every copy is an earlier state of the list the server holds, or is empty.
TrailInv == Vanished = 0 => Follows(cache.steps, server.steps) /\ Follows(local.steps, server.steps)

\* The statuses as stored only ever move on.
LEMMA StepsFollow ==
  ASSUME TypeOK, CopyInv, OutcomeInv, Vanished = 0, [Next]_vars
  PROVE  Follows(server.steps, server'.steps)
BY ServerMoves, MoveFollows, FollowsItself DEF StatusKept

\* What a step of a pass does to the copy the pass holds.
LEMMA LocalSteps ==
  ASSUME TypeOK, CopyInv, [Next]_vars
  PROVE  \/ local'.steps \in {<<>>, local.steps, server'.steps}
         \/ local' = cache
         \/ /\ pc = "startSteps" /\ server' = server
            /\ \E k \in DOMAIN local.steps :
                 /\ local.steps[k].phase = "Pending"
                 /\ local'.steps = [local.steps EXCEPT ![k] = [local.steps[k] EXCEPT !.job = TRUE]]
<1> USE DEF objects, caches, pass
<1>1. local \in Pipeline /\ local.steps \in Seq(StepStatus)
  BY DEF TypeOK, Pipeline
<1>2. CASE Reconcile
  BY <1>2 DEF Reconcile
<1>3. CASE \/ AddFinalizer \/ InitializePhase \/ InitializeStepStatuses \/ UpdateStepStatuses
           \/ SkipStep \/ MarkRunning \/ FinishPass \/ Panic \/ DeleteJob \/ RemoveFinalizer
  <2>1. local' \in {local, server', Blank}
    BY <1>3, Zenon DEF AddFinalizer, InitializePhase, InitializeStepStatuses, UpdateStepStatuses, SkipStep, MarkRunning,
                FinishPass, Panic, DeleteJob, RemoveFinalizer, Write, Refused, EndPass
  <2> QED
    BY <2>1, EmptyBlank
<1>4. CASE UpdatePipelinePhase
  <2> DEFINE p == WithPhase(local)
  <2>1. p.steps = local.steps
    BY <1>1 DEF WithPhase, UpdateConditions, Pipeline
  <2>2. local' \in {p, server', Blank}
    BY <1>4, Zenon DEF UpdatePipelinePhase, Refused, EndPass
  <2> HIDE DEF p
  <2> QED
    BY <2>1, <2>2, EmptyBlank
<1>5. CASE CreateJobForStep
  <2>1. CASE EndPass
    BY <2>1, EmptyBlank DEF EndPass
  <2>2. CASE ~ EndPass
    <3>1. PICK i \in Actionable :
            /\ pc = "startSteps" /\ server' = server /\ StepVerdict(i) = "ready"
            /\ local' = [local EXCEPT !.steps[CurrentStatus(i)].job = TRUE]
      BY <1>5, <2>2 DEF CreateJobForStep
    <3>2. StatusPhase(local, local.spec[i].name) = "Pending"
      BY <3>1 DEF StepVerdict
    <3>3. PICK k \in DOMAIN local.steps : k = CurrentStatus(i) /\ local.steps[k].phase = "Pending"
      BY <1>1, <3>2, FoundPhase DEF CurrentStatus
    <3>4. local'.steps = [local.steps EXCEPT ![k] = [local.steps[k] EXCEPT !.job = TRUE]]
      BY <1>1, <3>1, <3>3 DEF Pipeline
    <3> QED
      BY <3>1, <3>3, <3>4
  <2> QED
    BY <2>1, <2>2
<1>6. CASE Environment \/ UNCHANGED vars
  <2>1. local' \in {local, Blank}
    BY <1>6 DEF Environment, SyncPipeline, TouchPipeline, EditSpec, DeletePipeline, Interrupt, EndPass, SyncJob,
                JobControllerStep, SuspendJob, ResumeJob, RemoveJob, vars
  <2> QED
    BY <2>1, EmptyBlank
<1> QED
  BY <1>2, <1>3, <1>4, <1>5, <1>6 DEF Next, ReconcilerStep

\* How a step changes the informer's copy, and what was removed.
LEMMA CacheSteps ==
  ASSUME TypeOK, [Next]_vars
  PROVE  /\ cache' = cache \/ (cache' = server /\ server' = server)
         /\ Vanished' = 0 => Vanished = 0
<1> USE DEF objects, caches, pass
<1>1. faults \in [FaultKind -> Nat] /\ faults["remove"] \in Nat
  BY DEF TypeOK, FaultKind
<1>2. CASE ReconcilerStep
  BY <1>2 DEF ReconcilerStep, Reconcile, AddFinalizer, InitializePhase, InitializeStepStatuses,
              UpdateStepStatuses, UpdatePipelinePhase, SkipStep, CreateJobForStep, MarkRunning,
              FinishPass, Panic, DeleteJob, RemoveFinalizer, Refused, Vanished
<1>3. CASE Environment
  <2>1. cache' = cache \/ (cache' = server /\ server' = server)
    BY <1>3 DEF Environment, SyncPipeline, TouchPipeline, EditSpec, DeletePipeline, Interrupt, SyncJob,
                JobControllerStep, SuspendJob, ResumeJob, RemoveJob
  <2>2. UNCHANGED faults \/ \E kind \in FaultKind : faults' = [faults EXCEPT ![kind] = @ + 1]
    BY <1>3 DEF Environment, SyncPipeline, TouchPipeline, EditSpec, DeletePipeline, Interrupt, SyncJob,
                JobControllerStep, SuspendJob, ResumeJob, RemoveJob, Spend, FaultKind
  <2>3. Vanished' = 0 => Vanished = 0
    BY <1>1, <2>2 DEF Vanished, FaultKind
  <2> QED
    BY <2>1, <2>3
<1>4. CASE UNCHANGED vars
  BY <1>4 DEF vars, Vanished
<1> QED
  BY <1>2, <1>3, <1>4 DEF Next

\* All copies of the statuses are empty at first.
LEMMA InitTrail == Init => TrailInv
<1> SUFFICES ASSUME Init PROVE TrailInv
  OBVIOUS
<1>1. cache.steps = <<>> /\ local.steps = <<>>
  <2>1. PICK spec \in Specs : server = NewPipeline(spec)
    BY DEF Init
  <2> QED
    BY <2>1, EmptyBlank DEF Init, NewPipeline
<1> QED
  BY <1>1 DEF TrailInv, Follows

\* TrailInv is inductive: a copy is made of what is stored, which only moves on.
LEMMA NextTrail ==
  TypeOK /\ CopyInv /\ OutcomeInv /\ TrailInv /\ [Next]_vars /\ TypeOK' => TrailInv'
<1> SUFFICES ASSUME TypeOK, CopyInv, OutcomeInv, TrailInv, [Next]_vars, TypeOK', Vanished' = 0
             PROVE  Follows(cache.steps, server.steps)' /\ Follows(local.steps, server.steps)'
  BY DEF TrailInv
<1>1. Vanished = 0
  BY CacheSteps
<1>2. /\ server.steps \in Seq(StepStatus) /\ cache.steps \in Seq(StepStatus) /\ local.steps \in Seq(StepStatus)
      /\ server'.steps \in Seq(StepStatus)
  BY DEF TypeOK, Pipeline
<1>3. Follows(server.steps, server'.steps)
  BY <1>1, StepsFollow
<1>4. Follows(cache.steps, server'.steps) /\ Follows(local.steps, server'.steps)
  BY <1>1, <1>2, <1>3, FollowsAlong DEF TrailInv
<1>5. Follows(cache'.steps, server'.steps)
  BY <1>4, CacheSteps, FollowsItself
<1>6. Follows(local'.steps, server'.steps)
  <2>1. CASE local'.steps = <<>>
    BY <2>1 DEF Follows
  <2>2. CASE local'.steps = local.steps \/ local'.steps = server'.steps \/ local' = cache
    BY <1>4, <2>2, FollowsItself
  <2>3. ASSUME NEW k \in DOMAIN local.steps, local.steps[k].phase = "Pending",
               local'.steps = [local.steps EXCEPT ![k] = [local.steps[k] EXCEPT !.job = TRUE]]
        PROVE  Follows(local'.steps, server'.steps)
    <3>1. local'.steps[k] = [local.steps[k] EXCEPT !.job = TRUE] /\ local.steps[k] \in StepStatus
      BY <1>2, <2>3
    <3>2. local'.steps[k].name = local.steps[k].name /\ local'.steps[k].phase = local.steps[k].phase
      BY <3>1 DEF StepStatus
    <3>3. DOMAIN local'.steps = DOMAIN local.steps /\ \A i \in DOMAIN local.steps : i # k => local'.steps[i] = local.steps[i]
      BY <1>2, <2>3
    <3>4. local.steps # <<>>
      OBVIOUS
    <3> QED
      BY <1>4, <3>2, <3>3, <3>4 DEF Follows
  <2> QED
    BY <2>1, <2>2, <2>3, LocalSteps
<1> QED
  BY <1>5, <1>6

----------------------------------------------------------------------------
(* Pipelines whose spec is not edited and whose jobs are not removed.      *)

\* No job is removed, by a user or by its ttlSecondsAfterFinished.
NoRemovals == \A spec \in Specs : MaxFaults[spec]["remove"] = 0

\* What users and failures may do no times at all never happens.
LEMMA NeverHappens ==
  ASSUME NEW kind \in FaultKind, \A spec \in Specs : MaxFaults[spec][kind] = 0,
         TypeOK, faults[kind] = 0, [Next]_vars
  PROVE  faults'[kind] = 0
<1> USE DEF objects, caches, pass
<1>1. faults \in [FaultKind -> Nat] /\ server.spec \in Specs
  BY DEF TypeOK, Pipeline
<1>2. ~ Spend(kind)
  BY <1>1 DEF Spend
<1>3. ASSUME NEW other \in FaultKind, Spend(other)
      PROVE  faults'[kind] = 0
  <2>1. kind # other
    BY <1>2, <1>3
  <2> QED
    BY <1>1, <1>3, <2>1 DEF Spend
<1>4. CASE ReconcilerStep
  BY <1>4 DEF ReconcilerStep, Reconcile, AddFinalizer, InitializePhase, InitializeStepStatuses,
              UpdateStepStatuses, UpdatePipelinePhase, SkipStep, CreateJobForStep, MarkRunning,
              FinishPass, Panic, DeleteJob, RemoveFinalizer, Refused
<1>5. CASE Environment
  <2>1. UNCHANGED faults \/ \E other \in FaultKind : Spend(other)
    BY <1>5 DEF Environment, SyncPipeline, TouchPipeline, EditSpec, DeletePipeline, Interrupt, SyncJob,
                JobControllerStep, SuspendJob, ResumeJob, RemoveJob, FaultKind
  <2> QED
    BY <1>3, <2>1
<1>6. CASE UNCHANGED vars
  BY <1>6 DEF vars
<1> QED
  BY <1>4, <1>5, <1>6 DEF Next

----------------------------------------------------------------------------
\* The list of statuses is empty or has one for each step, in their order.
NamesFit(p) ==
  p.steps # <<>> => /\ DOMAIN p.steps = DOMAIN p.spec
                    /\ \A i \in DOMAIN p.steps : p.steps[i].name = p.spec[i].name

\* The list of statuses is made for the steps of the spec and keeps its names.
LEMMA NamesStayFit ==
  ASSUME TypeOK, NamesFit(server), StatusKept \/ LifecycleMove, server'.spec = server.spec
  PROVE  NamesFit(server)'
<1>1. CASE StatusKept
  BY <1>1 DEF StatusKept, NamesFit
<1>2. CASE LifecycleMove /\ server.steps # <<>>
  BY <1>2, MoveFollows DEF Follows, NamesFit
<1>3. CASE LifecycleMove /\ server.steps = <<>>
  <2>1. CASE Lifecycle!Begin \/ Lifecycle!Conclude \/ Lifecycle!Progress
    BY <1>3, <2>1 DEF Lifecycle!Begin, Lifecycle!Conclude, Lifecycle!Progress, NamesFit
  <2>2. CASE Lifecycle!Initialize
    <3>1. server'.steps = InitialStatuses(server.spec)
      BY <2>2 DEF Lifecycle!Initialize, Lifecycle!InitialStatuses, InitialStatuses
    <3>2. /\ DOMAIN server'.steps = DOMAIN server'.spec
          /\ \A i \in DOMAIN server'.spec : server'.steps[i].name = server'.spec[i].name
      BY <3>1 DEF InitialStatuses
    <3> QED
      BY <3>2 DEF NamesFit
  <2>3. ASSUME NEW i \in DOMAIN server.spec, Lifecycle!Start(i) \/ Lifecycle!Skip(i)
        PROVE  NamesFit(server)'
    <3>1. server'.steps = <<>>
      BY <1>3, <2>3 DEF Lifecycle!Start, Lifecycle!Skip
    <3> QED
      BY <3>1 DEF NamesFit
  <2> QED
    BY <1>3, <2>1, <2>2, <2>3 DEF LifecycleMove
<1> QED
  BY <1>1, <1>2, <1>3

\* The invariant behind the refinement and the rules of the scheduling.
SchedulerInv ==
  /\ TypeOK /\ DeletionInv /\ CopyInv /\ OnceInv /\ OutcomeInv /\ TrailInv
  /\ OneSpec /\ NamesFit(server) /\ Vanished = 0

\* SchedulerInv holds at first.
LEMMA InitScheduler == Init => SchedulerInv
<1> SUFFICES ASSUME Init PROVE NamesFit(server) /\ Vanished = 0
  BY InitType, InitDeletion, InitCopy, InitOnce, InitOutcome, InitTrail, InitOneSpec DEF SchedulerInv
<1>1. PICK spec \in Specs : server = NewPipeline(spec)
  BY DEF Init
<1> QED
  BY <1>1 DEF Init, NewPipeline, NamesFit, Vanished, FaultKind

\* SchedulerInv is inductive, and a step from it is one of the abstract scheduler
\* or leaves the status alone.
LEMMA NextScheduler ==
  ASSUME NoEdits, NoRemovals, SchedulerInv, [Next]_vars
  PROVE  /\ SchedulerInv'
         /\ server'.spec = server.spec
         /\ StatusKept \/ LifecycleMove
<1> USE DEF SchedulerInv
<1>1. TypeOK'
  BY NextType
<1>2. DeletionInv' /\ CopyInv' /\ OnceInv' /\ OutcomeInv'
  BY NextDeletion, NextCopy, NextOnce, NextOutcome
<1>3. TrailInv'
  BY <1>1, NextTrail
<1>4. server'.spec = server.spec /\ OneSpec' /\ Vanished' = 0
  BY SpecKept, NeverHappens DEF NoRemovals, Vanished, FaultKind
<1>5. StatusKept \/ LifecycleMove
  BY ServerMoves
<1>6. NamesFit(server)'
  BY <1>4, <1>5, NamesStayFit
<1> QED
  BY <1>1, <1>2, <1>3, <1>4, <1>5, <1>6

\* The operator implements the scheduler that looks at the whole pipeline
\* and changes it in one step: every status write the API server takes,
\* decided on whatever copy, is a decision that is right for the pipeline as
\* it is stored (Reconcile, with the conflicts of the resource version).
THEOREM OperatorIsScheduler ==
  ASSUME NoEdits, NoRemovals
  PROVE  Spec => ImplementsLifecycle
<1>1. Init => Lifecycle!Init
  <2> SUFFICES ASSUME Init PROVE Lifecycle!Init
    OBVIOUS
  <2>1. PICK spec \in Specs : server = NewPipeline(spec)
    BY DEF Init
  <2> QED
    BY <2>1 DEF NewPipeline, Lifecycle!Init
<1>2. SchedulerInv /\ [Next]_vars => [Lifecycle!Next]_(Lifecycle!lifecycle)
  <2> SUFFICES ASSUME SchedulerInv, [Next]_vars
               PROVE  [Lifecycle!Next]_(Lifecycle!lifecycle)
    OBVIOUS
  <2>1. server'.spec = server.spec /\ (StatusKept \/ LifecycleMove)
    BY NextScheduler
  <2>2. CASE StatusKept
    BY <2>1, <2>2 DEF StatusKept, Lifecycle!lifecycle
  <2>3. ASSUME NEW i \in DOMAIN server.spec, Lifecycle!Start(i) \/ Lifecycle!Skip(i)
        PROVE  [Lifecycle!Next]_(Lifecycle!lifecycle)
    <3>1. CASE server.steps = <<>>
      <4>1. server'.steps = <<>> /\ server'.phase = server.phase
        BY <2>3, <3>1 DEF Lifecycle!Start, Lifecycle!Skip
      <4> QED
        BY <2>1, <3>1, <4>1 DEF Lifecycle!lifecycle
    <3>2. CASE server.steps # <<>>
      <4>1. i \in DOMAIN server.steps
        BY <3>2 DEF SchedulerInv, NamesFit
      <4> QED
        BY <2>3, <4>1 DEF Lifecycle!Next
    <3> QED
      BY <3>1, <3>2
  <2> QED
    BY <2>1, <2>2, <2>3 DEF LifecycleMove, Lifecycle!Next
<1>3. SchedulerInv /\ [Next]_vars => SchedulerInv'
  BY NextScheduler
<1> QED
  BY <1>1, <1>2, <1>3, InitScheduler, PTL DEF Spec, ImplementsLifecycle, Lifecycle!Spec

----------------------------------------------------------------------------
(* The rules of the scheduling: which steps run and which are skipped.     *)

\* No job is ever suspended, by a user or because its step says so.
NoSuspensions ==
  \A spec \in Specs : /\ MaxFaults[spec]["suspend"] = 0
                      /\ \A i \in DOMAIN spec : ~ spec[i].suspend

\* No two steps of a pipeline have the same name.
UniqueNames == \A spec \in Specs : \A i, j \in DOMAIN spec : spec[i].name = spec[j].name => i = j

\* ConditionHolds, of any pipeline.
HoldsIn(p, runIf) ==
  LET wanted == IF GetCondition(runIf) = "fail" THEN "Failed" ELSE "Succeeded"
  IN  IF GetOperator(runIf) = "and"
      THEN \A name \in runIf.steps : StatusPhase(p, name) = wanted
      ELSE \E name \in runIf.steps : StatusPhase(p, name) = wanted

\* The condition is met exactly when the table of the documentation says so.
LEMMA MetIsHolds ==
  ASSUME NEW p, NEW runIf
  PROVE  ConditionMet(p, runIf.steps, RequiresAll(runIf), IsCheckingFailure(runIf)) <=> HoldsIn(p, runIf)
<1> DEFINE wanted == IF GetCondition(runIf) = "fail" THEN "Failed" ELSE "Succeeded"
           match == {name \in runIf.steps : StatusPhase(p, name) = wanted}
<1>1. ConditionMet(p, runIf.steps, RequiresAll(runIf), IsCheckingFailure(runIf))
        <=> IF GetOperator(runIf) = "and" THEN match = runIf.steps ELSE match # {}
  BY DEF ConditionMet, RequiresAll, IsCheckingFailure
<1>2. match = runIf.steps <=> \A name \in runIf.steps : StatusPhase(p, name) = wanted
  OBVIOUS
<1>3. match # {} <=> \E name \in runIf.steps : StatusPhase(p, name) = wanted
  OBVIOUS
<1> QED
  BY <1>1, <1>2, <1>3 DEF HoldsIn

\* What a condition asks for is final, and so is the condition once it holds.
LEMMA HoldsOn ==
  ASSUME NEW p, NEW q, p.steps \in Seq(StepStatus), q.steps \in Seq(StepStatus),
         Follows(p.steps, q.steps), NEW runIf
  PROVE  /\ HoldsIn(p, runIf) => HoldsIn(q, runIf)
         /\ (\A name \in runIf.steps : StatusPhase(p, name) \in TerminalStepPhase) =>
              (HoldsIn(q, runIf) => HoldsIn(p, runIf))
BY FollowsPhase DEF HoldsIn, TerminalStepPhase

\* The place of a step among the steps of the pipeline.
LEMMA PlaceOfStep ==
  ASSUME UniqueNames, NEW p, p.spec \in Specs, NEW i \in DOMAIN p.spec
  PROVE  StepIndex(p, p.spec[i].name) = i
<1> DEFINE found == {j \in DOMAIN p.spec : p.spec[j].name = p.spec[i].name}
<1>1. found = {i} /\ i \in Nat
  BY SpecsAssumption DEF UniqueNames
<1>2. Least({i}) = i
  BY <1>1 DEF Least
<1> QED
  BY <1>1, <1>2 DEF StepIndex

\* A pipeline none of whose steps is suspended.
Unpaused(p) == \A i \in DOMAIN p.steps : p.steps[i].phase # "Suspended"

\* What a step can be found in where none is suspended.
LEMMA PhasesUnpaused ==
  ASSUME NEW p, p.steps \in Seq(StepStatus), Unpaused(p), NEW name
  PROVE  StatusPhase(p, name) \in TerminalStepPhase \cup {"nil", "Pending", "Running"}
<1>1. CASE StatusPhase(p, name) = "nil"
  BY <1>1
<1>2. CASE StatusPhase(p, name) # "nil"
  <2>1. PICK k \in DOMAIN p.steps : p.steps[k].phase = StatusPhase(p, name)
    BY <1>2, FoundPhase
  <2>2. p.steps[k] \in StepStatus
    OBVIOUS
  <2> QED
    BY <2>1, <2>2 DEF Unpaused, StepStatus, StepPhase, TerminalStepPhase
<1> QED
  BY <1>1, <1>2

\* What a verdict says of the pipeline it is given on.
Before(p, i) == {p.spec[j].name : j \in 1 .. i - 1}

\* The verdict of checkSequentialExecution speaks of the earlier steps.
LEMMA SequentialVerdict ==
  ASSUME UniqueNames, NEW p, p.spec \in Specs, p.steps \in Seq(StepStatus), NEW i \in DOMAIN p.spec,
         ~ HasConditionalExecution(p.spec[i])
  PROVE  /\ AreDependenciesSatisfied(p, p.spec[i]) = "ready" =>
              \A name \in Before(p, i) :
                StatusPhase(p, name) \notin {"nil", "Pending", "Running", "Failed", "Skipped"}
         /\ AreDependenciesSatisfied(p, p.spec[i]) = "skip" =>
              \E name \in Before(p, i) : StatusPhase(p, name) \in {"Failed", "Skipped"}
<1> DEFINE phases == {StatusPhase(p, name) : name \in Before(p, i)}
           verdict == IF "nil" \in phases THEN "panic"
                      ELSE IF phases \cap {"Pending", "Running"} # {} THEN "wait"
                      ELSE IF phases \cap {"Failed", "Skipped"} # {} THEN "skip" ELSE "ready"
<1>1. StepIndex(p, p.spec[i].name) = i
  BY PlaceOfStep
<1>2. AreDependenciesSatisfied(p, p.spec[i]) = verdict
  BY <1>1, Zenon DEF AreDependenciesSatisfied, CheckSequentialExecution, Before
<1> HIDE DEF phases
<1>3. verdict = "ready" => "nil" \notin phases /\ phases \cap {"Pending", "Running"} = {}
                           /\ phases \cap {"Failed", "Skipped"} = {}
  OBVIOUS
<1>4. verdict = "skip" => phases \cap {"Failed", "Skipped"} # {}
  OBVIOUS
<1> USE DEF phases
<1>5. verdict = "ready" => \A name \in Before(p, i) :
        StatusPhase(p, name) \notin {"nil", "Pending", "Running", "Failed", "Skipped"}
  BY <1>3
<1>6. verdict = "skip" => \E name \in Before(p, i) : StatusPhase(p, name) \in {"Failed", "Skipped"}
  BY <1>4
<1> QED
  BY <1>2, <1>5, <1>6

\* The verdict of checkConditionalExecution speaks of the steps runIf names.
LEMMA ConditionalVerdict ==
  ASSUME NEW p, NEW step, HasConditionalExecution(step)
  PROVE  /\ AreDependenciesSatisfied(p, step) = "ready" => HoldsIn(p, step.runIf)
         /\ AreDependenciesSatisfied(p, step) = "skip" =>
              /\ ~ HoldsIn(p, step.runIf)
              /\ \A name \in step.runIf.steps : StatusPhase(p, name) \notin {"nil", "Pending", "Running"}
<1>1. AreDependenciesSatisfied(p, step) =
        IF ~ AllComplete(p, step.runIf.steps) THEN "wait"
        ELSE IF HoldsIn(p, step.runIf) THEN "ready" ELSE "skip"
  BY MetIsHolds DEF AreDependenciesSatisfied, CheckConditionalExecution
<1> QED
  BY <1>1 DEF AllComplete

----------------------------------------------------------------------------
\* A job is created for a step only when the pass's copy says it is ready.
LEMMA CreatedWhenReady ==
  ASSUME TypeOK, [Next]_vars, NEW n, created'[n] # created[n]
  PROVE  /\ server' = server /\ pc = "startSteps"
         /\ \E k \in DOMAIN local.spec :
              local.spec[k].name = n /\ AreDependenciesSatisfied(local, local.spec[k]) = "ready"
<1>1. created \in [StepName -> Nat]
  BY DEF TypeOK
<1>2. CASE CreateJobForStep
  <2>1. PICK k \in Actionable :
          /\ pc = "startSteps" /\ StepVerdict(k) = "ready" /\ server' = server
          /\ created' = [created EXCEPT ![local.spec[k].name] = @ + 1]
    BY <1>2 DEF CreateJobForStep
  <2>2. local.spec[k].name = n
    BY <1>1, <2>1
  <2>3. AreDependenciesSatisfied(local, local.spec[k]) = "ready"
    BY <2>1 DEF StepVerdict
  <2> QED
    BY <2>1, <2>2, <2>3 DEF Actionable
<1>3. CASE ~ CreateJobForStep
  <2>1. created' = created
    BY <1>3 DEF Next, ReconcilerStep, Reconcile, AddFinalizer, InitializePhase, InitializeStepStatuses,
                UpdateStepStatuses, UpdatePipelinePhase, SkipStep, MarkRunning, FinishPass, Panic,
                DeleteJob, RemoveFinalizer, Refused, Environment, SyncPipeline, TouchPipeline, EditSpec,
                DeletePipeline, Interrupt, SyncJob, JobControllerStep, SuspendJob, ResumeJob, RemoveJob, vars
  <2> QED
    BY <2>1
<1> QED
  BY <1>2, <1>3

\* A step with runIf that got its job got it by a condition that holds.
LEMMA NextRunIf ==
  ASSUME NoEdits, NoRemovals, UniqueNames, SchedulerInv, RunIfHolds, [Next]_vars
  PROVE  RunIfHolds'
<1> USE DEF SchedulerInv
<1>1. server'.spec = server.spec /\ SchedulerInv'
  BY NextScheduler
<1>2. /\ server.spec \in Specs /\ server.steps \in Seq(StepStatus) /\ server'.steps \in Seq(StepStatus)
      /\ local.steps \in Seq(StepStatus)
  BY <1>1 DEF TypeOK, Pipeline
<1>3. Follows(server.steps, server'.steps)
  BY StepsFollow
<1>4. ASSUME NEW i \in DOMAIN server.spec, HasConditionalExecution(server.spec[i]),
             created'[server.spec[i].name] > 0
      PROVE  HoldsIn(server', server.spec[i].runIf)
  <2>1. CASE created'[server.spec[i].name] = created[server.spec[i].name]
    <3>1. HoldsIn(server, server.spec[i].runIf)
      BY <1>4, <2>1 DEF RunIfHolds, ConditionHolds, Recorded, HoldsIn
    <3> QED
      BY <1>2, <1>3, <3>1, HoldsOn
  <2>2. CASE created'[server.spec[i].name] # created[server.spec[i].name]
    <3>1. PICK k \in DOMAIN local.spec :
            /\ server' = server /\ pc = "startSteps" /\ local.spec[k].name = server.spec[i].name
            /\ AreDependenciesSatisfied(local, local.spec[k]) = "ready"
      BY <2>2, CreatedWhenReady
    <3>2. local.spec = server.spec /\ Follows(local.steps, server.steps)
      BY <3>1 DEF OneSpec, TrailInv
    <3>3. k = i
      BY <1>2, <3>1, <3>2 DEF UniqueNames
    <3>4. HoldsIn(local, server.spec[i].runIf)
      BY <1>4, <3>1, <3>2, <3>3, ConditionalVerdict
    <3> QED
      BY <1>2, <3>1, <3>2, <3>4, HoldsOn
  <2> QED
    BY <2>1, <2>2
<1> QED
  BY <1>1, <1>4 DEF RunIfHolds, ConditionHolds, Recorded, HoldsIn

----------------------------------------------------------------------------
\* Why a step is skipped.
Justified(p, i) ==
  IF HasConditionalExecution(p.spec[i])
  THEN /\ \A name \in p.spec[i].runIf.steps : StatusPhase(p, name) \in TerminalStepPhase
       /\ ~ HoldsIn(p, p.spec[i].runIf)
  ELSE \E name \in Before(p, i) : StatusPhase(p, name) \in {"Failed", "Skipped"}

\* A skip stays justified as the statuses move on.
LEMMA JustifiedOn ==
  ASSUME NEW p, NEW q, p.steps \in Seq(StepStatus), q.steps \in Seq(StepStatus), p.spec = q.spec,
         Follows(p.steps, q.steps), NEW i, Justified(p, i)
  PROVE  Justified(q, i)
<1>1. \A name : StatusPhase(p, name) \in TerminalStepPhase => StatusPhase(q, name) = StatusPhase(p, name)
  BY FollowsPhase
<1>2. CASE HasConditionalExecution(p.spec[i])
  <2>1. \A name \in p.spec[i].runIf.steps : StatusPhase(p, name) \in TerminalStepPhase
    BY <1>2 DEF Justified
  <2>2. ~ HoldsIn(q, p.spec[i].runIf)
    BY <1>2, <2>1, HoldsOn DEF Justified
  <2> QED
    BY <1>1, <1>2, <2>1, <2>2 DEF Justified
<1>3. CASE ~ HasConditionalExecution(p.spec[i])
  BY <1>1, <1>3 DEF Justified, Before, TerminalStepPhase
<1> QED
  BY <1>2, <1>3

\* A verdict to skip is justified where no step is suspended.
LEMMA SkipIsJustified ==
  ASSUME UniqueNames, NEW p, p.spec \in Specs, p.steps \in Seq(StepStatus), Unpaused(p),
         NEW i \in DOMAIN p.spec, AreDependenciesSatisfied(p, p.spec[i]) = "skip"
  PROVE  Justified(p, i)
BY SequentialVerdict, ConditionalVerdict, PhasesUnpaused DEF Justified

\* Only a skip makes a step skipped.
LEMMA SkippedBySkip ==
  ASSUME TypeOK, TypeOK', LifecycleMove, NEW name,
         StatusPhase(server', name) = "Skipped", StatusPhase(server, name) # "Skipped"
  PROVE  \E i \in DOMAIN server.spec : Lifecycle!Skip(i) /\ server.spec[i].name = name
<1> DEFINE k == StatusIndex(server', name)
<1>1. server.steps \in Seq(StepStatus) /\ server'.steps \in Seq(StepStatus)
  BY DEF TypeOK, Pipeline
<1>2. k \in DOMAIN server'.steps /\ k # 0 /\ server'.steps[k].name = name /\ server'.steps[k].phase = "Skipped"
  BY <1>1, FoundPhase
<1>3. ASSUME DOMAIN server'.steps = DOMAIN server.steps,
             \A j \in DOMAIN server.steps : server'.steps[j].name = server.steps[j].name
      PROVE  StatusIndex(server, name) = k /\ server.steps[k].phase # "Skipped" /\ server.steps[k].name = name
  <2>1. {j \in DOMAIN server.steps : server.steps[j].name = name} =
        {j \in DOMAIN server'.steps : server'.steps[j].name = name}
    BY <1>3
  <2>2. StatusIndex(server, name) = k
    BY <2>1 DEF StatusIndex
  <2> QED
    BY <1>2, <1>3, <2>2 DEF StatusPhase
<1> HIDE DEF k
<1>4. CASE Lifecycle!Begin \/ Lifecycle!Conclude
  <2>1. server'.steps = server.steps
    BY <1>4 DEF Lifecycle!Begin, Lifecycle!Conclude
  <2> QED
    BY <1>2, <1>3, <2>1
<1>5. CASE Lifecycle!Initialize
  <2>1. server'.steps = InitialStatuses(server.spec)
    BY <1>5 DEF Lifecycle!Initialize, Lifecycle!InitialStatuses, InitialStatuses
  <2>2. \A j \in DOMAIN server'.steps : server'.steps[j].phase = "Pending"
    BY <2>1 DEF InitialStatuses
  <2> QED
    BY <1>2, <2>2
<1>6. CASE Lifecycle!Progress
  <2>1. /\ DOMAIN server'.steps = DOMAIN server.steps
        /\ \A j \in DOMAIN server.steps : server'.steps[j] \in Lifecycle!Successors(server.steps[j])
    BY <1>6 DEF Lifecycle!Progress
  <2>2. ASSUME NEW j \in DOMAIN server.steps
        PROVE  /\ server'.steps[j].name = server.steps[j].name
               /\ server'.steps[j].phase = "Skipped" => server.steps[j].phase = "Skipped"
    <3> DEFINE status == server.steps[j]
    <3>1. server'.steps[j] = status \/
             \E next \in {status.phase, "Running", "Suspended", "Succeeded", "Failed"} :
               server'.steps[j] = [status EXCEPT !.phase = next]
      BY <2>1 DEF Lifecycle!Successors
    <3>2. status \in StepStatus
      BY <1>1
    <3>3. \A next : [status EXCEPT !.phase = next].name = status.name /\ [status EXCEPT !.phase = next].phase = next
      BY <3>2 DEF StepStatus
    <3> HIDE DEF status
    <3>4. server'.steps[j].name = status.name /\ (server'.steps[j].phase = "Skipped" => status.phase = "Skipped")
      BY <3>1, <3>3
    <3> QED
      BY <3>4 DEF status
  <2> QED
    BY <1>2, <1>3, <2>1, <2>2
<1>7. ASSUME NEW i \in DOMAIN server.spec, Lifecycle!Start(i) \/ Lifecycle!Skip(i)
      PROVE  Lifecycle!Skip(i) /\ server.spec[i].name = name
  <2> DEFINE m == StatusIndex(server, server.spec[i].name)
  <2>0. Lifecycle!StatusIndex(Lifecycle!view, server.spec[i].name) = m
    <3>1. Lifecycle!view.steps = server.steps
      BY DEF Lifecycle!view
    <3>2. StatusIndex(Lifecycle!view, server.spec[i].name) = m
      BY <3>1 DEF StatusIndex
    <3> QED
      BY <3>2, SameStatus
  <2>1. \/ /\ Lifecycle!Skip(i)
           /\ server'.steps = [server.steps EXCEPT ![m] = [server.steps[m] EXCEPT !.phase = "Skipped"]]
        \/ server'.steps = [server.steps EXCEPT ![m] = [server.steps[m] EXCEPT !.phase = "Running", !.job = TRUE]]
    BY <1>7, <2>0 DEF Lifecycle!Start, Lifecycle!Skip
  <2>2. m \in DOMAIN server.steps => server.steps[m].name = server.spec[i].name
    BY <1>1, FoundIndex
  <2> HIDE DEF m
  <2>3. DOMAIN server'.steps = DOMAIN server.steps /\ \A j \in DOMAIN server.steps : j # m => server'.steps[j] = server.steps[j]
    BY <1>1, <2>1
  <2>4. ASSUME m \in DOMAIN server.steps
        PROVE  /\ server'.steps[m].name = server.steps[m].name
               /\ server'.steps[m].phase = "Skipped" => Lifecycle!Skip(i)
    <3>1. server.steps[m] \in StepStatus
      BY <1>1, <2>4
    <3>2. \/ server'.steps[m] = [server.steps[m] EXCEPT !.phase = "Skipped"] /\ Lifecycle!Skip(i)
          \/ server'.steps[m] = [server.steps[m] EXCEPT !.phase = "Running", !.job = TRUE]
      BY <1>1, <2>1, <2>4
    <3> QED
      BY <3>1, <3>2 DEF StepStatus
  <2>5. StatusIndex(server, name) = k /\ server.steps[k].phase # "Skipped" /\ server.steps[k].name = name
    BY <1>3, <2>3, <2>4
  <2>6. k = m
    BY <1>2, <2>3, <2>5
  <2> QED
    BY <1>2, <2>2, <2>3, <2>4, <2>5, <2>6
<1> QED
  BY <1>4, <1>5, <1>6, <1>7 DEF LifecycleMove

\* As long as nothing is suspended, no status says so.
LEMMA NothingSuspended ==
  ASSUME NoSuspensions, OutcomeInv, Vanished = 0, faults["suspend"] = 0
  PROVE  Unpaused(server) /\ Unpaused(local)
<1>1. ~ MayPause
  BY DEF MayPause, NoSuspensions
<1>2. AllBacked(server.steps) /\ AllBacked(local.steps)
  BY DEF OutcomeInv, StatusesBacked
<1> QED
  BY <1>1, <1>2 DEF AllBacked, Backed, Unpaused

\* A step is skipped for a reason, and the reason stays.
LEMMA NextSkip ==
  ASSUME NoEdits, NoRemovals, UniqueNames, SchedulerInv, Unpaused(server), SkipJustified, [Next]_vars
  PROVE  SkipJustified'
<1> USE DEF SchedulerInv
<1>1. server'.spec = server.spec /\ SchedulerInv' /\ (StatusKept \/ LifecycleMove)
  BY NextScheduler
<1>2. server.spec \in Specs /\ server.steps \in Seq(StepStatus) /\ server'.steps \in Seq(StepStatus)
  BY <1>1 DEF TypeOK, Pipeline
<1>3. Follows(server.steps, server'.steps)
  BY StepsFollow
<1>4. ASSUME NEW i \in DOMAIN server.spec, StatusPhase(server', server.spec[i].name) = "Skipped"
      PROVE  Justified(server', i)
  <2>1. CASE StatusPhase(server, server.spec[i].name) = "Skipped"
    <3>1. Justified(server, i)
      BY <1>4, <2>1 DEF SkipJustified, ConditionHolds, Recorded, HoldsIn, Justified, Earlier, Before
    <3> QED
      BY <1>1, <1>2, <1>3, <3>1, JustifiedOn
  <2>2. CASE StatusPhase(server, server.spec[i].name) # "Skipped"
    <3>1. server'.steps # server.steps
      BY <1>4, <2>2 DEF StatusPhase, StatusIndex
    <3>2. LifecycleMove
      BY <1>1, <3>1 DEF StatusKept
    <3>3. PICK k \in DOMAIN server.spec : Lifecycle!Skip(k) /\ server.spec[k].name = server.spec[i].name
      BY <1>1, <1>4, <2>2, <3>2, SkippedBySkip
    <3>4. k = i
      BY <1>2, <3>3 DEF UniqueNames
    <3>5. Lifecycle!AreDependenciesSatisfied(Lifecycle!view, server.spec[i]) = "skip"
      BY <3>3, <3>4 DEF Lifecycle!Skip
    <3>6. Alike(server, Lifecycle!view)
      BY DEF Alike, Lifecycle!view
    <3>7. AreDependenciesSatisfied(server, server.spec[i]) = "skip"
      BY <1>2, <3>5, <3>6, SameVerdict, AlikeVerdict
    <3>8. Justified(server, i)
      BY <1>2, <3>7, SkipIsJustified
    <3> QED
      BY <1>1, <1>2, <1>3, <3>8, JustifiedOn
  <2> QED
    BY <2>1, <2>2
<1> QED
  BY <1>1, <1>4 DEF SkipJustified, ConditionHolds, Recorded, HoldsIn, Justified, Earlier, Before

\* A step without runIf that got its job got it after its predecessors.
LEMMA NextSequential ==
  ASSUME NoEdits, NoRemovals, UniqueNames, SchedulerInv, Unpaused(local), SequentialAfterSuccess, [Next]_vars
  PROVE  SequentialAfterSuccess'
<1> USE DEF SchedulerInv
<1>1. server'.spec = server.spec /\ SchedulerInv'
  BY NextScheduler
<1>2. /\ server.spec \in Specs /\ server.steps \in Seq(StepStatus) /\ server'.steps \in Seq(StepStatus)
      /\ local.steps \in Seq(StepStatus)
  BY <1>1 DEF TypeOK, Pipeline
<1>3. Follows(server.steps, server'.steps)
  BY StepsFollow
<1>4. ASSUME NEW i \in DOMAIN server.spec, ~ HasConditionalExecution(server.spec[i]),
             created'[server.spec[i].name] > 0, NEW name \in Before(server, i)
      PROVE  StatusPhase(server', name) = "Succeeded"
  <2>1. CASE created'[server.spec[i].name] = created[server.spec[i].name]
    <3>1. StatusPhase(server, name) = "Succeeded"
      BY <1>4, <2>1 DEF SequentialAfterSuccess, Earlier, Before, Recorded
    <3> QED
      BY <1>2, <1>3, <3>1, FollowsPhase DEF TerminalStepPhase
  <2>2. CASE created'[server.spec[i].name] # created[server.spec[i].name]
    <3>1. PICK k \in DOMAIN local.spec :
            /\ server' = server /\ pc = "startSteps" /\ local.spec[k].name = server.spec[i].name
            /\ AreDependenciesSatisfied(local, local.spec[k]) = "ready"
      BY <2>2, CreatedWhenReady
    <3>2. local.spec = server.spec /\ Follows(local.steps, server.steps)
      BY <3>1 DEF OneSpec, TrailInv
    <3>3. k = i
      BY <1>2, <3>1, <3>2 DEF UniqueNames
    <3>4. StatusPhase(local, name) \notin {"nil", "Pending", "Running", "Failed", "Skipped"}
      BY <1>2, <1>4, <3>1, <3>2, <3>3, SequentialVerdict DEF Before
    <3>5. StatusPhase(local, name) = "Succeeded"
      BY <1>2, <3>4, PhasesUnpaused DEF TerminalStepPhase
    <3> QED
      BY <1>2, <3>1, <3>2, <3>5, FollowsPhase DEF TerminalStepPhase
  <2> QED
    BY <2>1, <2>2
<1> QED
  BY <1>1, <1>4 DEF SequentialAfterSuccess, Earlier, Before, Recorded

\* What was read of the rules: as RulesInv, they are kept by every step.
RulesInv ==
  /\ SchedulerInv /\ faults["suspend"] = 0
  /\ RunIfHolds /\ SkipJustified /\ SequentialAfterSuccess

\* No step has run, or was skipped, at first.
LEMMA InitRules ==
  ASSUME Init
  PROVE  faults["suspend"] = 0 /\ RunIfHolds /\ SkipJustified /\ SequentialAfterSuccess
<1>1. PICK spec \in Specs : server = NewPipeline(spec)
  BY DEF Init
<1>2. \A i \in DOMAIN server.spec : server.spec[i].name \in StepName
  <2>1. server.spec \in Seq(PipelineStep)
    BY <1>1, SpecsAssumption DEF NewPipeline
  <2>2. \A i \in DOMAIN server.spec : server.spec[i] \in PipelineStep
    BY <2>1
  <2> QED
    BY <2>2 DEF PipelineStep
<1>3. \A i \in DOMAIN server.spec : created[server.spec[i].name] = 0
  BY <1>2 DEF Init
<1>4. \A name : Recorded(name) = "nil"
  <2>1. server.steps = <<>>
    BY <1>1 DEF NewPipeline
  <2>2. \A name : StatusIndex(server, name) = 0
    BY <2>1 DEF StatusIndex
  <2> QED
    BY <2>2 DEF Recorded, StatusPhase
<1> QED
  BY <1>3, <1>4 DEF Init, RunIfHolds, SkipJustified, SequentialAfterSuccess, FaultKind

\* RulesInv is inductive.
LEMMA NextRules ==
  ASSUME NoEdits, NoRemovals, UniqueNames, NoSuspensions, RulesInv, [Next]_vars
  PROVE  RulesInv'
<1> USE DEF RulesInv
<1>1. SchedulerInv'
  BY NextScheduler
<1>2. faults'["suspend"] = 0
  BY NeverHappens DEF NoSuspensions, FaultKind, SchedulerInv
<1>3. Unpaused(server) /\ Unpaused(local)
  BY NothingSuspended DEF SchedulerInv
<1> QED
  BY <1>1, <1>2, <1>3, NextRunIf, NextSkip, NextSequential

\* A step with runIf gets a job only if its condition holds, and from then on
\* it holds: whatever is suspended, deleted or cut short, and however stale
\* the copy the pass decided on (checkConditionalExecution).
THEOREM ConditionsHold ==
  ASSUME NoEdits, NoRemovals, UniqueNames
  PROVE  Spec => []RunIfHolds
<1>1. SchedulerInv /\ RunIfHolds /\ [Next]_vars => (SchedulerInv /\ RunIfHolds)'
  BY NextScheduler, NextRunIf
<1>2. Init => SchedulerInv /\ RunIfHolds
  BY InitScheduler, InitRules
<1> QED
  BY <1>1, <1>2, PTL DEF Spec

\* Where no job is ever suspended, steps run and are skipped by the rules:
\* by their conditions and for the reasons the phases give
\* (areDependenciesSatisfied).
THEOREM RulesAreObeyed ==
  ASSUME NoEdits, NoRemovals, UniqueNames, NoSuspensions
  PROVE  Spec => []RulesObeyed
<1>1. RulesInv /\ [Next]_vars => RulesInv'
  BY NextRules
<1>2. Init => RulesInv
  BY InitScheduler, InitRules DEF RulesInv
<1>3. RulesInv => RulesObeyed
  BY DEF RulesInv, RulesObeyed
<1> QED
  BY <1>1, <1>2, <1>3, PTL DEF Spec

\* There, a step without runIf runs only after every earlier step has
\* succeeded (checkSequentialExecution).
THEOREM SequenceIsKept ==
  ASSUME NoEdits, NoRemovals, UniqueNames, NoSuspensions
  PROVE  Spec => []SequentialAfterSuccess
<1>1. RulesInv /\ [Next]_vars => RulesInv'
  BY NextRules
<1>2. Init => RulesInv
  BY InitScheduler, InitRules DEF RulesInv
<1>3. RulesInv => SequentialAfterSuccess
  BY DEF RulesInv
<1> QED
  BY <1>1, <1>2, <1>3, PTL DEF Spec

----------------------------------------------------------------------------
(* A pipeline that is over.  A pass may begin on a copy from before its    *)
(* end; what it reads of the jobs then tells it that there is nothing left *)
(* to do, since the jobs are all there and their outcomes are final.       *)

\* A status that says neither that its job runs nor that it is suspended.
Decided(status) == status.phase \notin {"Running", "Suspended"}

\* What is decided in a later list is what the jobs, as seen, make of this one.
SeenAs(steps, later, jobOf) ==
  /\ DOMAIN steps = DOMAIN later
  /\ \A i \in DOMAIN later :
       Decided(later[i]) => RefreshStatus(steps[i], jobOf[steps[i].name]) = later[i]

\* Its jobs are all there.
Undisturbed == Vanished = 0 /\ ~ Over

\* How far the cache may be behind a pass whose copy is up to date.
SupportInv ==
  UpToDate =>
    /\ cache.spec = local.spec
    /\ pc \in {"addFinalizer", "initializeSteps", "updateSteps"} => cache.steps \in {<<>>, local.steps}
    /\ pc = "updatePhase" /\ Undisturbed => cache.steps = <<>> \/ SeenAs(cache.steps, local.steps, jobCache)

\* What the copies of a pipeline that is over may lead a pass to.
SettledInv ==
  Undisturbed /\ server.phase \in TerminalPhase =>
    /\ pc \notin {"startSteps", "markRunning"}
    /\ \/ cache.phase \in TerminalPhase \cup {""}
       \/ cache.steps = <<>>
       \/ /\ SeenAs(cache.steps, server.steps, jobCache)
          /\ FitsSpec(server.phase, cache.spec, server.steps)
    /\ pc = "updateSteps" => /\ SeenAs(local.steps, server.steps, jobCache)
                             /\ FitsSpec(server.phase, local.spec, server.steps)
    /\ pc = "updatePhase" => /\ local.steps = server.steps
                             /\ FitsSpec(server.phase, local.spec, server.steps)

----------------------------------------------------------------------------
\* Another look at a job that has ended makes no difference.
LEMMA RefreshAgain ==
  ASSUME TypeOK, JobsKept, ~ Over, Vanished = 0,
         NEW status \in StepStatus, JobRecorded(status),
         NEW later, later = RefreshStatus(status, jobCache[status.name]), Backed(later), Decided(later)
  PROVE  RefreshStatus(status, jobs[status.name]) = later
<1> DEFINE n == status.name
           phase == DetermineStepPhase(jobCache[n], status.phase)
<1>1. CASE ~ status.job
  BY <1>1 DEF RefreshStatus
<1>2. CASE status.job
  <2>1. n \in StepName /\ jobs[n] \in Job /\ jobCache[n] \in Job
    BY DEF TypeOK, StepStatus
  <2>2. JobRecorded(later)
    BY <2>1, RefreshRecorded
  <2>3. later = status \/ later = [status EXCEPT !.phase = phase]
    BY DEF RefreshStatus
  <2>4. later.name = n /\ later.job /\ later = [status EXCEPT !.phase = later.phase]
    BY <1>2, <2>3 DEF StepStatus
  <2>5. later.phase \in StepPhase
    <3>1. status.phase \in StepPhase
      BY DEF StepStatus
    <3>2. later.phase = status.phase \/ later.phase = phase
      BY <2>3 DEF StepStatus
    <3>3. phase \in StepPhase
      BY <2>1, <3>1 DEF DetermineStepPhase, Job, JobCondition, StepPhase
    <3> QED
      BY <3>1, <3>2, <3>3
  <2>6. Ended(later)
    BY <2>2, <2>4, <2>5 DEF JobRecorded, Decided, Ended, StepPhase
  <2>7. created[n] > 0
    BY <2>4 DEF Backed
  <2>8. jobs[n].exists
    BY <2>1, <2>7 DEF JobsKept, TypeOK
  <2>9. jobs[n].cond = Condition(later.phase)
    BY <2>4, <2>6, <2>8 DEF Backed
  <2>10. DetermineStepPhase(jobs[n], status.phase) = later.phase
    BY <2>6, <2>9 DEF DetermineStepPhase, Condition, Ended
  <2> QED
    BY <1>2, <2>4, <2>8, <2>10 DEF RefreshStatus
<1> QED
  BY <1>1, <1>2

\* What was seen of the jobs stays true as the cache catches up.
LEMMA SeenAsSynced ==
  ASSUME TypeOK, JobsKept, ~ Over, Vanished = 0, NEW n \in StepName,
         NEW steps \in Seq(StepStatus), NEW later \in Seq(StepStatus), AllBacked(later),
         \A i \in DOMAIN steps : JobRecorded(steps[i]),
         SeenAs(steps, later, jobCache)
  PROVE  SeenAs(steps, later, [jobCache EXCEPT ![n] = jobs[n]])
<1>1. ASSUME NEW i \in DOMAIN later, Decided(later[i])
      PROVE  RefreshStatus(steps[i], [jobCache EXCEPT ![n] = jobs[n]][steps[i].name]) = later[i]
  <2>1. i \in DOMAIN steps /\ steps[i] \in StepStatus /\ JobRecorded(steps[i]) /\ steps[i].name \in StepName
    <3>1. i \in DOMAIN steps /\ steps[i] \in StepStatus
      BY DEF SeenAs
    <3> QED
      BY <3>1 DEF StepStatus
  <2>2. RefreshStatus(steps[i], jobCache[steps[i].name]) = later[i] /\ Backed(later[i])
    BY <1>1 DEF SeenAs, AllBacked
  <2>3. CASE steps[i].name = n
    <3>1. RefreshStatus(steps[i], jobs[steps[i].name]) = later[i]
      BY <1>1, <2>1, <2>2, RefreshAgain
    <3>2. [jobCache EXCEPT ![n] = jobs[n]][steps[i].name] = jobs[steps[i].name]
      BY <2>1, <2>3 DEF TypeOK
    <3> QED
      BY <3>1, <3>2
  <2>4. CASE steps[i].name # n
    <3>1. [jobCache EXCEPT ![n] = jobs[n]][steps[i].name] = jobCache[steps[i].name]
      BY <2>1, <2>4 DEF TypeOK
    <3> QED
      BY <2>2, <3>1
  <2> QED
    BY <2>3, <2>4
<1> QED
  BY <1>1 DEF SeenAs

\* A refresh leaves alone what it decided before.
LEMMA SeenAsItself ==
  ASSUME TypeOK, NEW steps \in Seq(StepStatus), AllBacked(steps),
         \A i \in DOMAIN steps : JobRecorded(steps[i])
  PROVE  SeenAs(steps, steps, jobCache)
<1> SUFFICES ASSUME NEW i \in DOMAIN steps, Decided(steps[i])
             PROVE  RefreshStatus(steps[i], jobCache[steps[i].name]) = steps[i]
  BY DEF SeenAs
<1> DEFINE status == steps[i]
           job == jobCache[status.name]
<1>1. status \in StepStatus /\ JobRecorded(status) /\ Backed(status)
  BY DEF AllBacked
<1> HIDE DEF status
<1>2. CASE status.job /\ job.exists
  <2>1. Ended(status)
    BY <1>1, <1>2 DEF JobRecorded, Decided, Ended, StepStatus, StepPhase, status
  <2>2. job.cond = Condition(status.phase)
    BY <1>1, <1>2, <2>1 DEF Backed
  <2>3. DetermineStepPhase(job, status.phase) = status.phase
    BY <2>1, <2>2 DEF DetermineStepPhase, Condition, Ended
  <2>4. [status EXCEPT !.phase = status.phase] = status
    BY <1>1 DEF StepStatus
  <2> QED
    BY <1>2, <2>3, <2>4 DEF RefreshStatus, status
<1>3. CASE ~ (status.job /\ job.exists)
  BY <1>3 DEF RefreshStatus, status
<1> QED
  BY <1>2, <1>3

\* In a pipeline that is over everything is decided.
LEMMA OverIsDecided ==
  ASSUME NEW phase \in TerminalPhase, NEW spec, NEW steps, FitsSpec(phase, spec, steps),
         NEW i \in DOMAIN steps
  PROVE  Decided(steps[i])
BY DEF FitsSpec, PhaseFits, Decided, AnyStep, TerminalPhase

\* Where nothing runs any more, a refresh makes the later list of the earlier one.
LEMMA SeenAsAll ==
  ASSUME NEW phase \in TerminalPhase, NEW spec, NEW steps \in Seq(StepStatus), NEW later \in Seq(StepStatus),
         FitsSpec(phase, spec, later), SeenAs(steps, later, jobCache)
  PROVE  RefreshStatuses(steps, jobCache) = later
<1>1. \A i \in DOMAIN later : RefreshStatus(steps[i], jobCache[steps[i].name]) = later[i]
  BY OverIsDecided DEF SeenAs
<1>2. DOMAIN steps = DOMAIN later
  BY DEF SeenAs
<1>3. later = [i \in DOMAIN later |-> later[i]]
  OBVIOUS
<1> QED
  BY <1>1, <1>2, <1>3 DEF RefreshStatuses

\* Computed again from the same steps, the phase is terminal again.
LEMMA OverAgain ==
  ASSUME NEW phase \in TerminalPhase, NEW p, p.steps \in Seq(StepStatus), FitsSpec(phase, p.spec, p.steps)
  PROVE  NextPipelinePhase(p) \in TerminalPhase
<1> DEFINE q == [phase |-> phase, spec |-> p.spec, steps |-> p.steps]
<1>1. PhaseFits(q) /\ q.phase = phase /\ q.steps = p.steps /\ q.spec = p.spec
  BY DEF FitsSpec
<1> HIDE DEF q
<1>2. Alike(q, p)
  BY <1>1 DEF Alike
<1>3. \A name : StatusPhase(p, name) = StatusPhase(q, name)
  BY <1>1, <1>2, AlikeStatus
<1>4. HasPendingFailureHandlers(p) <=> HasPendingFailureHandlers(q)
  BY <1>1, <1>3 DEF HasPendingFailureHandlers
<1>5. CASE phase = "Succeeded"
  <2>1. AllSucceeded(p) /\ ~ AnyStep(p, "Suspended") /\ ~ AnyStep(p, "Failed")
    BY <1>1, <1>5 DEF PhaseFits, AllSucceeded, AnyStep
  <2> QED
    BY <2>1 DEF NextPipelinePhase, TerminalPhase
<1>6. CASE phase = "Failed"
  <2>1. AnyStep(p, "Failed") /\ ~ AnyStep(p, "Running") /\ ~ AnyStep(p, "Suspended")
    BY <1>1, <1>6 DEF PhaseFits, AnyStep
  <2>2. ~ HandlersPending(p)
    BY <1>1, <1>4, <1>6 DEF PhaseFits, HandlersPending
  <2> QED
    BY <2>1, <2>2 DEF NextPipelinePhase, TerminalPhase
<1> QED
  BY <1>5, <1>6 DEF TerminalPhase

----------------------------------------------------------------------------
\* What is undisturbed was undisturbed.
LEMMA UndisturbedBefore ==
  ASSUME TypeOK, DeletionInv, CopyInv, OnceInv, [Next]_vars, Undisturbed'
  PROVE  Undisturbed
BY OverStays, CacheSteps DEF Undisturbed

\* No pass is under way at first, and the pipeline is not over.
LEMMA InitFinal == Init => SupportInv /\ SettledInv
<1> SUFFICES ASSUME Init PROVE SupportInv /\ SettledInv
  OBVIOUS
<1>1. PICK spec \in Specs : server = NewPipeline(spec)
  BY DEF Init
<1>2. server.phase = "" /\ pc = "idle"
  BY <1>1 DEF Init, NewPipeline
<1> QED
  BY <1>2 DEF SupportInv, UpToDate, SettledInv, TerminalPhase

\* The statuses of the object and its copies, for the lemmas above.
LEMMA ListTypes ==
  ASSUME TypeOK, CopyInv, OutcomeInv, Vanished = 0
  PROVE  /\ server.steps \in Seq(StepStatus) /\ cache.steps \in Seq(StepStatus) /\ local.steps \in Seq(StepStatus)
         /\ AllBacked(server.steps) /\ AllBacked(cache.steps) /\ AllBacked(local.steps)
         /\ \A i \in DOMAIN server.steps : JobRecorded(server.steps[i])
         /\ \A i \in DOMAIN cache.steps : JobRecorded(cache.steps[i])
         /\ pc # "markRunning" => \A i \in DOMAIN local.steps : JobRecorded(local.steps[i])
BY DEF TypeOK, Pipeline, CopyInv, JobsRecorded, AsStored, OutcomeInv, StatusesBacked

\* SupportInv is inductive.
LEMMA NextSupport ==
  TypeOK /\ DeletionInv /\ CopyInv /\ OnceInv /\ OutcomeInv /\ SupportInv /\ [Next]_vars => SupportInv'
<1> SUFFICES ASSUME TypeOK, DeletionInv, CopyInv, OnceInv, OutcomeInv, SupportInv, [Next]_vars, UpToDate'
             PROVE  SupportInv'
  BY DEF SupportInv
<1> USE DEF objects, caches, pass
<1>1. local \in Pipeline /\ server \in Pipeline /\ server.rv \in Nat /\ local.rv \in Nat
  BY DEF TypeOK, Pipeline
<1>2. Accepted /\ pc # "idle" => UpToDate
  BY DEF Accepted, UpToDate
<1>3. UpToDate => /\ cache.spec = local.spec /\ local.spec = server.spec
                  /\ pc # "markRunning" => local.steps = server.steps
  BY DEF SupportInv, CopyInv, CopyAgrees, AsStored
<1>4. \A p : /\ FirstStep(p) # "updatePhase"
             /\ AfterFinalizer(p) # "updatePhase"
  BY DEF FirstStep, AfterFinalizer
<1>5. CASE Reconcile
  BY <1>4, <1>5 DEF Reconcile, SupportInv
<1>6. CASE Refused \/ InitializePhase \/ FinishPass \/ Panic \/ RemoveFinalizer \/ Interrupt
  BY <1>6 DEF Refused, InitializePhase, FinishPass, Panic, RemoveFinalizer, Interrupt, EndPass, UpToDate
<1>7. CASE AddFinalizer /\ ~ Refused
  <2>1. /\ pc = "addFinalizer" /\ Accepted /\ UNCHANGED caches /\ pc' = AfterFinalizer(local)
        /\ local'.steps = local.steps /\ local'.spec = local.spec
    BY <1>1, <1>7 DEF AddFinalizer, Write, Pipeline
  <2> QED
    BY <1>2, <1>4, <2>1 DEF SupportInv
<1>8. CASE InitializeStepStatuses /\ ~ Refused
  <2>1. /\ pc = "initializeSteps" /\ Accepted /\ UNCHANGED caches /\ pc' = "updateSteps"
        /\ local'.spec = local.spec
    BY <1>1, <1>8 DEF InitializeStepStatuses, Write, Pipeline
  <2>2. local.steps = <<>>
    BY <2>1 DEF CopyInv, PassOrder, StepFits
  <2> QED
    BY <1>2, <2>1, <2>2 DEF SupportInv
<1>9. CASE UpdateStepStatuses /\ ~ Refused
  <2> DEFINE steps == RefreshStatuses(local.steps, jobCache)
  <2>1. /\ pc = "updateSteps" /\ UNCHANGED caches /\ pc' = "updatePhase"
        /\ local'.steps = steps /\ local'.spec = local.spec
        /\ Accepted \/ (local' = local /\ server' = server)
    BY <1>1, <1>9 DEF UpdateStepStatuses, Write, Pipeline
  <2>2. UpToDate
    BY <1>2, <2>1 DEF UpToDate
  <2>3. cache.steps \in {<<>>, local.steps} /\ cache.spec = local.spec
    BY <2>1, <2>2 DEF SupportInv
  <2>4. cache.steps = local.steps => SeenAs(cache.steps, steps, jobCache)
    BY DEF SeenAs, RefreshStatuses
  <2> QED
    BY <2>1, <2>3, <2>4 DEF SupportInv
<1>10. CASE UpdatePipelinePhase /\ ~ Refused
  <2> DEFINE p == WithPhase(local)
             q == [p EXCEPT !.rv = server.rv + 1]
  <2>1. p \in Pipeline /\ p.spec = local.spec /\ p.rv = local.rv /\ pc = "updatePhase"
    BY <1>1, <1>10, WithPhaseType DEF UpdatePipelinePhase, WithPhase, UpdateConditions, Pipeline
  <2>2. q.spec = local.spec
    BY <2>1 DEF Pipeline
  <2>3. /\ UNCHANGED <<cache, jobCache>>
        /\ \/ pc' = "idle"
           \/ pc' = "startSteps" /\ server' = server /\ local' = p
           \/ pc' = "startSteps" /\ Accepted /\ local' = q
    BY <1>10, Zenon DEF UpdatePipelinePhase, PhaseEndsPass, EndPass
  <2> HIDE DEF p, q
  <2>4. pc' # "idle"
    BY DEF UpToDate
  <2>5. UpToDate /\ local'.spec = local.spec /\ pc' = "startSteps"
    BY <1>2, <2>1, <2>2, <2>3, <2>4 DEF UpToDate
  <2> QED
    BY <2>3, <2>5 DEF SupportInv
<1>11. CASE (SkipStep \/ CreateJobForStep \/ MarkRunning) /\ ~ Refused
  <2>1. pc' # "idle" /\ pc \in {"startSteps", "markRunning"}
    BY <1>11 DEF UpToDate, SkipStep, CreateJobForStep, MarkRunning
  <2>2. /\ pc' \in {"startSteps", "markRunning"} /\ UNCHANGED caches
        /\ local'.spec = local.spec
        /\ Accepted \/ (server' = server /\ local'.rv = local.rv)
    BY <1>1, <1>11, <2>1 DEF SkipStep, CreateJobForStep, MarkRunning, Write, EndPass, Pipeline
  <2>3. UpToDate
    BY <1>2, <2>1, <2>2 DEF UpToDate
  <2> QED
    BY <2>2, <2>3 DEF SupportInv
<1>12. CASE DeleteJob
  <2>1. pc = "deleteJobs" /\ UNCHANGED <<server, caches>> /\ (pc' = "idle" \/ UNCHANGED <<pc, local>>)
    BY <1>12 DEF DeleteJob, EndPass
  <2> QED
    BY <2>1 DEF UpToDate, SupportInv
<1>13. CASE TouchPipeline \/ EditSpec \/ DeletePipeline
  <2>1. server'.rv = server.rv + 1 /\ UNCHANGED pass
    BY <1>1, <1>13 DEF TouchPipeline, EditSpec, DeletePipeline, Pipeline
  <2>2. pc # "idle" /\ local.rv <= server.rv
    BY <2>1 DEF UpToDate, CopyInv, CopyAgrees
  <2> QED
    BY <1>1, <2>1, <2>2 DEF UpToDate
<1>14. CASE SyncPipeline
  <2>1. cache' = server /\ UNCHANGED <<server, jobCache, pass>> /\ UpToDate
    BY <1>14 DEF SyncPipeline, UpToDate
  <2>2. ASSUME pc = "updatePhase", Undisturbed' PROVE SeenAs(server.steps, local.steps, jobCache)
    <3>1. Vanished = 0
      BY <2>2, UndisturbedBefore DEF Undisturbed
    <3> QED
      BY <1>3, <2>1, <2>2, <3>1, ListTypes, SeenAsItself
  <2> QED
    BY <1>3, <2>1, <2>2 DEF SupportInv
<1>15. ASSUME NEW n \in StepName, SyncJob(n) PROVE SupportInv'
  <2>1. /\ UNCHANGED <<server, cache, pass>> /\ UpToDate
        /\ jobCache' = [jobCache EXCEPT ![n] = jobs[n]]
    BY <1>15 DEF SyncJob, UpToDate
  <2>2. ASSUME pc = "updatePhase", Undisturbed', cache.steps # <<>>
        PROVE  SeenAs(cache.steps, local.steps, jobCache')
    <3>1. Undisturbed
      BY <2>2, UndisturbedBefore
    <3>2. Vanished = 0 /\ ~ Over /\ JobsKept
      BY <3>1 DEF Undisturbed, OnceInv
    <3>3. SeenAs(cache.steps, local.steps, jobCache)
      BY <2>1, <2>2, <3>1 DEF SupportInv
    <3> QED
      BY <2>1, <3>2, <3>3, ListTypes, SeenAsSynced
  <2> QED
    BY <2>1, <2>2 DEF SupportInv
<1>16. CASE \/ UNCHANGED vars
            \/ \E n \in StepName : JobControllerStep(n) \/ SuspendJob(n) \/ ResumeJob(n) \/ RemoveJob(n)
  <2>1. UNCHANGED <<server, caches, pass>>
    BY <1>16 DEF vars, JobControllerStep, SuspendJob, ResumeJob, RemoveJob
  <2> QED
    BY <2>1, UndisturbedBefore DEF SupportInv, UpToDate
<1> QED
  BY <1>5, <1>6, <1>7, <1>8, <1>9, <1>10, <1>11, <1>12, <1>13, <1>14, <1>15, <1>16
     DEF Next, ReconcilerStep, Environment

\* SettledInv is inductive.
LEMMA NextSettled ==
  TypeOK /\ DeletionInv /\ CopyInv /\ OnceInv /\ OutcomeInv /\ SupportInv /\ SettledInv /\ [Next]_vars
    => SettledInv'
<1> SUFFICES ASSUME TypeOK, DeletionInv, CopyInv, OnceInv, OutcomeInv, SupportInv, SettledInv, [Next]_vars,
                    Undisturbed', server'.phase \in TerminalPhase
             PROVE  SettledInv'
  BY DEF SettledInv
<1> USE DEF objects, caches, pass
<1>1. Undisturbed /\ Vanished = 0 /\ ~ Over /\ JobsKept
  BY UndisturbedBefore DEF Undisturbed, OnceInv
<1>2. CASE server.phase \notin TerminalPhase
  <2>1. /\ pc = "updatePhase" /\ Accepted /\ UNCHANGED caches /\ pc' = "idle"
        /\ server'.steps = local.steps
        /\ FitsSpec(server'.phase, local.spec, local.steps)
    BY <1>2, TerminalBegins
  <2>2. UpToDate
    BY <2>1 DEF Accepted, UpToDate
  <2>3. cache.spec = local.spec /\ (cache.steps = <<>> \/ SeenAs(cache.steps, local.steps, jobCache))
    BY <1>1, <2>1, <2>2 DEF SupportInv
  <2> QED
    BY <2>1, <2>3 DEF SettledInv
<1>3. CASE server.phase \in TerminalPhase
  <2> DEFINE Seen(steps, spec) == /\ SeenAs(steps, server.steps, jobCache)
                                  /\ FitsSpec(server.phase, spec, server.steps)
  <2>1. server'.phase = server.phase /\ server'.steps = server.steps
    BY <1>3, TerminalKept DEF StatusKept
  <2>2. /\ pc \notin {"startSteps", "markRunning"}
        /\ cache.phase \in TerminalPhase \cup {""} \/ cache.steps = <<>> \/ Seen(cache.steps, cache.spec)
        /\ pc = "updateSteps" => Seen(local.steps, local.spec)
        /\ pc = "updatePhase" => local.steps = server.steps /\ FitsSpec(server.phase, local.spec, server.steps)
    BY <1>1, <1>3 DEF SettledInv
  <2>3. ~ (Accepted /\ pc \in Starting)
    BY <1>3, StartingIsOpen
  <2>4. server.steps \in Seq(StepStatus) /\ cache.steps \in Seq(StepStatus) /\ local.steps \in Seq(StepStatus)
    BY <1>1, ListTypes
  <2>5. ASSUME UNCHANGED caches, pc' \in {"idle", "deleteJobs"}
        PROVE  SettledInv'
    BY <2>1, <2>2, <2>5 DEF SettledInv
  <2>6. ASSUME UNCHANGED <<caches, pc, local>>
        PROVE  SettledInv'
    BY <2>1, <2>2, <2>6 DEF SettledInv
  <2>7. CASE Reconcile
    <3>1. /\ UNCHANGED caches /\ local' = cache /\ pc' = FirstStep(cache)
          /\ pc' \notin {"startSteps", "markRunning", "updatePhase"}
      BY <2>7 DEF Reconcile, FirstStep, AfterFinalizer
    <3>2. pc' = "updateSteps" => cache.phase \notin TerminalPhase \cup {""} /\ cache.steps # <<>>
      BY <3>1 DEF FirstStep, AfterFinalizer
    <3> QED
      BY <2>1, <2>2, <3>1, <3>2 DEF SettledInv
  <2>8. CASE Refused \/ FinishPass \/ Panic \/ Interrupt \/ RemoveFinalizer \/ DeleteJob
    BY <2>5, <2>8 DEF Refused, FinishPass, Panic, Interrupt, RemoveFinalizer, DeleteJob, EndPass
  <2>9. CASE AddFinalizer /\ ~ Refused
    <3>1. pc = "addFinalizer" /\ Accepted /\ UNCHANGED caches /\ pc' = AfterFinalizer(local)
      BY <2>9 DEF AddFinalizer
    <3>2. local.phase = server.phase
      BY <3>1 DEF CopyInv, CopyAgrees, UpToDate, Accepted
    <3>3. pc' = "idle"
      BY <1>3, <3>1, <3>2 DEF AfterFinalizer, TerminalPhase
    <3> QED
      BY <2>5, <3>1, <3>3
  <2>10. CASE (InitializePhase \/ InitializeStepStatuses \/ SkipStep \/ CreateJobForStep \/ MarkRunning) /\ ~ Refused
    BY <2>2, <2>3, <2>10 DEF InitializePhase, InitializeStepStatuses, SkipStep, CreateJobForStep, MarkRunning,
                             Starting, PassStep
  <2>11. CASE UpdateStepStatuses /\ ~ Refused
    <3>1. pc = "updateSteps" /\ ~ Accepted
      BY <2>3, <2>11 DEF UpdateStepStatuses, Starting, PassStep
    <3>2. /\ RefreshStatuses(local.steps, jobCache) = local.steps
          /\ pc' = "updatePhase" /\ UNCHANGED <<caches, local>>
      BY <2>11, <3>1 DEF UpdateStepStatuses
    <3>3. local.steps = server.steps /\ FitsSpec(server.phase, local.spec, server.steps)
      BY <1>3, <2>2, <2>4, <3>1, <3>2, SeenAsAll
    <3> QED
      BY <2>1, <2>2, <3>2, <3>3 DEF SettledInv
  <2>12. CASE UpdatePipelinePhase /\ ~ Refused
    <3>1. pc = "updatePhase" /\ ~ Accepted
      BY <2>3, <2>12 DEF UpdatePipelinePhase, Starting, PassStep
    <3>2. NextPipelinePhase(local) \in TerminalPhase
      BY <1>3, <2>2, <2>4, <3>1, OverAgain
    <3>3. WithPhase(local).phase = NextPipelinePhase(local)
      BY WithPhaseType DEF TypeOK
    <3>4. UNCHANGED caches /\ pc' = "idle"
      BY <2>12, <3>1, <3>2, <3>3, Zenon DEF UpdatePipelinePhase, PhaseEndsPass, EndPass
    <3> QED
      BY <2>5, <3>4
  <2>13. CASE SyncPipeline
    <3>1. cache' = server /\ UNCHANGED <<pc, local, jobCache>>
      BY <2>13 DEF SyncPipeline
    <3> QED
      BY <1>3, <2>1, <2>2, <3>1 DEF SettledInv
  <2>14. ASSUME NEW n \in StepName, SyncJob(n) PROVE SettledInv'
    <3>1. UNCHANGED <<cache, pc, local>> /\ jobCache' = [jobCache EXCEPT ![n] = jobs[n]]
      BY <2>14 DEF SyncJob
    <3>2. SeenAs(cache.steps, server.steps, jobCache) => SeenAs(cache.steps, server.steps, jobCache')
      BY <1>1, <3>1, ListTypes, SeenAsSynced
    <3>3. pc = "updateSteps" =>
            (SeenAs(local.steps, server.steps, jobCache) => SeenAs(local.steps, server.steps, jobCache'))
      BY <1>1, <3>1, ListTypes, SeenAsSynced
    <3> QED
      BY <2>1, <2>2, <3>1, <3>2, <3>3 DEF SettledInv
  <2>15. CASE \/ TouchPipeline \/ EditSpec \/ DeletePipeline \/ UNCHANGED vars
              \/ \E n \in StepName : JobControllerStep(n) \/ SuspendJob(n) \/ ResumeJob(n) \/ RemoveJob(n)
    BY <2>6, <2>15 DEF TouchPipeline, EditSpec, DeletePipeline, vars, JobControllerStep, SuspendJob, ResumeJob,
                       RemoveJob
  <2> QED
    BY <2>7, <2>8, <2>9, <2>10, <2>11, <2>12, <2>13, <2>14, <2>15 DEF Next, ReconcilerStep, Environment
<1> QED
  BY <1>2, <1>3

FinalInv ==
  /\ TypeOK /\ DeletionInv /\ CopyInv /\ OnceInv /\ OutcomeInv
  /\ SupportInv /\ SettledInv

\* What a step may change of a pipeline that is over.
LEMMA TerminalStep ==
  ASSUME FinalInv, [Next]_vars, server.phase \in TerminalPhase
  PROVE  /\ server'.phase = server.phase /\ server'.steps = server.steps
         /\ Vanished = 0 => created' = created
<1> USE DEF FinalInv
<1>1. StatusKept
  BY TerminalKept
<1>2. ASSUME Vanished = 0, created' # created PROVE FALSE
  <2>1. Next
    BY <1>2 DEF vars
  <2>2. pc \in Starting
    BY <1>2, <2>1, CreationNeedsAPass
  <2>3. ~ Over
    BY <2>2 DEF Over, Winding, DeletionInv, GoneForGood
  <2>4. pc # "startSteps"
    BY <1>2, <2>3 DEF SettledInv, Undisturbed
  <2>5. PICK n \in StepName : created'[n] # created[n]
    <3>1. created \in [StepName -> Nat] /\ created' \in [StepName -> Nat]
      BY NextType DEF TypeOK
    <3> QED
      BY <1>2, <3>1
  <2> QED
    BY <2>4, <2>5, CreatedWhenReady
<1> QED
  BY <1>1, <1>2 DEF StatusKept

\* A terminal pipeline is over: its status never changes, whatever is
\* edited, removed, deleted or cut short, and, as long as no job of it was
\* removed, it gets no job any more, not even from a pass that began on a
\* copy from before its end (Reconcile).
THEOREM TerminalPipelineIsOver == Spec => TerminalIsFinal
<1>1. Init => FinalInv
  BY InitType, InitDeletion, InitCopy, InitOnce, InitOutcome, InitFinal DEF FinalInv
<1>2. FinalInv /\ [Next]_vars => FinalInv'
  BY NextType, NextDeletion, NextCopy, NextOnce, NextOutcome, NextSupport, NextSettled DEF FinalInv
<1>3. FinalInv /\ [Next]_vars =>
        [server.phase \in TerminalPhase =>
           /\ server'.phase = server.phase /\ server'.steps = server.steps
           /\ Vanished = 0 => created' = created]_vars
  BY TerminalStep
<1> QED
  BY <1>1, <1>2, <1>3, PTL DEF Spec, TerminalIsFinal
=============================================================================
