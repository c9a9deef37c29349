------------------------- MODULE PipelineController -------------------------
(***************************************************************************)
(* The life of one Pipeline object under the operator of jobrunner         *)
(* (internal/controller): the reconcile loop, one API call at a time, the  *)
(* API server with optimistic concurrency on the resource version, the     *)
(* informer caches the loop reads, the job controller, the garbage         *)
(* collector, and the users who edit, suspend, remove and delete objects.  *)
(*                                                                         *)
(* One reconcile pass is a chain of steps named by pc.  A step ends with   *)
(* the API call that other processes can see; what precedes it in the code *)
(* is local.  Reads of the caches are placed in the step of the write that *)
(* follows them: a cache moves only forward, so reading it later is        *)
(* reading it after the move.                                              *)
(***************************************************************************)
EXTENDS PipelineState

CONSTANTS
  Specs,                   \* the specs users write, sequences of PipelineStep
  MaxFaults                \* how often each kind of outside event may happen, by spec

\* touch: an edit of the object's metadata; spec: an edit of its spec;
\* delete: kubectl delete pipeline; suspend: a job suspended by a user;
\* remove: a job deleted by a user or by its ttlSecondsAfterFinished;
\* interrupt: a pass cut short by a crash, a lost lease or a failed call.
FaultKind == {"touch", "spec", "delete", "suspend", "remove", "interrupt"}

ASSUME SpecsAssumption  == Specs \subseteq Seq(PipelineStep) \ {<<>>}
ASSUME FaultsAssumption == MaxFaults \in [Specs -> [FaultKind -> Nat]]

VARIABLES
  server,                  \* the Pipeline stored by the API server
  cache,                   \* the informer's copy of it
  jobs,                    \* the jobs of the API server, by step name
  jobCache,                \* the informer's copies of them
  pc,                      \* the next step of the reconcile pass, or "idle"
  local,                   \* the pass's own copy of the Pipeline
  cursor,                  \* the index startReadySteps has reached
  doomed,                  \* the jobs reconcileDelete has listed, not yet deleted
  created,                 \* how many jobs were ever created for each step
  faults                   \* how many events of each kind have happened

objects   == <<server, jobs>>
caches    == <<cache, jobCache>>
pass      == <<pc, local, cursor, doomed>>
vars      == <<server, cache, jobs, jobCache, pc, local, cursor, doomed, created, faults>>

----------------------------------------------------------------------------
Pipeline ==
  [rv : Nat, exists : BOOLEAN, finalizer : BOOLEAN, deleting : BOOLEAN,
   spec : Specs, phase : PipelinePhase, steps : Seq(StepStatus),
   completed : BOOLEAN, ready : ReadyCondition]

NewPipeline(spec) ==
  [rv |-> 1, exists |-> TRUE, finalizer |-> FALSE, deleting |-> FALSE,
   spec |-> spec, phase |-> "", steps |-> <<>>,
   completed |-> FALSE, ready |-> NoCondition]

PassStep ==
  {"idle", "addFinalizer", "initializePhase", "initializeSteps", "updateSteps",
   "updatePhase", "startSteps", "markRunning", "deleteJobs"}

\* What a pass between two runs holds: nothing it will read again.
Blank == NewPipeline(CHOOSE s \in Specs : TRUE)

Init ==
  /\ \E spec \in Specs : server = NewPipeline(spec)
  /\ cache = [server EXCEPT !.rv = 0, !.exists = FALSE]
  /\ jobs = [n \in StepName |-> NoJob]
  /\ jobCache = [n \in StepName |-> NoJob]
  /\ pc = "idle" /\ local = Blank /\ cursor = 1 /\ doomed = {}
  /\ created = [n \in StepName |-> 0]
  /\ faults = [kind \in FaultKind |-> 0]

----------------------------------------------------------------------------
(* One reconcile pass.                                                     *)

EndPass == pc' = "idle" /\ local' = Blank /\ cursor' = 1 /\ doomed' = {}

\* r.Update and r.Status().Update: the API server takes the write if the
\* object is still at the resource version the pass read, and refuses it
\* (conflict or not found) otherwise, which ends the pass with an error.
\* Mutant: the last writer wins.
AcceptedAtAnyVersion == server.exists

Accepted == server.exists /\ server.rv = local.rv

Write(p) == server' = [p EXCEPT !.rv = server.rv + 1] /\ local' = server'

Refused ==
  /\ ~ Accepted
  /\ EndPass /\ UNCHANGED <<objects, caches, created, faults>>

\* Mutant: a suspended pipeline is taken for a completed one.
AfterFinalizerStopping(p) ==
  CASE p.phase = "" -> "initializePhase"
    [] p.phase \in TerminalPhase \cup {"Suspended"} -> "idle"
    [] OTHER -> IF p.steps = <<>> THEN "initializeSteps" ELSE "updateSteps"

\* Where a pass goes once the object has its finalizer.
AfterFinalizer(p) ==
  CASE p.phase = ""             -> "initializePhase"
    [] p.phase \in TerminalPhase -> "idle"
    [] OTHER                    -> IF p.steps = <<>> THEN "initializeSteps" ELSE "updateSteps"

\* Mutants: the finalizer is forgotten; completion is looked at before
\* deletion.
FirstStepUnguarded(p) ==
  CASE p.deleting    -> IF p.finalizer THEN "deleteJobs" ELSE "idle"
    [] ~ p.deleting  -> AfterFinalizer(p)

FirstStepCompletedFirst(p) ==
  CASE p.phase \in TerminalPhase -> "idle"
    [] p.deleting /\ p.phase \notin TerminalPhase -> IF p.finalizer THEN "deleteJobs" ELSE "idle"
    [] OTHER -> IF p.finalizer THEN AfterFinalizer(p) ELSE "addFinalizer"

FirstStep(p) ==
  CASE p.deleting    -> IF p.finalizer THEN "deleteJobs" ELSE "idle"
    [] ~ p.deleting  -> IF p.finalizer THEN AfterFinalizer(p) ELSE "addFinalizer"

\* A pass starts from the informer's copy.  The requeue after ten seconds,
\* the watches and the retries after an error keep it starting as long as
\* there is something to do.
Reconcile ==
  /\ pc = "idle" /\ cache.exists /\ FirstStep(cache) # "idle"
  /\ pc' = FirstStep(cache) /\ local' = cache /\ cursor' = 1
  /\ doomed' = IF cache.deleting THEN {n \in StepName : jobCache[n].exists} ELSE {}
  /\ UNCHANGED <<objects, caches, created, faults>>

AddFinalizer ==
  /\ pc = "addFinalizer"
  /\ \/ /\ Accepted
        /\ Write([local EXCEPT !.finalizer = TRUE])
        /\ pc' = AfterFinalizer(local)
        /\ UNCHANGED <<caches, jobs, cursor, doomed, created, faults>>
     \/ Refused

InitializePhase ==
  /\ pc = "initializePhase"
  /\ \/ /\ Accepted
        /\ server' = [local EXCEPT !.phase = "Pending", !.rv = server.rv + 1]
        /\ EndPass
        /\ UNCHANGED <<caches, jobs, created, faults>>
     \/ Refused

InitializeStepStatuses ==
  /\ pc = "initializeSteps"
  /\ \/ /\ Accepted
        /\ Write([local EXCEPT !.steps = InitialStatuses(local.spec)])
        /\ pc' = "updateSteps"
        /\ UNCHANGED <<caches, jobs, cursor, doomed, created, faults>>
     \/ Refused

\* Every job is looked up in the informer's cache; the status is written
\* only if a phase changed.
UpdateStepStatuses ==
  /\ pc = "updateSteps"
  /\ LET steps == RefreshStatuses(local.steps, jobCache)
     IN  \/ /\ steps = local.steps
            /\ pc' = "updatePhase"
            /\ UNCHANGED <<objects, caches, local, cursor, doomed, created, faults>>
         \/ /\ steps # local.steps /\ Accepted
            /\ Write([local EXCEPT !.steps = steps])
            /\ pc' = "updatePhase"
            /\ UNCHANGED <<caches, jobs, cursor, doomed, created, faults>>
         \/ steps # local.steps /\ Refused

\* Mutant: the early return is missing.
PhaseNeverEndsPass(p) == FALSE

\* "If pipeline is complete, no need to requeue"; a suspended one goes on.
PhaseEndsPass(p) == p.phase \in TerminalPhase

\* The Ready condition is recomputed on every pass but written only with a
\* change of phase.
UpdatePipelinePhase ==
  /\ pc = "updatePhase" /\ ~ AnalysisPanics(local)
  /\ LET p == WithPhase(local)
         Continue(q) == IF PhaseEndsPass(p) THEN EndPass
                        ELSE local' = q /\ pc' = "startSteps" /\ UNCHANGED <<cursor, doomed>>
     IN  \/ /\ p.phase = local.phase
            /\ Continue(p)
            /\ UNCHANGED <<objects, caches, created, faults>>
         \/ /\ p.phase # local.phase /\ Accepted
            /\ server' = [p EXCEPT !.rv = server.rv + 1]
            /\ Continue(server')
            /\ UNCHANGED <<caches, jobs, created, faults>>
         \/ p.phase # local.phase /\ Refused

----------------------------------------------------------------------------
(* startReadySteps: the loop over spec.steps from the cursor on.  Steps    *)
(* that are not pending or have to wait are passed over without a call.    *)

StepVerdict(i) ==
  LET step == local.spec[i]
  IN  CASE StatusPhase(local, step.name) = "nil"     -> "panic"
        [] StatusPhase(local, step.name) = "Pending" -> AreDependenciesSatisfied(local, step)
        [] OTHER                                     -> "wait"

Actionable == {i \in DOMAIN local.spec : i >= cursor /\ StepVerdict(i) # "wait"}

\* i is the next step the loop does something about.
Reaches(i) == i \in Actionable /\ i = Least(Actionable)

CurrentStatus(i) == StatusIndex(local, local.spec[i].name)

SkipStep ==
  /\ pc = "startSteps"
  /\ \E i \in Actionable :
       /\ Reaches(i) /\ StepVerdict(i) = "skip"
       /\ \/ /\ Accepted
             /\ Write([local EXCEPT !.steps[CurrentStatus(i)].phase = "Skipped"])
             /\ cursor' = i + 1
             /\ UNCHANGED <<caches, jobs, pc, doomed, created, faults>>
          \/ Refused

\* Mutant: every job gets a name of its own.
NameNeverTaken(name) == FALSE

NameTaken(name) == jobs[name].exists

\* The create fails if a job of that name exists; the pass then ends with
\* an error and the step stays as it is.
CreateJobForStep ==
  /\ pc = "startSteps"
  /\ \E i \in Actionable :
       LET step == local.spec[i]
       IN  /\ Reaches(i) /\ StepVerdict(i) = "ready"
           /\ \/ /\ ~ NameTaken(step.name)
                 /\ jobs' = [jobs EXCEPT ![step.name] =
                               [NoJob EXCEPT !.exists = TRUE, !.suspend = step.suspend]]
                 /\ created' = [created EXCEPT ![step.name] = @ + 1]
                 /\ local' = [local EXCEPT !.steps[CurrentStatus(i)].job = TRUE]
                 /\ cursor' = i /\ pc' = "markRunning"
                 /\ UNCHANGED <<server, caches, doomed, faults>>
              \/ /\ NameTaken(step.name)
                 /\ EndPass /\ UNCHANGED <<objects, caches, created, faults>>

\* The second call of the pair: the created job is recorded in the status.
MarkRunning ==
  /\ pc = "markRunning"
  /\ \/ /\ Accepted
        /\ Write([local EXCEPT !.steps[CurrentStatus(cursor)].phase = "Running"])
        /\ cursor' = cursor + 1 /\ pc' = "startSteps"
        /\ UNCHANGED <<caches, jobs, doomed, created, faults>>
     \/ Refused

FinishPass ==
  /\ pc = "startSteps" /\ Actionable = {}
  /\ EndPass /\ UNCHANGED <<objects, caches, created, faults>>

\* A nil dereference is recovered by the controller runtime: the pass ends
\* with an error.
Panic ==
  /\ \/ pc = "updatePhase" /\ AnalysisPanics(local)
     \/ pc = "startSteps" /\ \E i \in Actionable : Reaches(i) /\ StepVerdict(i) = "panic"
  /\ EndPass /\ UNCHANGED <<objects, caches, created, faults>>

----------------------------------------------------------------------------
(* reconcileDelete: the listed jobs are deleted one by one, then the       *)
(* finalizer is removed, which lets the object go.                         *)

DeleteJob ==
  /\ pc = "deleteJobs"
  /\ \E n \in doomed :
       \/ /\ jobs[n].exists
          /\ jobs' = [jobs EXCEPT ![n] = NoJob]
          /\ doomed' = doomed \ {n}
          /\ UNCHANGED <<server, caches, pc, local, cursor, created, faults>>
       \/ /\ ~ jobs[n].exists
          /\ EndPass /\ UNCHANGED <<objects, caches, created, faults>>

RemoveFinalizer ==
  /\ pc = "deleteJobs" /\ doomed = {}
  /\ \/ /\ Accepted
        /\ server' = [local EXCEPT !.finalizer = FALSE, !.exists = FALSE, !.rv = server.rv + 1]
        /\ EndPass
        /\ UNCHANGED <<caches, jobs, created, faults>>
     \/ Refused

ReconcilerStep ==
  \/ Reconcile \/ AddFinalizer \/ InitializePhase
  \/ InitializeStepStatuses \/ UpdateStepStatuses \/ UpdatePipelinePhase
  \/ SkipStep \/ CreateJobForStep \/ MarkRunning \/ FinishPass \/ Panic
  \/ DeleteJob \/ RemoveFinalizer

----------------------------------------------------------------------------
(* The job controller and the garbage collector.                           *)

JobStarts(n) ==
  /\ jobs[n].exists /\ ~ jobs[n].suspend /\ jobs[n].cond = "None" /\ ~ jobs[n].active
  /\ jobs' = [jobs EXCEPT ![n].active = TRUE]

JobFinishes(n) ==
  /\ jobs[n].exists /\ jobs[n].active
  /\ \E c \in {"Complete", "Failed"} :
       jobs' = [jobs EXCEPT ![n] = [@ EXCEPT !.active = FALSE, !.cond = c]]

JobSuspends(n) ==
  /\ jobs[n].exists /\ jobs[n].suspend /\ jobs[n].cond = "None"
  /\ jobs' = [jobs EXCEPT ![n] = [@ EXCEPT !.active = FALSE, !.cond = "Suspended"]]

JobResumes(n) ==
  /\ jobs[n].exists /\ ~ jobs[n].suspend /\ jobs[n].cond = "Suspended"
  /\ jobs' = [jobs EXCEPT ![n].cond = "None"]

\* The jobs of a pipeline that is gone are collected by owner reference.
GarbageCollect(n) ==
  /\ ~ server.exists /\ jobs[n].exists
  /\ jobs' = [jobs EXCEPT ![n] = NoJob]

JobControllerStep(n) ==
  /\ JobStarts(n) \/ JobFinishes(n) \/ JobSuspends(n) \/ JobResumes(n) \/ GarbageCollect(n)
  /\ UNCHANGED <<server, caches, pass, created, faults>>

----------------------------------------------------------------------------
(* The informers: a cache catches up with the server some time after it    *)
(* changed, each object on its own.                                        *)

SyncPipeline ==
  /\ cache # server
  /\ cache' = server
  /\ UNCHANGED <<objects, jobCache, pass, created, faults>>

SyncJob(n) ==
  /\ jobCache[n] # jobs[n]
  /\ jobCache' = [jobCache EXCEPT ![n] = jobs[n]]
  /\ UNCHANGED <<objects, cache, pass, created, faults>>

----------------------------------------------------------------------------
(* Users and failures, each bounded by faults.                             *)

Spend(kind) == /\ faults[kind] < MaxFaults[server.spec][kind]
               /\ faults' = [faults EXCEPT ![kind] = @ + 1]

TouchPipeline ==
  /\ Spend("touch") /\ server.exists
  /\ server' = [server EXCEPT !.rv = @ + 1]
  /\ UNCHANGED <<jobs, caches, pass, created>>

EditSpec ==
  /\ Spend("spec") /\ server.exists
  /\ \E spec \in Specs \ {server.spec} : server' = [server EXCEPT !.rv = @ + 1, !.spec = spec]
  /\ UNCHANGED <<jobs, caches, pass, created>>

\* Without a finalizer the object goes at once.
DeletePipeline ==
  /\ Spend("delete") /\ server.exists /\ ~ server.deleting
  /\ server' = IF server.finalizer
               THEN [server EXCEPT !.rv = @ + 1, !.deleting = TRUE]
               ELSE [server EXCEPT !.rv = @ + 1, !.exists = FALSE]
  /\ UNCHANGED <<jobs, caches, pass, created>>

SuspendJob(n) ==
  /\ Spend("suspend") /\ jobs[n].exists /\ ~ jobs[n].suspend
  /\ jobs[n].cond = "None"
  /\ jobs' = [jobs EXCEPT ![n].suspend = TRUE]
  /\ UNCHANGED <<server, caches, pass, created>>

\* kubectl patch job -p '{"spec":{"suspend":false}}'
ResumeJob(n) ==
  /\ jobs[n].exists /\ jobs[n].suspend
  /\ jobs' = [jobs EXCEPT ![n].suspend = FALSE]
  /\ UNCHANGED <<server, caches, pass, created, faults>>

\* By hand, or by ttlSecondsAfterFinished.
RemoveJob(n) ==
  /\ Spend("remove") /\ jobs[n].exists
  /\ jobs' = [jobs EXCEPT ![n] = NoJob]
  /\ UNCHANGED <<server, caches, pass, created>>

Interrupt ==
  /\ Spend("interrupt") /\ pc # "idle"
  /\ EndPass
  /\ UNCHANGED <<objects, caches, created>>

Environment ==
  \/ SyncPipeline \/ TouchPipeline \/ EditSpec \/ DeletePipeline \/ Interrupt
  \/ \E n \in StepName : \/ SyncJob(n) \/ JobControllerStep(n)
                         \/ SuspendJob(n) \/ ResumeJob(n) \/ RemoveJob(n)

Next == ReconcilerStep \/ Environment

Spec == Init /\ [][Next]_vars

\* The workqueue retries and requeues, the watches deliver, the cluster's
\* own controllers work; users and failures promise nothing.
Fairness ==
  /\ WF_vars(ReconcilerStep)
  /\ WF_vars(SyncPipeline)
  /\ \A n \in StepName : WF_vars(SyncJob(n)) /\ WF_vars(JobControllerStep(n))

FairSpec == Spec /\ Fairness
=============================================================================
