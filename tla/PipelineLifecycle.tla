-------------------------- MODULE PipelineLifecycle --------------------------
(***************************************************************************)
(* What the operator is to its users: a scheduler that looks at the whole  *)
(* pipeline and changes it in one step.  There are no copies, versions,    *)
(* refused writes or repeated passes here, and no order in which a pass    *)
(* does things; a step that has started moves on by itself.                *)
(***************************************************************************)
EXTENDS PipelineState

CONSTANT Specs

VARIABLES
  spec,                    \* the steps the user asked for
  phase,                   \* the phase of the pipeline
  steps                    \* the statuses of its steps

lifecycle == <<spec, phase, steps>>

view == [spec |-> spec, phase |-> phase, steps |-> steps]

Init == spec \in Specs /\ phase = "" /\ steps = <<>>

Active == phase \notin TerminalPhase

Begin ==
  /\ phase = "" /\ phase' = "Pending"
  /\ UNCHANGED <<spec, steps>>

Initialize ==
  /\ Active /\ phase # "" /\ steps = <<>>
  /\ steps' = InitialStatuses(spec)
  /\ UNCHANGED <<spec, phase>>

Pending(i) == steps[StatusIndex(view, spec[i].name)].phase = "Pending"

\* A step starts when, and only when, its rule says so of the present.
Start(i) ==
  /\ Active /\ Pending(i) /\ AreDependenciesSatisfied(view, spec[i]) = "ready"
  /\ steps' = [steps EXCEPT ![StatusIndex(view, spec[i].name)] =
                 [@ EXCEPT !.phase = "Running", !.job = TRUE]]
  /\ UNCHANGED <<spec, phase>>

Skip(i) ==
  /\ Active /\ Pending(i) /\ AreDependenciesSatisfied(view, spec[i]) = "skip"
  /\ steps' = [steps EXCEPT ![StatusIndex(view, spec[i].name)].phase = "Skipped"]
  /\ UNCHANGED <<spec, phase>>

\* What a started step may become; what it became stays.
Successors(status) ==
  IF status.job /\ status.phase \notin TerminalStepPhase
  THEN {[status EXCEPT !.phase = next] : next \in {status.phase, "Running", "Suspended", "Succeeded", "Failed"}}
  ELSE {status}

Progress ==
  /\ Active /\ steps # <<>>
  /\ DOMAIN steps' = DOMAIN steps
  /\ \A i \in DOMAIN steps : steps'[i] \in Successors(steps[i])
  /\ UNCHANGED <<spec, phase>>

Conclude ==
  /\ Active /\ steps # <<>>
  /\ phase' = NextPipelinePhase(view)
  /\ UNCHANGED <<spec, steps>>

Next ==
  \/ Begin \/ Initialize \/ Progress \/ Conclude
  \/ \E i \in DOMAIN steps : Start(i) \/ Skip(i)

Spec == Init /\ [][Next]_lifecycle
=============================================================================
