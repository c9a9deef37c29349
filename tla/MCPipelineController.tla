------------------------ MODULE MCPipelineController ------------------------
(***************************************************************************)
(* Small instances of PipelineController: two or three step names, the     *)
(* specs that exercise each scheduling rule, and how many outside events   *)
(* of each kind a run admits.                                              *)
(***************************************************************************)
EXTENDS PipelineControllerProperties

CONSTANTS a, b, c

AB  == {a, b}
ABC == {a, b, c}

Step(name)   == [name |-> name, runIf |-> NoRunIf, suspend |-> FALSE]
Manual(name) == [Step(name) EXCEPT !.suspend = TRUE]
When(name, condition, operator, names) ==
  [Step(name) EXCEPT !.runIf = [condition |-> condition, operator |-> operator, steps |-> names]]

----------------------------------------------------------------------------
\* One step after another.
Chain2 == <<Step(a), Step(b)>>
Chain3 == <<Step(a), Step(b), Step(c)>>

\* A failure handler beside the chain, and one that watches every step.
Handler   == <<Step(a), When(b, "fail", "", {a})>>
Both      == <<Step(a), When(b, "fail", "", {a}), When(c, "fail", "and", {a, b})>>
Handlers  == <<Step(a), Step(b), When(c, "fail", "or", {a, b})>>

\* A step that runs on a success, and one that runs on any of two.
OnSuccess == <<Step(a), When(b, "success", "and", {a})>>
Fork      == <<Step(a), When(b, "", "", {a}), When(c, "success", "and", {a})>>
Join      == <<Step(a), When(b, "success", "", {a}), When(c, "success", "or", {a, b})>>

\* A step whose job starts suspended.
Approval  == <<Manual(a), Step(b)>>
Review    == <<Manual(a), When(b, "success", "", {a})>>

\* Nothing but the schema restrains what users write: two steps of one name,
\* steps that wait for each other, a reference to no step.
Twins     == <<Step(a), Step(a)>>
Mutual    == <<When(a, "success", "", {b}), When(b, "fail", "", {a})>>
Dangling  == <<Step(a), When(b, "fail", "or", {a, c})>>

----------------------------------------------------------------------------
Faults(kinds) == [k \in FaultKind |-> IF k \in kinds THEN 1 ELSE 0]

Specs2 == {Chain2, Handler, OnSuccess}
Specs3 == {Chain3, Both, Handlers, Fork, Join}
Suspending == {Approval, Review}
Progressing == Specs3 \cup Suspending \cup {OnSuccess}
Edited == {Handler, Twins}
Admitted == Specs3 \cup {Mutual, Dangling}

Undisturbed == [spec \in Specs |-> Faults({})]
Scheduling  == [spec \in Specs |-> Faults({"touch", "interrupt"})]
Editing     == [spec \in Specs |-> Faults({"spec", "delete", "remove", "interrupt"})]
Interrupted == [spec \in Specs |-> Faults({"interrupt"})]

\* Jobs are suspended while they run where none starts suspended.
Pausing     == [spec \in Specs |-> Faults(IF spec = OnSuccess THEN {"suspend"} ELSE {})]
=============================================================================
