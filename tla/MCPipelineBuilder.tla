-------------------------- MODULE MCPipelineBuilder --------------------------
(***************************************************************************)
(* Small instances of PipelineBuilder: two namespaces with some names      *)
(* taken, a copy of a pipeline, texts that parse and one that does not.    *)
(***************************************************************************)
EXTENDS PipelineBuilderProperties

StepNames  == {"step-1", "step-2", "s", ""}
Numbered   == [n \in 1..MaxSteps |-> <<"step-1", "step-2">>[n]]
ValidSteps == StepNames \ {""}

Names      == {NewPipeline, "new-pipeline-2", "new-pipeline-3", "mine", "a-copy", "new-pipeline-4", "new-pipeline-5", "a-copy-2", "a-copy-3", "a-copy-4", ""}
ValidNames == Names \ {""}
Namespaces == {"default", "team"}
Tried == [base \in Names |->
            CASE base = NewPipeline -> <<NewPipeline, "new-pipeline-2", "new-pipeline-3", "new-pipeline-4", "new-pipeline-5">>
              [] base = "a-copy"    -> <<"a-copy", "a-copy-2", "a-copy-3", "a-copy-4">>
              [] OTHER              -> <<base>>]

Taken == [ns \in Namespaces |-> IF ns = "default" THEN {NewPipeline, "new-pipeline-2"} ELSE {"mine", "a-copy"}]

Made(name, ns, steps) == [name |-> name, namespace |-> ns, settings |-> "plain", steps |-> steps]
Rescue(name, others) ==
  [DefaultStep(name) EXCEPT !.runIf = [condition |-> "fail", operator |-> "or", steps |-> others]]

CopyOfA  == Made("a-copy", "team", <<DefaultStep("s")>>)
Written  == Made("mine", "team",
  <<DefaultStep("s"), DefaultStep("step-1"), Rescue("step-2", {"s", "step-1"})>>)
Nameless == Made("", Unset, <<DefaultStep("s")>>)

Plain   == {"plain"}
Edits   == {"plain", "edited"}
NoNames == {}
Typed   == {"mine"}
TypedSteps == {""}
TheCopy == {CopyOfA}
NoCopies == {}
AllTexts == {Written, Nameless, Broken}
NoTexts  == {}

Budget(v, g, f, o) ==
  [k \in EventKind |-> CASE k = "visit" -> v [] k = "gesture" -> g [] k = "failure" -> f [] k = "other" -> o]

\* A long visit, one that is disturbed, and two.
Some == {Budget(1, 5, 0, 0), Budget(1, 4, 1, 1), Budget(2, 4, 1, 0)}
Five == {Budget(1, 5, 0, 0)}
=============================================================================
