---------------------- MODULE PipelineBuilderProperties ----------------------
(***************************************************************************)
(* What the builder owes its user: the cards, the text and the pipeline    *)
(* are one, what is saved is what is shown, and late answers do no harm.   *)
(***************************************************************************)
EXTENDS PipelineBuilder, GraphLayout

TypeOK ==
  /\ shell \in Namespace /\ visits \in Nat /\ visit \in {0, visits}
  /\ pipeline \in BuilderPipeline
  /\ canvas \in Seq(BuilderStep)
  /\ drawer \in [selected : StepName \cup {None}, editor : BOOLEAN, settings : BOOLEAN]
  /\ drag \in Nat /\ crashed \in BOOLEAN
  /\ view \in [mode : {"builder", "yaml"}, switch : BOOLEAN, text : BuilderPipeline \cup {Broken}]
  /\ known \subseteq PipelineName /\ listedIn \in Namespace \cup {None} /\ missed \subseteq Namespace
  /\ form \in [nameError : BOOLEAN, error : BOOLEAN, saving : BOOLEAN]
  /\ byHand \in [name : BOOLEAN, namespace : BOOLEAN]
  /\ lists \in Seq([copy : BuilderPipeline \cup {None}, namespace : Namespace])
  /\ creates \subseteq [visit : Nat, pipeline : BuilderPipeline, state : {"sent", "stored", "refused"}]
  /\ server \in [Namespace -> SUBSET PipelineName]
  /\ events \in [EventKind -> Nat]

----------------------------------------------------------------------------
\* The canvas and the pipeline never drift apart (updatePipelineFromCanvas,
\* pipeline-canvas.ts:659): the settings drawer, the other view and the
\* save button all start from the cards as they are.  (A handler that has
\* thrown leaves an undefined card; then there is nothing to compare.)
InSync == ~ crashed => pipeline.steps = canvas

\* What is sent is what the user sees: in the YAML view the text ("parse
\* YAML as source of truth", pipeline-canvas.ts:805), in the builder the
\* cards in their order under the name in the header; and only if there is a
\* step, under a name that is valid and not known to be taken.
SavedAsShown ==
  [][\A c \in creates' \ creates :
       c.state = "sent" =>
         /\ c.visit = visit
         /\ view.mode = "yaml" => c.pipeline = view.text
         /\ view.mode = "builder" => /\ c.pipeline.steps = canvas
                                     /\ c.pipeline.name = pipeline.name
                                     /\ c.pipeline.namespace = pipeline.namespace
                                     /\ c.pipeline.settings = pipeline.settings
         /\ c.pipeline.name \in ValidPipelineName \ known
         /\ c.pipeline.steps # <<>>]_vars

\* A second pipeline is created in one visit only if the first creation was
\* reported as failed: the save button is disabled while a save is under way
\* (pipeline-canvas.ts:915), through view changes and edits.
NoSecondPipeline ==
  \A c, d \in creates : c.visit = d.visit /\ c.state = "stored" /\ d.state = "stored" => c = d

\* Once nothing asked for is due any more, the names the header is checked
\* against are those of the namespace the pipeline will be created in,
\* whatever the order of the answers: unless the namespace was then set by
\* hand, or the list of that very namespace failed, upon which the code keeps
\* the names of another namespace, if it had any (pipeline-canvas.ts:562).
NamesOfNamespace ==
  visit # 0 /\ lists = <<>> /\ ~ byHand.namespace
    => LET ns == OrDefaultNamespace(pipeline.namespace)
       IN  listedIn = ns \/ ns \in missed

\* A name the builder made up is free, as far as the builder knows ("Generate
\* a unique name", pipeline-canvas.ts:544).  The name of a copy whose list
\* failed was not made up.
GeneratedNameFree == ~ byHand.name => pipeline.name \notin known

\* The header's name, its namespace and the names it is checked against fit
\* one another, whatever was chosen, copied or answered in between
\* (pipeline-canvas.ts:541-560), but for what a failed list leaves behind.
NamesFit == NamesOfNamespace /\ GeneratedNameFree

\* A save comes to an end: the button is enabled again or the user is on
\* another page ("finally", pipeline-canvas.ts:841).
SaveEnds == form.saving ~> ~ form.saving

\* The page of the pipeline that was made: its steps with their statuses,
\* as the operator and the graph beside them are given.
WithPhases(steps, phase) ==
  [spec  |-> steps,
   steps |-> [i \in DOMAIN steps |-> [name |-> steps[i].name, phase |-> phase[steps[i].name], job |-> FALSE]]]

\* The phases the arrows speak of; what the operator makes of a suspended
\* step is in PipelineControllerProperties.
TellingPhase == StepPhase \ {"Suspended"}

ArrowsTo(p, name) == {a \in Arrows(p) : a.target = name}

SourcePhase(p, a) == (CHOOSE n \in Nodes(p) : n.id = a.source).phase

Arrived(p, a) == SourcePhase(p, a) = IF a.type = "failure" THEN "Failed" ELSE "Succeeded"

\* The arrows into a step tell the truth about the operator: one from a step
\* that has not finished holds it back, it starts only when the arrows have
\* arrived (all of them, unless any is enough), and a runIf whose steps are
\* all there starts it as soon as they have.
ArrowsTell(p, step) ==
  LET arrows  == ArrowsTo(p, step.name)
      open    == {a \in arrows : SourcePhase(p, a) \in {"Pending", "Running"}}
      arrived == {a \in arrows : Arrived(p, a)}
      fits    == arrived = arrows \/ (~ RequiresAll(step.runIf) /\ arrived # {})
      verdict == AreDependenciesSatisfied(p, step)
  IN  /\ open # {} => verdict = "wait"
      /\ verdict = "ready" => fits
      /\ HasConditionalExecution(step) /\ step.runIf.steps \subseteq StepsOf(p) /\ open = {} /\ fits
           => verdict = "ready"

UniqueNames(steps) ==
  \A i, j \in DOMAIN steps : steps[i].name = steps[j].name => i = j

\* The graph shows of each pipeline the builder has made when its steps will
\* run, at every stage of the run (pipelineToGraph, graph-layout.ts:43,
\* against areDependenciesSatisfied).  Of two steps of one name one is shown
\* for both.
GraphTells ==
  \A c \in creates :
    LET steps == c.pipeline.steps
    IN  c.state = "stored" /\ UniqueNames(steps)
          => \A phase \in [NamesOf(steps) -> TellingPhase] :
               \A i \in DOMAIN steps : ArrowsTell(WithPhases(steps, phase), steps[i])

\* What the API says of the name of a step: "Unique identifier for this
\* step" (ui/src/types/pipeline.ts:55).
StepNamesUnique == \A c \in creates : UniqueNames(c.pipeline.steps)
=============================================================================
