--------------------------- MODULE PipelineBuilder ---------------------------
(***************************************************************************)
(* The builder page of the web UI (pipeline-canvas.ts, with the step       *)
(* editor and the settings beside it): the pipeline being made, the cards  *)
(* on the canvas, the YAML view, the names already taken in the namespace, *)
(* and the requests that are under way.  Each gesture of the user and each *)
(* answer to a request is one action, as the browser runs one handler at a *)
(* time up to its first await; the answers may come in any order, fail, or *)
(* find the user on another page.                                          *)
(*                                                                         *)
(* Images, scripts, variables and the settings other than the namespace    *)
(* are opaque contents.  A namespace that is not set is Unset; what cannot *)
(* be parsed is Broken.                                                    *)
(***************************************************************************)
EXTENDS PipelineTypes

CONSTANTS
  PipelineName, Namespace, Content,
  Unset, Broken, None,     \* no namespace, text that does not parse, nothing
  ValidPipelineName, ValidStepName,   \* the names validateStepName accepts
  Candidate,               \* the names tried in turn when one is taken
  StepNumbered,            \* "step-1", "step-2", ...
  Copies,                  \* pipelines another page may hand over to copy
  Texts,                   \* what the user may write into the YAML view
  TypedName, TypedStepName,   \* and into the name fields
  Stored,                  \* the names of the pipelines there are at the start
  MaxSteps,
  Budgets                  \* how many visits, gestures, failures and creations by others

NewPipeline == "new-pipeline"

BuilderStep     == [name : StepName, runIf : RunIfCondition, jobSpec : Content]
BuilderPipeline ==
  [name : PipelineName, namespace : Namespace \cup {Unset}, settings : Content, steps : Seq(BuilderStep)]

EventKind == {"visit", "gesture", "failure", "other"}

ASSUME NamesAssumption ==
  /\ NewPipeline \in PipelineName /\ ValidPipelineName \cup TypedName \subseteq PipelineName
  /\ ValidStepName \cup TypedStepName \subseteq StepName
  /\ Candidate \in [PipelineName -> Seq(PipelineName)]
  /\ StepNumbered \in [1..MaxSteps -> StepName]
  /\ Stored \in [Namespace -> SUBSET PipelineName]
  /\ "plain" \in Content /\ "default" \in Namespace /\ Unset \notin Namespace
ASSUME TextsAssumption == Texts \subseteq BuilderPipeline \cup {Broken}
ASSUME CopiesAssumption ==     \* a stored pipeline has a step, as the schema demands
  Copies \subseteq BuilderPipeline /\ \A p \in Copies : p.steps # <<>>
ASSUME BoundsAssumption ==
  MaxSteps \in Nat /\ Budgets \subseteq [EventKind -> Nat]

VARIABLES
  shell,                   \* the namespace chosen in the application's sidebar
  visit,                   \* which visit to the builder this is, 0 on another page
  visits,                  \* how many there were
  pipeline, canvas,        \* this.pipeline and this.canvasSteps
  drawer, drag,            \* selectedStep with the two drawers; draggedStepIndex or 0
  crashed,                 \* a handler has thrown and left an undefined card
  view,                    \* viewMode, what the switch shows, yamlContent parsed
  known, listedIn,         \* existingPipelineNames, and the namespace they are from
  form,                    \* nameError, error, saving
  missed,                  \* namespaces whose list has failed since the last answer (history)
  byHand,                  \* what is the user's or a copy's own, not an answer's (history)
  lists, creates,          \* requests under way
  server,                  \* the names of the pipelines in each namespace
  events                   \* what is left of the budget

requests == <<lists, creates>>
screen  == <<drawer, drag, crashed, view>>
names   == <<known, listedIn, missed>>
place   == <<shell, visit, visits>>
vars    == <<place, pipeline, canvas, screen, names, form, byHand, requests, server, events>>

----------------------------------------------------------------------------
\* What the handlers compute.

EmptyPipeline(ns) == [name |-> NewPipeline, namespace |-> ns, settings |-> "plain", steps |-> <<>>]

DefaultStep(name) == [name |-> name, runIf |-> NoRunIf, jobSpec |-> "plain"]

NamesOf(steps) == {steps[i].name : i \in DOMAIN steps}

NameIsFine(name) == name \in ValidPipelineName /\ name \notin known

Free(base, taken) == {k \in DOMAIN Candidate[base] : Candidate[base][k] \notin taken}

FreshName(base, taken) ==
  Candidate[base][CHOOSE k \in Free(base, taken) : \A j \in Free(base, taken) : k <= j]

FromCanvas(p, cards) == [p EXCEPT !.steps = cards]

OrDefaultNamespace(ns) == IF ns = Unset THEN "default" ELSE ns

Closed   == [selected |-> None, editor |-> FALSE, settings |-> FALSE]
AtStart  == [mode |-> "builder", switch |-> FALSE, text |-> EmptyPipeline("default")]
Untold   == [nameError |-> FALSE, error |-> FALSE, saving |-> FALSE]
Untouched == [name |-> FALSE, namespace |-> FALSE]

Without(seq, i) == SubSeq(seq, 1, i - 1) \o SubSeq(seq, i + 1, Len(seq))
Insert(seq, i, x) == SubSeq(seq, 1, i - 1) \o <<x>> \o SubSeq(seq, i, Len(seq))

Spend(kind) == events[kind] > 0 /\ events' = [events EXCEPT ![kind] = @ - 1]

\* A gesture on the page; while a card is dragged the mouse can do nothing else.
Gesture == visit # 0 /\ ~ crashed /\ Spend("gesture")
Idle    == Gesture /\ drag = 0

----------------------------------------------------------------------------
\* Coming and going.  The router makes a new component for each visit; what
\* answers an old one changes nothing on the page.

NewPage(ns) ==
  /\ pipeline' = EmptyPipeline(ns) /\ canvas' = <<>>
  /\ drawer' = Closed /\ drag' = 0 /\ crashed' = FALSE /\ view' = AtStart
  /\ known' = {} /\ listedIn' = None /\ missed' = {} /\ form' = Untold /\ byHand' = Untouched

\* connectedCallback, with the copy that was left in the session storage.
OpenBuilder(copy) ==
  /\ visit = 0 /\ Spend("visit")
  /\ visits' = visits + 1 /\ visit' = visits'
  /\ NewPage(shell)
  /\ lists' = <<[copy |-> copy,
                 namespace |-> IF copy = None THEN shell ELSE OrDefaultNamespace(copy.namespace)]>>
  /\ UNCHANGED <<shell, creates, server>>

Navigate == visit' = 0 /\ NewPage("default") /\ lists' = <<>>

LeaveBuilder ==
  /\ visit # 0
  /\ Navigate
  /\ UNCHANGED <<shell, visits, creates, server, events>>

----------------------------------------------------------------------------
\* The names in use, loaded anew as long as there are no steps.

HandleNamespaceChange(ns) ==
  /\ Spend("gesture")
  /\ ns # shell /\ shell' = ns
  /\ IF visit # 0 /\ canvas = <<>>
     THEN /\ pipeline' = [pipeline EXCEPT !.namespace = ns]
          /\ lists' = Append(lists, [copy |-> None, namespace |-> ns])
          /\ byHand' = [byHand EXCEPT !.namespace = FALSE]
     ELSE UNCHANGED <<pipeline, lists, byHand>>
  /\ UNCHANGED <<visit, visits, canvas, screen, names, form, creates, server>>

LoadCopied(p) ==
  /\ pipeline' = p
  /\ canvas' = IF p.steps = <<>> THEN canvas ELSE p.steps

\* Mutant: the answer sets the name and leaves the namespace.
NamedOnly(p, ns, taken) == [p EXCEPT !.name = FreshName(NewPipeline, taken)]

Named(p, ns, taken) == [p EXCEPT !.name = FreshName(NewPipeline, taken), !.namespace = ns]

\* The server reads its list when it answers, in whatever order.  The code
\* counts on; the model has no more names than Candidate.
AnswerList(i) ==
  LET r == lists[i]  taken == server[r.namespace]
  IN  /\ known' = taken /\ listedIn' = r.namespace /\ missed' = {} /\ byHand' = Untouched
      /\ IF r.copy = None
         THEN /\ Free(NewPipeline, taken) # {}
              /\ pipeline' = Named(pipeline, r.namespace, taken)
              /\ UNCHANGED canvas
         ELSE /\ Free(r.copy.name, taken) # {}
              /\ LoadCopied([r.copy EXCEPT !.name = FreshName(@, taken)])
      /\ lists' = Without(lists, i)
      /\ UNCHANGED <<place, screen, form, creates, server, events>>

\* The names known stay those of the list before, of whatever namespace, and
\* a copy keeps the name it came with.
FailList(i) ==
  /\ Spend("failure")
  /\ IF lists[i].copy = None THEN UNCHANGED <<pipeline, canvas, byHand>>
     ELSE LoadCopied(lists[i].copy) /\ byHand' = [Untouched EXCEPT !.name = TRUE]
  /\ missed' = missed \cup {lists[i].namespace}
  /\ lists' = Without(lists, i)
  /\ UNCHANGED <<place, screen, known, listedIn, form, creates, server>>

----------------------------------------------------------------------------
\* The header, the canvas and the drawers.

Building == Idle /\ view.mode = "builder"

OnPage == UNCHANGED <<place, requests, server, names>>

UpdatePipelineName(name) ==
  /\ Idle
  /\ form' = [form EXCEPT !.nameError = ~ NameIsFine(name)]
  /\ pipeline' = [pipeline EXCEPT !.name = name]
  /\ byHand' = [byHand EXCEPT !.name = TRUE]
  /\ OnPage /\ UNCHANGED <<canvas, screen>>

\* Mutant: the cards are changed and the pipeline is not.
SetCardsOnly(cards) ==
  /\ canvas' = cards
  /\ OnPage /\ UNCHANGED <<pipeline, crashed, view, form, byHand>>

\* Every change of the cards is carried over to the pipeline at once.
SetCards(cards) ==
  /\ canvas' = cards
  /\ pipeline' = FromCanvas(pipeline, cards)
  /\ OnPage /\ UNCHANGED <<crashed, view, form, byHand>>

AddStep ==
  /\ Building
  /\ Len(canvas) < MaxSteps
  /\ LET name == StepNumbered[Len(canvas) + 1]
     IN  /\ SetCards(Append(canvas, DefaultStep(name)))
         /\ drawer' = [drawer EXCEPT !.selected = name, !.editor = TRUE]
  /\ UNCHANGED drag

CardsWithout(cards, name) == SelectSeq(cards, LAMBDA s : s.name # name)

RemoveStep(name) ==
  /\ Building
  /\ SetCards(CardsWithout(canvas, name))
  /\ drawer' = IF drawer.selected = name THEN [drawer EXCEPT !.selected = None, !.editor = FALSE]
               ELSE drawer
  /\ UNCHANGED drag

SetDrawer(d) ==
  /\ drawer' = d
  /\ OnPage /\ UNCHANGED <<pipeline, canvas, drag, crashed, view, form, byHand>>

SelectStep(name) == Building /\ SetDrawer([selected |-> name, editor |-> TRUE, settings |-> FALSE])
OpenSettings == Building /\ SetDrawer([drawer EXCEPT !.settings = TRUE, !.editor = FALSE])
CloseDrawer  == Idle /\ drawer # Closed /\ SetDrawer(Closed)

DragStart(i) ==
  /\ Building
  /\ drag' = i
  /\ OnPage /\ UNCHANGED <<pipeline, canvas, drawer, crashed, view, form, byHand>>

\* An answer may have replaced the cards since the drag began: an index that
\* is no more gives an undefined card, and the page is beyond use.
DragOver(i) ==
  /\ Gesture /\ drag \notin {0, i}
  /\ IF drag \in DOMAIN canvas
     THEN SetCards(Insert(Without(canvas, drag), i, canvas[drag])) /\ drag' = i
     ELSE crashed' = TRUE /\ OnPage /\ UNCHANGED <<pipeline, canvas, drag, view, form, byHand>>
  /\ UNCHANGED drawer

DragEnd ==
  /\ visit # 0 /\ drag # 0
  /\ drag' = 0
  /\ OnPage /\ UNCHANGED <<pipeline, canvas, drawer, crashed, view, form, byHand, events>>

----------------------------------------------------------------------------
\* The step editor shows the first step of the selected name, if there still
\* is one, and its changes are made to all of that name.

EditorStep == canvas[CHOOSE i \in DOMAIN canvas :
                       /\ canvas[i].name = drawer.selected
                       /\ \A j \in DOMAIN canvas : canvas[j].name = drawer.selected => i <= j]

Editing == Idle /\ drawer.editor /\ drawer.selected \in NamesOf(canvas)

UpdateStep(field, value) ==
  /\ Editing
  /\ SetCards([i \in DOMAIN canvas |->
                 IF canvas[i].name = drawer.selected THEN [canvas[i] EXCEPT ![field] = value]
                 ELSE canvas[i]])
  /\ UNCHANGED <<drawer, drag>>

UpdateName(name)  == UpdateStep("name", name)
UpdateJobSpec(c)  == UpdateStep("jobSpec", c)
UpdateRunIf(field, value) ==
  /\ Editing /\ EditorStep.runIf.steps # {} /\ NamesOf(canvas) # {EditorStep.name}
  /\ UpdateStep("runIf", [EditorStep.runIf EXCEPT ![field] = value])

\* The last step unticked takes the whole rule with it.
ToggleRunIfStep(name) ==
  /\ Editing /\ name # EditorStep.name
  /\ LET runIf == EditorStep.runIf
         steps == IF name \in runIf.steps THEN runIf.steps \ {name} ELSE runIf.steps \cup {name}
     IN  UpdateStep("runIf", IF steps = {} THEN NoRunIf ELSE [runIf EXCEPT !.steps = steps])

DeleteEdited ==
  /\ Editing
  /\ SetCards(CardsWithout(canvas, drawer.selected))
  /\ drawer' = Closed
  /\ UNCHANGED drag

\* The settings drawer writes to the same pipeline.
EditSettings(p) ==
  /\ Idle /\ drawer.settings
  /\ pipeline' = p
  /\ OnPage /\ UNCHANGED <<canvas, screen, form>>

UpdateSettings(c)  == EditSettings([pipeline EXCEPT !.settings = c]) /\ UNCHANGED byHand
UpdateNamespace(ns) ==
  EditSettings([pipeline EXCEPT !.namespace = ns]) /\ byHand' = [byHand EXCEPT !.namespace = TRUE]

----------------------------------------------------------------------------
\* The two views.  The switch is the browser's: it turns even if the page
\* stays where it is, and the next turn writes the text anew.

SwitchToYamlView ==
  /\ Idle /\ ~ view.switch
  /\ pipeline' = FromCanvas(pipeline, canvas)
  /\ view' = [mode |-> "yaml", switch |-> TRUE, text |-> FromCanvas(pipeline, canvas)]
  /\ drawer' = [drawer EXCEPT !.editor = FALSE, !.settings = FALSE]
  /\ OnPage /\ UNCHANGED <<canvas, drag, crashed, form, byHand>>

\* Mutant: a text that does not parse is not turned away.
SwitchToBuilderViewUnparsed ==
  /\ Idle /\ view.switch
  /\ view' = [view EXCEPT !.switch = FALSE, !.mode = "builder"]
  /\ pipeline' = view.text /\ canvas' = IF view.text = Broken THEN <<>> ELSE view.text.steps
  /\ byHand' = [name |-> TRUE, namespace |-> TRUE]
  /\ OnPage /\ UNCHANGED <<drawer, drag, crashed, form>>

SwitchToBuilderView ==
  /\ Idle /\ view.switch
  /\ IF view.text = Broken
     THEN view' = [view EXCEPT !.switch = FALSE] /\ UNCHANGED <<pipeline, canvas, byHand>>
     ELSE /\ view' = [view EXCEPT !.switch = FALSE, !.mode = "builder"]
          /\ pipeline' = view.text /\ canvas' = view.text.steps
          /\ byHand' = [name |-> TRUE, namespace |-> TRUE]
  /\ OnPage /\ UNCHANGED <<drawer, drag, crashed, form>>

HandleYamlChange(text) ==
  /\ Idle /\ view.mode = "yaml"
  /\ view' = [view EXCEPT !.text = text]
  /\ OnPage /\ UNCHANGED <<pipeline, canvas, drawer, drag, crashed, form, byHand>>

----------------------------------------------------------------------------
\* Saving.

\* Mutant: the text is not read back.
ToSaveFromCanvas == FromCanvas(pipeline, canvas)

ToSave == IF view.mode = "yaml" THEN view.text ELSE FromCanvas(pipeline, canvas)

\* Mutant: the button is not disabled while a save is under way.
CanSaveAgain == ~ (view.mode = "yaml" /\ view.text = Broken)

CanSave == ~ form.saving /\ ~ (view.mode = "yaml" /\ view.text = Broken)

SavePipeline ==
  /\ Idle /\ CanSave
  /\ pipeline' = IF view.mode = "yaml" THEN pipeline ELSE FromCanvas(pipeline, canvas)
  /\ IF NameIsFine(ToSave.name) /\ ToSave.steps # <<>>
     THEN /\ form' = [form EXCEPT !.saving = TRUE, !.error = FALSE]
          /\ creates' = creates \cup {[visit |-> visit, pipeline |-> ToSave, state |-> "sent"]}
     ELSE /\ form' = [form EXCEPT !.error = TRUE, !.nameError = @ \/ ~ NameIsFine(ToSave.name)]
          /\ UNCHANGED creates
  /\ UNCHANGED <<place, canvas, screen, names, byHand, lists, server>>

\* The API server refuses a name that is taken and a step name that is not
\* one, and takes two steps of one name.
ServerCreates(c) ==
  LET ns == OrDefaultNamespace(c.pipeline.namespace)
      fine == /\ c.pipeline.name \notin server[ns]
              /\ NamesOf(c.pipeline.steps) \subseteq ValidStepName
  IN  /\ c.state = "sent"
      /\ creates' = (creates \ {c}) \cup {[c EXCEPT !.state = IF fine THEN "stored" ELSE "refused"]}
      /\ server' = IF fine THEN [server EXCEPT ![ns] = @ \cup {c.pipeline.name}] ELSE server
      /\ UNCHANGED <<place, pipeline, canvas, screen, names, form, byHand, lists, events>>

\* Mutant: no finally, the flag stays after an error.
ToldOnly(f) == [f EXCEPT !.error = TRUE]

Told(f) == [f EXCEPT !.error = TRUE, !.saving = FALSE]

TellFailure(c) ==
  /\ creates' = creates \ {c}
  /\ form' = IF c.visit = visit THEN Told(form) ELSE form
  /\ UNCHANGED <<place, pipeline, canvas, screen, names, byHand, lists, server>>

\* Whoever is where by then is taken to the page of the new pipeline.
AnswerStored(c) ==
  /\ c.state = "stored"
  /\ creates' = creates \ {c}
  /\ Navigate
  /\ UNCHANGED <<shell, visits, server, events>>

AnswerRefused(c) == c.state = "refused" /\ TellFailure(c) /\ UNCHANGED events

\* The connection fails, before or after the server has done its part.
LoseCreate(c) == Spend("failure") /\ TellFailure(c)

OtherCreates(ns, name) ==
  /\ Spend("other")
  /\ server' = [server EXCEPT ![ns] = @ \cup {name}]
  /\ UNCHANGED <<place, pipeline, canvas, screen, names, form, byHand, requests>>

----------------------------------------------------------------------------
Init ==
  /\ shell \in Namespace /\ visit = 0 /\ visits = 0
  /\ pipeline = EmptyPipeline("default") /\ canvas = <<>>
  /\ drawer = Closed /\ drag = 0 /\ crashed = FALSE /\ view = AtStart
  /\ known = {} /\ listedIn = None /\ missed = {} /\ form = Untold /\ byHand = Untouched
  /\ lists = <<>> /\ creates = {} /\ server = Stored /\ events \in Budgets

Cards ==
  \/ AddStep
  \/ \E name \in NamesOf(canvas) : RemoveStep(name) \/ SelectStep(name) \/ ToggleRunIfStep(name)
  \/ \E i \in DOMAIN canvas : DragStart(i) \/ DragOver(i)
  \/ DragEnd
  \/ \E name \in TypedStepName : UpdateName(name)
  \/ \E c \in Content : UpdateJobSpec(c)
  \/ \E v \in {"success", "fail"} : UpdateRunIf("condition", v)
  \/ \E v \in {"and", "or"} : UpdateRunIf("operator", v)
  \/ DeleteEdited

Page ==
  \/ \E copy \in Copies \cup {None} : OpenBuilder(copy)
  \/ LeaveBuilder
  \/ \E ns \in Namespace : HandleNamespaceChange(ns)
  \/ \E name \in TypedName : UpdatePipelineName(name)
  \/ OpenSettings \/ CloseDrawer
  \/ \E c \in Content : UpdateSettings(c)
  \/ \E ns \in Namespace \cup {Unset} : UpdateNamespace(ns)
  \/ SwitchToYamlView \/ SwitchToBuilderView
  \/ \E text \in Texts : HandleYamlChange(text)
  \/ SavePipeline

Network ==
  \/ \E i \in DOMAIN lists : AnswerList(i) \/ FailList(i)
  \/ \E c \in creates : ServerCreates(c) \/ AnswerStored(c) \/ AnswerRefused(c) \/ LoseCreate(c)
  \/ \E ns \in Namespace, name \in TypedName \cap ValidPipelineName : OtherCreates(ns, name)

Next == Cards \/ Page \/ Network

Spec == Init /\ [][Next]_vars

\* A request that was sent is answered in the end; the user owes nothing.
FairSpec ==
  /\ Spec
  /\ WF_vars(\E c \in creates : ServerCreates(c))
  /\ WF_vars(\E c \in creates : AnswerStored(c) \/ AnswerRefused(c))
=============================================================================
