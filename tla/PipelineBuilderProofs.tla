------------------------ MODULE PipelineBuilderProofs ------------------------
(***************************************************************************)
(* The safety properties of the builder, for every set of names, copies    *)
(* and texts and any number of events.  They rest on two invariants that   *)
(* have no variable that changes in common but visit: WorkInv, on the      *)
(* pipeline, the cards and the lists of names, and SavesInv, on the        *)
(* requests to create.                                                     *)
(***************************************************************************)
EXTENDS PipelineBuilderProperties, CommonLemmas

\* The fields of a pipeline, whatever is in them.
IsPipeline(p) ==
  p = [name |-> p.name, namespace |-> p.namespace, settings |-> p.settings, steps |-> p.steps]

ListRequest == [copy : Copies \cup {None}, namespace : Namespace]

\* The namespace asked for is the one the answer leaves the pipeline in.
Sound(r) == r.copy # None => r.namespace = OrDefaultNamespace(r.copy.namespace)

\* While the namespace is not the user's, the names are its own, or its list
\* has failed, or is due, or a copy is, which brings another.
NamesDue ==
  visit # 0 /\ ~ byHand.namespace
    => LET ns == OrDefaultNamespace(pipeline.namespace)
       IN  \/ listedIn = ns \/ ns \in missed
           \/ \E i \in DOMAIN lists : lists[i].copy # None \/ lists[i].namespace = ns

WorkInv ==
  /\ shell \in Namespace
  /\ IsPipeline(pipeline)
  /\ view = [mode |-> view.mode, switch |-> view.switch, text |-> view.text]
  /\ view.text # Broken => IsPipeline(view.text)
  /\ byHand \in [name : BOOLEAN, namespace : BOOLEAN]
  /\ lists \in Seq(ListRequest)
  /\ \A i \in DOMAIN lists : Sound(lists[i])
  /\ InSync
  /\ NamesDue
  /\ GeneratedNameFree

SavesInv ==
  /\ visits \in Nat /\ visit \in {0, visits}
  /\ form \in [nameError : BOOLEAN, error : BOOLEAN, saving : BOOLEAN]
  /\ \A c \in creates :
       /\ c = [visit |-> c.visit, pipeline |-> c.pipeline, state |-> c.state]
       /\ c.visit \in 1..visits
       /\ c.visit = visit => form.saving
  /\ \A c, d \in creates : c.visit = d.visit => c = d

----------------------------------------------------------------------------
\* Pipelines and their fields.

\* A pipeline of its type has a pipeline's fields.
LEMMA TypedIsPipeline == ASSUME NEW p \in BuilderPipeline PROVE IsPipeline(p)
BY DEF BuilderPipeline, IsPipeline

\* So has the empty one, of its namespace and without steps.
LEMMA EmptyIsPipeline ==
  ASSUME NEW ns PROVE /\ IsPipeline(EmptyPipeline(ns)) /\ EmptyPipeline(ns).steps = <<>>
                      /\ EmptyPipeline(ns).namespace = ns
BY DEF EmptyPipeline, IsPipeline

\* What the canvas gives a pipeline are its steps.
LEMMA FromCanvasFields ==
  ASSUME NEW p, NEW cards, IsPipeline(p)
  PROVE  /\ IsPipeline(FromCanvas(p, cards)) /\ FromCanvas(p, cards).steps = cards
         /\ FromCanvas(p, cards).name = p.name /\ FromCanvas(p, cards).namespace = p.namespace
         /\ FromCanvas(p, cards).settings = p.settings
BY DEF FromCanvas, IsPipeline

\* A pipeline with another name, namespace or settings is one, the rest as it
\* was.
LEMMA FieldChanges ==
  ASSUME NEW p, NEW x, IsPipeline(p)
  PROVE  /\ IsPipeline([p EXCEPT !.name = x]) /\ [p EXCEPT !.name = x].steps = p.steps
         /\ [p EXCEPT !.name = x].name = x /\ [p EXCEPT !.name = x].namespace = p.namespace
         /\ IsPipeline([p EXCEPT !.namespace = x]) /\ [p EXCEPT !.namespace = x].steps = p.steps
         /\ [p EXCEPT !.namespace = x].name = p.name
         /\ [p EXCEPT !.namespace = x].namespace = x
         /\ IsPipeline([p EXCEPT !.settings = x]) /\ [p EXCEPT !.settings = x].steps = p.steps
         /\ [p EXCEPT !.settings = x].name = p.name
         /\ [p EXCEPT !.settings = x].namespace = p.namespace
BY DEF IsPipeline

\* A pipeline that gets a fresh name keeps its steps.
LEMMA NamedFields ==
  ASSUME NEW p, NEW ns, NEW taken, IsPipeline(p)
  PROVE  /\ IsPipeline(Named(p, ns, taken)) /\ Named(p, ns, taken).steps = p.steps
         /\ Named(p, ns, taken).name = FreshName(NewPipeline, taken)
         /\ Named(p, ns, taken).namespace = ns
<1> DEFINE n == FreshName(NewPipeline, taken)
           q == [p EXCEPT !.name = n]
<1>1. Named(p, ns, taken) = [q EXCEPT !.namespace = ns]
  BY Zenon DEF Named
<1>2. IsPipeline(q) /\ q.steps = p.steps /\ q.name = n
  BY FieldChanges
<1> HIDE DEF n, q
<1>3. /\ IsPipeline([q EXCEPT !.namespace = ns]) /\ [q EXCEPT !.namespace = ns].steps = q.steps
      /\ [q EXCEPT !.namespace = ns].name = q.name /\ [q EXCEPT !.namespace = ns].namespace = ns
  BY <1>2, FieldChanges
<1> QED
  BY <1>1, <1>2, <1>3 DEF n

\* The name found is one of the candidates that are free.
LEMMA FreshNameIsFree ==
  ASSUME NEW base \in PipelineName, NEW taken, Free(base, taken) # {}
  PROVE  FreshName(base, taken) \notin taken
<1>1. Free(base, taken) \in SUBSET Nat
  BY NamesAssumption DEF Free
<1>2. \E k \in Free(base, taken) : \A j \in Free(base, taken) : k <= j
  BY <1>1, LeastExists
<1> QED
  BY <1>2 DEF FreshName, Free

\* A namespace that is set is not replaced by the default.
LEMMA DefaultIsNotUnset == ASSUME NEW ns \in Namespace PROVE OrDefaultNamespace(ns) = ns
BY NamesAssumption DEF OrDefaultNamespace

\* One that is not set is.
LEMMA OrDefaultType ==
  ASSUME NEW ns \in Namespace \cup {Unset} PROVE OrDefaultNamespace(ns) \in Namespace
BY NamesAssumption DEF OrDefaultNamespace

\* Nor does any other go with the one that is taken out.
LEMMA OthersStay ==
  ASSUME NEW s \in Seq(ListRequest), NEW i \in DOMAIN s
  PROVE  \A j \in DOMAIN s : j = i \/ \E k \in DOMAIN Without(s, i) : Without(s, i)[k] = s[j]
<1>1. i \in 1..Len(s) /\ Len(s) \in Nat /\ DOMAIN s = 1..Len(s)
  OBVIOUS
<1>2. SubSeq(s, 1, i - 1) \in Seq(ListRequest) /\ SubSeq(s, i + 1, Len(s)) \in Seq(ListRequest)
  BY <1>1
<1>3. ASSUME NEW j \in 1..(i - 1) PROVE j \in DOMAIN Without(s, i) /\ Without(s, i)[j] = s[j]
  BY <1>1, <1>2 DEF Without
<1>4. ASSUME NEW j \in (i + 1)..Len(s)
      PROVE  j - 1 \in DOMAIN Without(s, i) /\ Without(s, i)[j - 1] = s[j]
  <2> DEFINE n     == Len(s)
             k     == j - i
             front == SubSeq(s, 1, i - 1)
             rest  == SubSeq(s, i + 1, n)
  <2>1. n \in Nat /\ i \in 1..n /\ j \in (i + 1)..n
    BY <1>1
  <2>2. front \in Seq(ListRequest) /\ rest \in Seq(ListRequest) /\ Without(s, i) = front \o rest
    BY <1>2 DEF Without
  <2>3. Len(front) = i - 1
    BY <1>1
  <2>4. Len(rest) = n - i /\ \A l \in 1..(n - i) : rest[l] = s[i + l]
    BY <1>1
  <2> HIDE DEF n, front, rest
  <2>5. k \in 1..(n - i) /\ i + k = j /\ j - 1 = (i - 1) + k
    BY <2>1
  <2> HIDE DEF k
  <2>6. rest[k] = s[j]
    BY <2>4, <2>5
  <2>7. k \in 1..Len(rest) /\ Len(front) + k = j - 1
    BY <2>3, <2>4, <2>5
  <2>8. /\ Len(front) + k \in DOMAIN (front \o rest)
        /\ (front \o rest)[Len(front) + k] = rest[k]
    BY <2>2, <2>7
  <2> QED
    BY <2>2, <2>6, <2>7, <2>8
<1>5. \A j \in 1..Len(s) : j = i \/ j \in 1..(i - 1) \/ j \in (i + 1)..Len(s)
  BY <1>1
<1> HIDE DEF Without
<1> QED
  BY <1>1, <1>3, <1>4, <1>5

\* A request that is answered leaves the others as they were.
LEMMA WithoutOne ==
  ASSUME NEW s \in Seq(ListRequest), NEW i \in DOMAIN s, \A j \in DOMAIN s : Sound(s[j])
  PROVE  Without(s, i) \in Seq(ListRequest) /\ \A j \in DOMAIN Without(s, i) : Sound(Without(s, i)[j])
<1>1. i \in 1..Len(s) /\ Len(s) \in Nat
  OBVIOUS
<1>2. SubSeq(s, 1, i - 1) \in Seq(ListRequest) /\ SubSeq(s, i + 1, Len(s)) \in Seq(ListRequest)
  BY <1>1
<1>3. ASSUME NEW j \in DOMAIN Without(s, i)
      PROVE  Without(s, i)[j] = IF j < i THEN s[j] ELSE s[j + 1]
  BY <1>1, <1>2 DEF Without
<1>4. \A j \in DOMAIN Without(s, i) : j \in Nat \ {0} /\ j < Len(s)
  BY <1>1, <1>2 DEF Without
<1>5. ASSUME NEW j \in DOMAIN Without(s, i) PROVE Sound(Without(s, i)[j])
  <2>1. j \in DOMAIN s /\ j + 1 \in DOMAIN s
    BY <1>1, <1>4
  <2>2. Sound(s[j]) /\ Sound(s[j + 1])
    BY <2>1
  <2> QED
    BY <1>3, <2>2
<1>6. Without(s, i) \in Seq(ListRequest)
  BY <1>2 DEF Without
<1> QED
  BY <1>5, <1>6

----------------------------------------------------------------------------
\* What the gestures on the cards have in common.

CardsGesture ==
  /\ OnPage /\ UNCHANGED <<view, form, byHand>>
  /\ \/ UNCHANGED <<pipeline, canvas, crashed>>
     \/ UNCHANGED crashed /\ pipeline' = FromCanvas(pipeline, canvas')
     \/ crashed' = TRUE /\ UNCHANGED <<pipeline, canvas>>

\* Handlers that set the cards change what a gesture may change.
LEMMA SetCardsGesture == ASSUME NEW cards, SetCards(cards) PROVE CardsGesture
BY DEF SetCards, CardsGesture

\* So do those that set the drawer.
LEMMA SetDrawerGesture == ASSUME NEW d, SetDrawer(d) PROVE CardsGesture
BY DEF SetDrawer, CardsGesture

\* So do those of the drawer's fields.
LEMMA UpdateStepGesture == ASSUME NEW field, NEW value, UpdateStep(field, value) PROVE CardsGesture
BY SetCardsGesture DEF UpdateStep

\* So does everything on the canvas.
LEMMA CardsStep == ASSUME Cards PROVE CardsGesture
<1>1. CASE AddStep
  BY <1>1, SetCardsGesture DEF AddStep
<1>2. ASSUME NEW name \in NamesOf(canvas), RemoveStep(name) PROVE CardsGesture
  BY <1>2, SetCardsGesture DEF RemoveStep
<1>3. ASSUME NEW name \in NamesOf(canvas), SelectStep(name) PROVE CardsGesture
  BY <1>3, SetDrawerGesture DEF SelectStep
<1>4. ASSUME NEW name \in NamesOf(canvas), ToggleRunIfStep(name) PROVE CardsGesture
  BY <1>4, UpdateStepGesture DEF ToggleRunIfStep
<1>5. ASSUME NEW i \in DOMAIN canvas, DragStart(i) PROVE CardsGesture
  BY <1>5 DEF DragStart, CardsGesture
<1>6. ASSUME NEW i \in DOMAIN canvas, DragOver(i) PROVE CardsGesture
  <2>1. CASE drag \in DOMAIN canvas
    BY <1>6, <2>1, SetCardsGesture DEF DragOver
  <2>2. CASE drag \notin DOMAIN canvas
    BY <1>6, <2>2 DEF DragOver, CardsGesture
  <2> QED
    BY <2>1, <2>2
<1>7. CASE DragEnd
  BY <1>7 DEF DragEnd, CardsGesture
<1>8. ASSUME NEW name \in TypedStepName, UpdateName(name) PROVE CardsGesture
  BY <1>8, UpdateStepGesture DEF UpdateName
<1>9. ASSUME NEW c \in Content, UpdateJobSpec(c) PROVE CardsGesture
  BY <1>9, UpdateStepGesture DEF UpdateJobSpec
<1>10. ASSUME NEW field, NEW value, UpdateRunIf(field, value) PROVE CardsGesture
  BY <1>10, UpdateStepGesture DEF UpdateRunIf
<1>11. CASE DeleteEdited
  BY <1>11, SetCardsGesture DEF DeleteEdited
<1> QED
  BY <1>1, <1>2, <1>3, <1>4, <1>5, <1>6, <1>7, <1>8, <1>9, <1>10, <1>11 DEF Cards

----------------------------------------------------------------------------
\* Requests to create: one in a visit at most, and as long as it is under way
\* the page knows.

\* The invariant of the saves holds at first.
LEMMA SavesInit == Init => SavesInv
BY DEF Init, SavesInv, Untold

\* A refused save ends the saving of its visit only.
LEMMA TellFailureSaves ==
  ASSUME SavesInv, NEW c \in creates, TellFailure(c) PROVE SavesInv'
<1>1. /\ creates' = creates \ {c} /\ UNCHANGED <<visit, visits>>
      /\ form' = IF c.visit = visit THEN Told(form) ELSE form
  BY DEF TellFailure, place
<1>2. form' \in [nameError : BOOLEAN, error : BOOLEAN, saving : BOOLEAN]
  BY <1>1 DEF SavesInv, Told
<1>3. \A d \in creates' : d \in creates /\ d # c /\ d.visit # c.visit
  BY <1>1 DEF SavesInv
<1>4. ASSUME NEW d \in creates', d.visit = visit' PROVE form'.saving
  BY <1>1, <1>3, <1>4 DEF SavesInv
<1> QED
  BY <1>1, <1>2, <1>3, <1>4 DEF SavesInv

\* Each step keeps the invariant of the saves.
LEMMA SavesStep == ASSUME SavesInv, [Next]_vars PROVE SavesInv'
<1>q. ASSUME UNCHANGED <<visit, visits, form, creates>> PROVE SavesInv'
  BY <1>q DEF SavesInv
<1>1. CASE Cards
  BY <1>1, <1>q, CardsStep DEF CardsGesture, OnPage, place, requests
<1>2. ASSUME NEW copy, OpenBuilder(copy) PROVE SavesInv'
  <2>1. visits' = visits + 1 /\ visit' = visits' /\ form' = Untold /\ creates' = creates
    BY <1>2 DEF OpenBuilder, NewPage
  <2>2. \A c \in creates : c.visit \in 1..visits' /\ c.visit # visit'
    BY <2>1 DEF SavesInv
  <2> QED
    BY <2>1, <2>2 DEF SavesInv, Untold
<1>3. CASE LeaveBuilder
  BY <1>3 DEF LeaveBuilder, Navigate, NewPage, SavesInv, Untold
<1>4. ASSUME NEW name, UpdatePipelineName(name) PROVE SavesInv'
  <2>1. /\ UNCHANGED <<visit, visits, creates>>
        /\ form' = [form EXCEPT !.nameError = ~ NameIsFine(name)]
    BY <1>4 DEF UpdatePipelineName, OnPage, place, requests
  <2>2. form' \in [nameError : BOOLEAN, error : BOOLEAN, saving : BOOLEAN] /\ form'.saving = form.saving
    BY <2>1 DEF SavesInv, NameIsFine
  <2> QED
    BY <2>1, <2>2 DEF SavesInv
<1>5. CASE SavePipeline
  <2>1. ~ form.saving /\ visit # 0 /\ UNCHANGED <<visit, visits>>
    BY <1>5 DEF SavePipeline, CanSave, Idle, Gesture, place
  <2>2. CASE NameIsFine(ToSave.name) /\ ToSave.steps # <<>>
    <3> DEFINE new == [visit |-> visit, pipeline |-> ToSave, state |-> "sent"]
    <3>1. /\ creates' = creates \cup {new}
          /\ form' = [form EXCEPT !.saving = TRUE, !.error = FALSE]
      BY <1>5, <2>2 DEF SavePipeline
    <3>2. form' \in [nameError : BOOLEAN, error : BOOLEAN, saving : BOOLEAN] /\ form'.saving
      BY <3>1 DEF SavesInv
    <3>3. \A c \in creates : c.visit # visit
      BY <2>1 DEF SavesInv
    <3>4. new.visit = visit /\ new = [visit |-> new.visit, pipeline |-> new.pipeline, state |-> new.state]
      OBVIOUS
    <3>5. visit \in 1..visits
      BY <2>1 DEF SavesInv
    <3> HIDE DEF new
    <3> QED
      BY <2>1, <3>1, <3>2, <3>3, <3>4, <3>5 DEF SavesInv
  <2>3. CASE ~ (NameIsFine(ToSave.name) /\ ToSave.steps # <<>>)
    <3>1. /\ creates' = creates
          /\ form' = [form EXCEPT !.error = TRUE, !.nameError = @ \/ ~ NameIsFine(ToSave.name)]
      BY <1>5, <2>3 DEF SavePipeline
    <3>2. form' \in [nameError : BOOLEAN, error : BOOLEAN, saving : BOOLEAN] /\ form'.saving = form.saving
      BY <3>1 DEF SavesInv, NameIsFine
    <3> QED
      BY <2>1, <3>1, <3>2 DEF SavesInv
  <2> QED
    BY <2>2, <2>3
<1>6. ASSUME NEW c \in creates, ServerCreates(c) PROVE SavesInv'
  <2>1. PICK outcome : creates' = (creates \ {c}) \cup {[c EXCEPT !.state = outcome]}
    BY <1>6 DEF ServerCreates
  <2> DEFINE d == [c EXCEPT !.state = outcome]
  <2>2. d = [visit |-> d.visit, pipeline |-> d.pipeline, state |-> d.state] /\ d.visit = c.visit
    BY DEF SavesInv
  <2>3. UNCHANGED <<visit, visits, form>>
    BY <1>6 DEF ServerCreates, place
  <2> HIDE DEF d
  <2> QED
    BY <2>1, <2>2, <2>3 DEF SavesInv, d
<1>7. ASSUME NEW c \in creates, AnswerStored(c) PROVE SavesInv'
  BY <1>7 DEF AnswerStored, Navigate, NewPage, SavesInv, Untold
<1>8. ASSUME NEW c \in creates, AnswerRefused(c) \/ LoseCreate(c) PROVE SavesInv'
  BY <1>8, TellFailureSaves DEF AnswerRefused, LoseCreate
<1>9. CASE \/ \E ns \in Namespace : HandleNamespaceChange(ns)
           \/ OpenSettings \/ CloseDrawer
           \/ SwitchToYamlView \/ SwitchToBuilderView
           \/ \E text \in Texts : HandleYamlChange(text)
           \/ UNCHANGED vars
  BY <1>9, <1>q DEF HandleNamespaceChange, OpenSettings, CloseDrawer, SetDrawer, SwitchToYamlView,
                    SwitchToBuilderView, HandleYamlChange, OnPage, place, requests, vars
<1>10. CASE \/ \E c \in Content : UpdateSettings(c)
            \/ \E ns \in Namespace \cup {Unset} : UpdateNamespace(ns)
            \/ \E i \in DOMAIN lists : AnswerList(i) \/ FailList(i)
            \/ \E ns \in Namespace, name \in TypedName \cap ValidPipelineName : OtherCreates(ns, name)
  BY <1>10, <1>q DEF UpdateSettings, UpdateNamespace, EditSettings, AnswerList, FailList,
                     OtherCreates, OnPage, place, requests
<1> QED
  BY <1>1, <1>2, <1>3, <1>4, <1>5, <1>6, <1>7, <1>8, <1>9, <1>10 DEF Next, Page, Network

----------------------------------------------------------------------------
\* The pipeline, the cards and the names.

\* The invariant of the names holds at first.
LEMMA WorkInit == Init => WorkInv
<1> SUFFICES ASSUME Init PROVE WorkInv
  OBVIOUS
<1>1. IsPipeline(pipeline) /\ pipeline.steps = canvas
  BY EmptyIsPipeline DEF Init
<1>2. /\ view = [mode |-> view.mode, switch |-> view.switch, text |-> view.text]
      /\ IsPipeline(view.text)
  BY EmptyIsPipeline DEF Init, AtStart
<1>3. byHand \in [name : BOOLEAN, namespace : BOOLEAN]
  BY DEF Init, Untouched
<1> QED
  BY <1>1, <1>2, <1>3 DEF Init, WorkInv, InSync, NamesDue, GeneratedNameFree

\* The fields of a copy that has been given a name.
LEMMA CopyFields ==
  ASSUME NEW p \in Copies, NEW name
  PROVE  LET q == [p EXCEPT !.name = name]
         IN  /\ IsPipeline(q) /\ q.steps = p.steps /\ q.steps # <<>>
             /\ q.namespace = p.namespace /\ q.name = name
<1>1. IsPipeline(p) /\ p.steps # <<>>
  BY TypedIsPipeline, CopiesAssumption
<1> QED
  BY <1>1, FieldChanges

\* A request is for the namespace its answer will leave in the pipeline.
LEMMA RequestFields ==
  ASSUME WorkInv, NEW i \in DOMAIN lists
  PROVE  lists[i].copy \in Copies \cup {None} /\ lists[i].namespace \in Namespace /\ Sound(lists[i])
<1>1. lists \in Seq(ListRequest) /\ Sound(lists[i])
  BY DEF WorkInv
<1>2. lists[i] \in ListRequest
  BY <1>1
<1> QED
  BY <1>1, <1>2 DEF ListRequest

\* The answer to a request for names keeps the invariant.
LEMMA AnswerListWork ==
  ASSUME WorkInv, NEW i \in DOMAIN lists, AnswerList(i) PROVE WorkInv'
<1> DEFINE r == lists[i]
           taken == server[r.namespace]
<1>1. /\ known' = taken /\ listedIn' = r.namespace /\ lists' = Without(lists, i)
      /\ shell' = shell /\ view' = view
  BY DEF AnswerList, place, screen
<1>2. /\ lists' \in Seq(ListRequest) /\ \A j \in DOMAIN lists' : Sound(lists'[j])
  BY <1>1, WithoutOne DEF WorkInv
<1>3. /\ r.copy \in Copies \cup {None} /\ r.namespace \in Namespace /\ Sound(r)
  BY RequestFields
<1>4. byHand' \in [name : BOOLEAN, namespace : BOOLEAN]
  BY DEF AnswerList, Untouched
<1>5. /\ IsPipeline(pipeline') /\ InSync' /\ NamesDue' /\ GeneratedNameFree'
  <2>1. CASE r.copy = None
    <3>1. /\ Free(NewPipeline, taken) # {} /\ pipeline' = Named(pipeline, r.namespace, taken)
          /\ UNCHANGED <<canvas, crashed>>
      BY <2>1 DEF AnswerList, screen
    <3>2. /\ IsPipeline(pipeline') /\ pipeline'.steps = pipeline.steps
          /\ pipeline'.name = FreshName(NewPipeline, taken) /\ pipeline'.namespace = r.namespace
      BY <3>1, NamedFields DEF WorkInv
    <3>3. pipeline'.name \notin known'
      BY <1>1, <3>1, <3>2, FreshNameIsFree, NamesAssumption
    <3>4. listedIn' = OrDefaultNamespace(pipeline'.namespace)
      BY <1>1, <1>3, <3>2, DefaultIsNotUnset
    <3> QED
      BY <3>1, <3>2, <3>3, <3>4 DEF WorkInv, InSync, NamesDue, GeneratedNameFree
  <2>2. CASE r.copy # None
    <3> DEFINE q == [r.copy EXCEPT !.name = FreshName(r.copy.name, taken)]
    <3>1. Free(r.copy.name, taken) # {} /\ LoadCopied(q)
      BY <2>2 DEF AnswerList
    <3>2. /\ IsPipeline(q) /\ q.steps # <<>> /\ q.namespace = r.copy.namespace
          /\ q.name = FreshName(r.copy.name, taken)
      BY <1>3, <2>2, CopyFields
    <3>3. r.copy.name \in PipelineName
      BY <1>3, <2>2, CopiesAssumption DEF BuilderPipeline
    <3>4. q.name \notin taken
      BY <3>1, <3>2, <3>3, FreshNameIsFree
    <3>5. r.namespace = OrDefaultNamespace(q.namespace)
      BY <1>3, <2>2, <3>2 DEF Sound
    <3> HIDE DEF q
    <3>6. pipeline' = q /\ canvas' = q.steps
      BY <3>1, <3>2 DEF LoadCopied
    <3> QED
      BY <1>1, <3>2, <3>4, <3>5, <3>6 DEF InSync, NamesDue, GeneratedNameFree
  <2> QED
    BY <2>1, <2>2
<1> QED
  BY <1>1, <1>2, <1>4, <1>5 DEF WorkInv

\* So does its failure.
LEMMA FailListWork ==
  ASSUME WorkInv, NEW i \in DOMAIN lists, FailList(i) PROVE WorkInv'
<1>1. /\ lists' = Without(lists, i) /\ missed' = missed \cup {lists[i].namespace}
      /\ UNCHANGED <<shell, visit, view, crashed, known, listedIn>>
  BY DEF FailList, place, screen
<1>2. /\ lists' \in Seq(ListRequest) /\ \A j \in DOMAIN lists' : Sound(lists'[j])
  BY <1>1, WithoutOne DEF WorkInv
<1>3. lists[i].copy \in Copies \cup {None} /\ Sound(lists[i])
  BY RequestFields
<1>4. byHand' \in [name : BOOLEAN, namespace : BOOLEAN]
  <2>1. CASE lists[i].copy = None
    BY <2>1 DEF FailList, WorkInv
  <2>2. CASE lists[i].copy # None
    BY <2>2 DEF FailList, Untouched
  <2> QED
    BY <2>1, <2>2
<1>5. IsPipeline(pipeline') /\ InSync'
  <2>1. CASE lists[i].copy = None
    BY <1>1, <2>1 DEF FailList, WorkInv, InSync
  <2>2. CASE lists[i].copy # None
    <3>1. IsPipeline(lists[i].copy) /\ lists[i].copy.steps # <<>>
      BY <1>3, <2>2, TypedIsPipeline, CopiesAssumption
    <3> QED
      BY <2>2, <3>1 DEF FailList, LoadCopied, InSync
  <2> QED
    BY <2>1, <2>2
<1>6. NamesDue' /\ GeneratedNameFree'
  <2>1. CASE lists[i].copy = None
    <3>1. UNCHANGED <<pipeline, byHand>>
      BY <2>1 DEF FailList
    <3>2. \A j \in DOMAIN lists : j = i \/ \E k \in DOMAIN lists' : lists'[k] = lists[j]
      BY <1>1, OthersStay DEF WorkInv
    <3> QED
      BY <1>1, <2>1, <3>1, <3>2 DEF WorkInv, NamesDue, GeneratedNameFree
  <2>2. CASE lists[i].copy # None
    <3>1. pipeline' = lists[i].copy /\ byHand'.name
      BY <2>2 DEF FailList, LoadCopied, Untouched
    <3>2. lists[i].namespace = OrDefaultNamespace(pipeline'.namespace)
      BY <1>3, <2>2, <3>1 DEF Sound
    <3> QED
      BY <1>1, <3>1, <3>2 DEF NamesDue, GeneratedNameFree
  <2> QED
    BY <2>1, <2>2
<1> QED
  BY <1>1, <1>2, <1>4, <1>5, <1>6 DEF WorkInv

\* An action that leaves the lists alone need only keep pipeline, cards and
\* view in order, and the namespace and the name where the history says so.
LEMMA OtherWork ==
  ASSUME WorkInv, UNCHANGED <<shell, visit, lists, known, listedIn, missed>>, IsPipeline(pipeline'),
         view' = [mode |-> view'.mode, switch |-> view'.switch, text |-> view'.text],
         view'.text # Broken => IsPipeline(view'.text),
         byHand' \in [name : BOOLEAN, namespace : BOOLEAN], InSync',
         ~ byHand'.namespace => ~ byHand.namespace /\ pipeline'.namespace = pipeline.namespace,
         ~ byHand'.name => ~ byHand.name /\ pipeline'.name = pipeline.name
  PROVE  WorkInv'
BY DEF WorkInv, NamesDue, GeneratedNameFree

\* Each step keeps the invariant of the names.
LEMMA WorkStep == ASSUME WorkInv, [Next]_vars PROVE WorkInv'
<1>q. ASSUME UNCHANGED <<shell, visit, pipeline, canvas, crashed, view, known, listedIn, missed, byHand, lists>>
      PROVE  WorkInv'
  BY <1>q DEF WorkInv, InSync, NamesDue, GeneratedNameFree
<1>1. CASE Cards
  <2>1. CardsGesture
    BY <1>1, CardsStep
  <2>2. UNCHANGED <<shell, visit, lists, known, listedIn, missed, view, byHand>>
    BY <2>1 DEF CardsGesture, OnPage, place, requests, names
  <2>3. /\ IsPipeline(pipeline') /\ InSync'
        /\ pipeline'.namespace = pipeline.namespace /\ pipeline'.name = pipeline.name
    BY <2>1, FromCanvasFields DEF CardsGesture, WorkInv, InSync
  <2> QED
    BY <2>2, <2>3, OtherWork DEF WorkInv
<1>2. ASSUME NEW copy \in Copies \cup {None}, OpenBuilder(copy) PROVE WorkInv'
  <2> DEFINE r == [copy |-> copy,
                   namespace |-> IF copy = None THEN shell ELSE OrDefaultNamespace(copy.namespace)]
  <2>1. /\ lists' = <<r>> /\ known' = {} /\ byHand' = Untouched /\ shell' = shell
        /\ pipeline' = EmptyPipeline(shell) /\ canvas' = <<>> /\ view' = AtStart
    BY <1>2 DEF OpenBuilder, NewPage
  <2>2. r \in ListRequest /\ Sound(r)
    <3>1. CASE copy = None
      BY <3>1 DEF WorkInv, ListRequest, Sound
    <3>2. CASE copy # None
      <4>1. copy.namespace \in Namespace \cup {Unset}
        BY <3>2, CopiesAssumption DEF BuilderPipeline
      <4> QED
        BY <3>2, <4>1, OrDefaultType DEF ListRequest, Sound
    <3> QED
      BY <3>1, <3>2
  <2>n. r.copy # None \/ r.namespace = OrDefaultNamespace(shell)
    BY DefaultIsNotUnset DEF WorkInv
  <2> HIDE DEF r
  <2>3. lists' \in Seq(ListRequest) /\ \A i \in DOMAIN lists' : Sound(lists'[i])
    BY <2>1, <2>2
  <2>5. NamesDue' /\ GeneratedNameFree'
    <3>1. 1 \in DOMAIN lists' /\ lists'[1] = r /\ pipeline'.namespace = shell
      BY <2>1 DEF EmptyPipeline
    <3> QED
      BY <2>1, <2>n, <3>1 DEF NamesDue, GeneratedNameFree
  <2>4. /\ IsPipeline(pipeline') /\ InSync'
        /\ view' = [mode |-> view'.mode, switch |-> view'.switch, text |-> view'.text]
        /\ IsPipeline(view'.text)
    BY <2>1, EmptyIsPipeline DEF AtStart, InSync
  <2> QED
    BY <2>1, <2>3, <2>4, <2>5 DEF WorkInv, Untouched
<1>3. ASSUME Navigate, shell' = shell PROVE WorkInv'
  <2>1. /\ lists' = <<>> /\ visit' = 0 /\ known' = {} /\ byHand' = Untouched
        /\ pipeline' = EmptyPipeline("default") /\ canvas' = <<>> /\ view' = AtStart
    BY <1>3 DEF Navigate, NewPage
  <2>2. /\ IsPipeline(pipeline') /\ InSync'
        /\ view' = [mode |-> view'.mode, switch |-> view'.switch, text |-> view'.text]
        /\ IsPipeline(view'.text)
    BY <2>1, EmptyIsPipeline DEF AtStart, InSync
  <2>3. lists' \in Seq(ListRequest) /\ DOMAIN lists' = {}
    BY <2>1
  <2> QED
    BY <1>3, <2>1, <2>2, <2>3 DEF WorkInv, Untouched, NamesDue, GeneratedNameFree
<1>4. ASSUME NEW ns \in Namespace, HandleNamespaceChange(ns) PROVE WorkInv'
  <2>1. UNCHANGED <<visit, canvas, crashed, view, known, listedIn, missed>> /\ shell' = ns
    BY <1>4 DEF HandleNamespaceChange, screen, names
  <2>2. CASE visit # 0 /\ canvas = <<>>
    <3> DEFINE r == [copy |-> None, namespace |-> ns]
    <3>1. /\ pipeline' = [pipeline EXCEPT !.namespace = ns] /\ lists' = Append(lists, r)
          /\ byHand' = [byHand EXCEPT !.namespace = FALSE]
      BY <1>4, <2>2 DEF HandleNamespaceChange
    <3>2. IsPipeline(pipeline') /\ pipeline'.steps = pipeline.steps /\ pipeline'.name = pipeline.name
      BY <3>1, FieldChanges DEF WorkInv
    <3>3. r \in ListRequest /\ Sound(r)
      BY DEF ListRequest, Sound
    <3>n. r.namespace = ns /\ pipeline'.namespace = ns /\ OrDefaultNamespace(ns) = ns
      BY <3>1, DefaultIsNotUnset DEF WorkInv, IsPipeline
    <3> HIDE DEF r
    <3>4. /\ lists' \in Seq(ListRequest)
          /\ \A i \in DOMAIN lists' : Sound(lists'[i])
          /\ Len(lists') \in DOMAIN lists' /\ lists'[Len(lists')] = r
      BY <3>1, <3>3 DEF WorkInv
    <3>6. NamesDue'
      BY <3>n, <3>4 DEF NamesDue
    <3>5. byHand' \in [name : BOOLEAN, namespace : BOOLEAN] /\ byHand'.name = byHand.name
      BY <3>1 DEF WorkInv
    <3> QED
      BY <2>1, <3>2, <3>4, <3>5, <3>6 DEF WorkInv, InSync, GeneratedNameFree
  <2>3. CASE ~ (visit # 0 /\ canvas = <<>>)
    BY <1>4, <2>1, <2>3 DEF HandleNamespaceChange, WorkInv, InSync, NamesDue, GeneratedNameFree
  <2> QED
    BY <2>2, <2>3
<1>5. ASSUME NEW name, UpdatePipelineName(name) PROVE WorkInv'
  <2>1. /\ pipeline' = [pipeline EXCEPT !.name = name] /\ byHand' = [byHand EXCEPT !.name = TRUE]
        /\ UNCHANGED <<shell, visit, lists, known, listedIn, missed, canvas, crashed, view>>
    BY <1>5 DEF UpdatePipelineName, OnPage, place, requests, names, screen
  <2>2. /\ IsPipeline(pipeline') /\ pipeline'.steps = pipeline.steps
        /\ pipeline'.namespace = pipeline.namespace
    BY <2>1, FieldChanges DEF WorkInv
  <2>3. /\ byHand' \in [name : BOOLEAN, namespace : BOOLEAN] /\ byHand'.name
        /\ byHand'.namespace = byHand.namespace
    BY <2>1 DEF WorkInv
  <2> QED
    BY <2>1, <2>2, <2>3, OtherWork DEF WorkInv, InSync
<1>6. ASSUME NEW c, UpdateSettings(c) PROVE WorkInv'
  <2>1. /\ pipeline' = [pipeline EXCEPT !.settings = c]
        /\ UNCHANGED <<shell, visit, lists, known, listedIn, missed, canvas, crashed, view, byHand>>
    BY <1>6 DEF UpdateSettings, EditSettings, OnPage, place, requests, names, screen
  <2>2. /\ IsPipeline(pipeline') /\ pipeline'.steps = pipeline.steps
        /\ pipeline'.name = pipeline.name /\ pipeline'.namespace = pipeline.namespace
    BY <2>1, FieldChanges DEF WorkInv
  <2> QED
    BY <2>1, <2>2, OtherWork DEF WorkInv, InSync
<1>7. ASSUME NEW ns, UpdateNamespace(ns) PROVE WorkInv'
  <2>1. /\ pipeline' = [pipeline EXCEPT !.namespace = ns] /\ byHand' = [byHand EXCEPT !.namespace = TRUE]
        /\ UNCHANGED <<shell, visit, lists, known, listedIn, missed, canvas, crashed, view>>
    BY <1>7 DEF UpdateNamespace, EditSettings, OnPage, place, requests, names, screen
  <2>2. IsPipeline(pipeline') /\ pipeline'.steps = pipeline.steps /\ pipeline'.name = pipeline.name
    BY <2>1, FieldChanges DEF WorkInv
  <2>3. /\ byHand' \in [name : BOOLEAN, namespace : BOOLEAN] /\ byHand'.namespace
        /\ byHand'.name = byHand.name
    BY <2>1 DEF WorkInv
  <2> QED
    BY <2>1, <2>2, <2>3, OtherWork DEF WorkInv, InSync
<1>8. CASE SwitchToYamlView
  <2>1. /\ pipeline' = FromCanvas(pipeline, canvas)
        /\ view' = [mode |-> "yaml", switch |-> TRUE, text |-> FromCanvas(pipeline, canvas)]
        /\ UNCHANGED <<shell, visit, lists, known, listedIn, missed, canvas, crashed, byHand>>
    BY <1>8 DEF SwitchToYamlView, OnPage, place, requests, names
  <2>2. /\ IsPipeline(pipeline') /\ IsPipeline(view'.text) /\ pipeline'.steps = canvas
        /\ pipeline'.name = pipeline.name /\ pipeline'.namespace = pipeline.namespace
    BY <2>1, FromCanvasFields DEF WorkInv
  <2> QED
    BY <2>1, <2>2, OtherWork DEF WorkInv, InSync
<1>9. CASE SwitchToBuilderView
  <2>1. UNCHANGED <<shell, visit, lists, known, listedIn, missed, crashed>>
    BY <1>9 DEF SwitchToBuilderView, OnPage, place, requests, names
  <2>2. CASE view.text = Broken
    <3>1. view' = [view EXCEPT !.switch = FALSE] /\ UNCHANGED <<pipeline, canvas, byHand>>
      BY <1>9, <2>2 DEF SwitchToBuilderView
    <3>2. /\ view' = [mode |-> view'.mode, switch |-> view'.switch, text |-> view'.text]
          /\ view'.text = view.text
      BY <3>1 DEF WorkInv
    <3> QED
      BY <2>1, <3>1, <3>2, OtherWork DEF WorkInv, InSync
  <2>3. CASE view.text # Broken
    <3>1. /\ view' = [view EXCEPT !.switch = FALSE, !.mode = "builder"]
          /\ pipeline' = view.text /\ canvas' = view.text.steps
          /\ byHand' = [name |-> TRUE, namespace |-> TRUE]
      BY <1>9, <2>3 DEF SwitchToBuilderView
    <3>2. /\ view' = [mode |-> view'.mode, switch |-> view'.switch, text |-> view'.text]
          /\ view'.text = view.text
      BY <3>1 DEF WorkInv
    <3>3. IsPipeline(pipeline') /\ InSync'
      BY <2>3, <3>1 DEF WorkInv, InSync
    <3> QED
      BY <2>1, <3>1, <3>2, <3>3, OtherWork DEF WorkInv
  <2> QED
    BY <2>2, <2>3
<1>10. ASSUME NEW text \in Texts, HandleYamlChange(text) PROVE WorkInv'
  <2>1. /\ view' = [view EXCEPT !.text = text]
        /\ UNCHANGED <<shell, visit, lists, known, listedIn, missed, pipeline, canvas, crashed, byHand>>
    BY <1>10 DEF HandleYamlChange, OnPage, place, requests, names
  <2>2. /\ view' = [mode |-> view'.mode, switch |-> view'.switch, text |-> view'.text]
        /\ view'.text = text
    BY <2>1 DEF WorkInv
  <2>3. text # Broken => IsPipeline(text)
    BY TextsAssumption, TypedIsPipeline
  <2> QED
    BY <2>1, <2>2, <2>3, OtherWork DEF WorkInv, InSync
<1>11. CASE SavePipeline
  <2>1. /\ pipeline' = IF view.mode = "yaml" THEN pipeline ELSE FromCanvas(pipeline, canvas)
        /\ UNCHANGED <<shell, visit, lists, known, listedIn, missed, canvas, crashed, view, byHand>>
    BY <1>11 DEF SavePipeline, place, screen, names
  <2>2. /\ IsPipeline(pipeline') /\ InSync'
        /\ pipeline'.name = pipeline.name /\ pipeline'.namespace = pipeline.namespace
    BY <2>1, FromCanvasFields DEF WorkInv, InSync
  <2> QED
    BY <2>1, <2>2, OtherWork DEF WorkInv
<1>12. ASSUME NEW i \in DOMAIN lists, AnswerList(i) \/ FailList(i) PROVE WorkInv'
  BY <1>12, AnswerListWork, FailListWork
<1>13. CASE LeaveBuilder \/ \E c \in creates : AnswerStored(c)
  BY <1>13, <1>3 DEF LeaveBuilder, AnswerStored
<1>14. CASE \/ OpenSettings \/ CloseDrawer
            \/ \E c \in creates : ServerCreates(c) \/ AnswerRefused(c) \/ LoseCreate(c)
            \/ \E ns \in Namespace, name \in TypedName \cap ValidPipelineName : OtherCreates(ns, name)
            \/ UNCHANGED vars
  BY <1>14, <1>q DEF OpenSettings, CloseDrawer, SetDrawer, ServerCreates, AnswerRefused, LoseCreate,
                     TellFailure, OtherCreates, OnPage, place, requests, names, screen, vars
<1> QED
  BY <1>1, <1>2, <1>4, <1>5, <1>6, <1>7, <1>8, <1>9, <1>10, <1>11, <1>12, <1>13, <1>14
     DEF Next, Page, Network

----------------------------------------------------------------------------
\* The invariant of the names holds always.
THEOREM WorkAlways == Spec => []WorkInv
<1>1. Init => WorkInv
  BY WorkInit
<1>2. WorkInv /\ [Next]_vars => WorkInv'
  BY WorkStep
<1> QED
  BY <1>1, <1>2, PTL DEF Spec

\* The cards and the pipeline are the same steps, whatever is pressed and
\* whatever is answered (updatePipelineFromCanvas).
THEOREM CanvasIsPipeline == Spec => []InSync
<1>1. WorkInv => InSync
  BY DEF WorkInv
<1> QED
  BY <1>1, WorkAlways, PTL

\* The names known are of the pipeline's namespace unless that was set by
\* hand, or its list is still due or has failed (loadExistingPipelines).
THEOREM NamesAreOfNamespace == Spec => []NamesOfNamespace
<1>1. WorkInv => NamesOfNamespace
  BY DEF WorkInv, NamesDue, NamesOfNamespace
<1> QED
  BY <1>1, WorkAlways, PTL

\* A generated name is none of the names known (loadExistingPipelines,
\* loadFromCopiedPipeline).
THEOREM GeneratedNamesAreFree == Spec => []GeneratedNameFree
<1>1. WorkInv => GeneratedNameFree
  BY DEF WorkInv
<1> QED
  BY <1>1, WorkAlways, PTL

\* Both together.
THEOREM NamesAlwaysFit == Spec => []NamesFit
BY NamesAreOfNamespace, GeneratedNamesAreFree, PTL DEF NamesFit

\* No visit has two requests to create under way, so that none stores two
\* pipelines without an error in between (savePipeline).
THEOREM OnePipelinePerSave == Spec => []NoSecondPipeline
<1>1. Init => SavesInv
  BY SavesInit
<1>2. SavesInv /\ [Next]_vars => SavesInv'
  BY SavesStep
<1>3. SavesInv => NoSecondPipeline
  BY DEF SavesInv, NoSecondPipeline
<1> QED
  BY <1>1, <1>2, <1>3, PTL DEF Spec

----------------------------------------------------------------------------
\* What is sent.

SentAsShown(c) ==
  /\ c.visit = visit
  /\ view.mode = "yaml" => c.pipeline = view.text
  /\ view.mode = "builder" => /\ c.pipeline.steps = canvas
                              /\ c.pipeline.name = pipeline.name
                              /\ c.pipeline.namespace = pipeline.namespace
                              /\ c.pipeline.settings = pipeline.settings
  /\ c.pipeline.name \in ValidPipelineName \ known
  /\ c.pipeline.steps # <<>>

NewRequestsAsShown == \A c \in creates' \ creates : c.state = "sent" => SentAsShown(c)

\* savePipeline sends what is shown.
LEMMA SavePipelineSends == ASSUME WorkInv, SavePipeline PROVE NewRequestsAsShown
<1>1. CASE NameIsFine(ToSave.name) /\ ToSave.steps # <<>>
  <2> DEFINE new == [visit |-> visit, pipeline |-> ToSave, state |-> "sent"]
  <2>1. creates' = creates \cup {new}
    BY <1>1 DEF SavePipeline
  <2>2. ToSave.name \in ValidPipelineName \ known
    BY <1>1 DEF NameIsFine
  <2>3. view.mode = "yaml" => ToSave = view.text
    BY DEF ToSave
  <2>4. view.mode = "builder" => /\ ToSave.steps = canvas
                                 /\ ToSave.name = pipeline.name
                                 /\ ToSave.namespace = pipeline.namespace
                                 /\ ToSave.settings = pipeline.settings
    BY FromCanvasFields DEF ToSave, WorkInv
  <2>5. SentAsShown(new)
    BY <1>1, <2>2, <2>3, <2>4 DEF SentAsShown
  <2> QED
    BY <2>1, <2>5 DEF NewRequestsAsShown
<1>2. CASE ~ (NameIsFine(ToSave.name) /\ ToSave.steps # <<>>)
  BY <1>2 DEF SavePipeline, NewRequestsAsShown
<1> QED
  BY <1>1, <1>2

\* Nothing else sends a request to create.
LEMMA OnlySavingSends == ASSUME WorkInv, SavesInv, [Next]_vars PROVE NewRequestsAsShown
<1>q. ASSUME creates' \subseteq creates PROVE NewRequestsAsShown
  BY <1>q DEF NewRequestsAsShown
<1>1. CASE Cards
  BY <1>1, <1>q, CardsStep DEF CardsGesture, OnPage, requests
<1>2. CASE SavePipeline
  BY <1>2, SavePipelineSends
<1>3. ASSUME NEW c \in creates, ServerCreates(c) PROVE NewRequestsAsShown
  <2>1. PICK outcome \in {"stored", "refused"} :
          creates' = (creates \ {c}) \cup {[c EXCEPT !.state = outcome]}
    BY <1>3 DEF ServerCreates
  <2>2. [c EXCEPT !.state = outcome].state = outcome
    BY DEF SavesInv
  <2> QED
    BY <2>1, <2>2 DEF NewRequestsAsShown
<1>4. CASE \/ \E copy \in Copies \cup {None} : OpenBuilder(copy)
           \/ LeaveBuilder
           \/ \E ns \in Namespace : HandleNamespaceChange(ns)
           \/ \E name \in TypedName : UpdatePipelineName(name)
           \/ OpenSettings \/ CloseDrawer
           \/ SwitchToYamlView \/ SwitchToBuilderView
           \/ \E text \in Texts : HandleYamlChange(text)
           \/ UNCHANGED vars
  BY <1>4, <1>q DEF OpenBuilder, LeaveBuilder, HandleNamespaceChange, UpdatePipelineName, OpenSettings,
                    CloseDrawer, SetDrawer, SwitchToYamlView, SwitchToBuilderView, HandleYamlChange,
                    OnPage, requests, vars
<1>5. CASE \/ \E c \in Content : UpdateSettings(c)
           \/ \E ns \in Namespace \cup {Unset} : UpdateNamespace(ns)
           \/ \E i \in DOMAIN lists : AnswerList(i) \/ FailList(i)
           \/ \E c \in creates : AnswerStored(c) \/ AnswerRefused(c) \/ LoseCreate(c)
           \/ \E ns \in Namespace, name \in TypedName \cap ValidPipelineName : OtherCreates(ns, name)
  BY <1>5, <1>q DEF UpdateSettings, UpdateNamespace, EditSettings, AnswerList, FailList, AnswerStored,
                    AnswerRefused, LoseCreate, TellFailure, OtherCreates, OnPage, requests
<1> QED
  BY <1>1, <1>2, <1>3, <1>4, <1>5 DEF Next, Page, Network

\* What is sent to be created is what the page shows at that moment, in both
\* views, with a step and a name not known to be taken (savePipeline).
THEOREM SavesWhatIsShown == Spec => SavedAsShown
<1>1. WorkInv /\ SavesInv /\ [Next]_vars => [NewRequestsAsShown]_vars
  BY OnlySavingSends
<1>2. Init => SavesInv
  BY SavesInit
<1>3. SavesInv /\ [Next]_vars => SavesInv'
  BY SavesStep
<1>4. [][NewRequestsAsShown]_vars => SavedAsShown
  BY DEF NewRequestsAsShown, SentAsShown, SavedAsShown
<1> QED
  BY <1>1, <1>2, <1>3, <1>4, WorkAlways, PTL DEF Spec

----------------------------------------------------------------------------
\* The graph of a pipeline whose steps have names of their own, with any
\* phases.

\* A pipeline held with those phases has these specs and statuses.
LEMMA HeldFields ==
  ASSUME NEW n \in Nat, NEW steps, DOMAIN steps = 1..n, NEW phase,
         NEW p, p = WithPhases(steps, phase)
  PROVE  /\ p.spec = steps /\ DOMAIN p.steps = 1..n /\ StepsOf(p) = NamesOf(steps)
         /\ \A i \in 1..n : p.steps[i].name = steps[i].name /\ p.steps[i].phase = phase[steps[i].name]
<1>1. /\ p.spec = steps
      /\ p.steps = [i \in DOMAIN steps |-> [name |-> steps[i].name, phase |-> phase[steps[i].name], job |-> FALSE]]
  BY DEF WithPhases
<1> QED
  BY <1>1 DEF StepsOf, NamesOf

\* The least of one number is that number.
LEMMA LeastOfOne == ASSUME NEW i \in Nat PROVE Least({i}) = i
BY DEF Least

\* Where names are unique, a name finds its own spec, status and phase.
LEMMA HeldPhases ==
  ASSUME NEW n \in Nat, NEW steps, DOMAIN steps = 1..n, UniqueNames(steps), NEW phase,
         NEW p, p = WithPhases(steps, phase)
  PROVE  /\ \A i \in 1..n : /\ StepIndex(p, steps[i].name) = i
                            /\ StatusIndex(p, steps[i].name) = i
                            /\ StatusPhase(p, steps[i].name) = phase[steps[i].name]
         /\ \A name : name \notin NamesOf(steps) => StatusPhase(p, name) = "nil"
<1>1. /\ p.spec = steps /\ DOMAIN p.steps = 1..n
      /\ \A i \in 1..n : p.steps[i].name = steps[i].name /\ p.steps[i].phase = phase[steps[i].name]
  BY HeldFields
<1>2. ASSUME NEW i \in 1..n
      PROVE  /\ StepIndex(p, steps[i].name) = i /\ StatusIndex(p, steps[i].name) = i
             /\ StatusPhase(p, steps[i].name) = phase[steps[i].name]
  <2>1. \A j \in 1..n : steps[j].name = steps[i].name <=> j = i
    BY <1>2 DEF UniqueNames
  <2>2. {j \in DOMAIN p.spec : p.spec[j].name = steps[i].name} = {i}
    BY <1>1, <1>2, <2>1
  <2>3. {j \in DOMAIN p.steps : p.steps[j].name = steps[i].name} = {i}
    BY <1>1, <1>2, <2>1
  <2>4. i \in Nat /\ i # 0
    BY <1>2
  <2>5. StepIndex(p, steps[i].name) = i /\ StatusIndex(p, steps[i].name) = i
    BY <2>2, <2>3, <2>4, LeastOfOne DEF StepIndex, StatusIndex
  <2> QED
    BY <1>1, <2>4, <2>5 DEF StatusPhase
<1>3. ASSUME NEW name, name \notin NamesOf(steps) PROVE StatusPhase(p, name) = "nil"
  <2>1. {j \in DOMAIN p.steps : p.steps[j].name = name} = {}
    BY <1>1, <1>3 DEF NamesOf
  <2> QED
    BY <2>1 DEF StatusPhase, StatusIndex
<1> QED
  BY <1>2, <1>3

\* An arrow starts at the node of its step, which shows the step's phase.
LEMMA SourcePhases ==
  ASSUME NEW n \in Nat, NEW steps, DOMAIN steps = 1..n, UniqueNames(steps), NEW phase,
         NEW p, p = WithPhases(steps, phase), NEW a, a.source \in NamesOf(steps)
  PROVE  SourcePhase(p, a) = phase[a.source]
<1>1. p.spec = steps
  BY HeldFields
<1>2. ASSUME NEW i \in 1..n
      PROVE  (IF StatusIndex(p, steps[i].name) = 0 THEN "Pending" ELSE StatusPhase(p, steps[i].name))
               = phase[steps[i].name]
  <2>1. StatusIndex(p, steps[i].name) = i /\ StatusPhase(p, steps[i].name) = phase[steps[i].name]
    BY <1>2, HeldPhases
  <2> QED
    BY <1>2, <2>1
<1>3. Nodes(p) = {[id |-> steps[i].name, phase |-> phase[steps[i].name]] : i \in 1..n}
  BY <1>1, <1>2 DEF Nodes
<1>4. PICK i \in 1..n : steps[i].name = a.source
  BY DEF NamesOf
<1>5. \E m \in Nodes(p) : m.id = a.source
  <2>1. [id |-> steps[i].name, phase |-> phase[steps[i].name]] \in Nodes(p)
    BY <1>3
  <2> QED
    BY <1>4, <2>1
<1>6. \A m \in Nodes(p) : m.id = a.source => m.phase = phase[a.source]
  BY <1>3
<1> QED
  BY <1>5, <1>6 DEF SourcePhase

\* The arrows to a step are those of its own runIf or place.
LEMMA ArrowsAreEdges ==
  ASSUME NEW n \in Nat, NEW steps, DOMAIN steps = 1..n, UniqueNames(steps), NEW phase,
         NEW p, p = WithPhases(steps, phase), NEW i \in 1..n
  PROVE  ArrowsTo(p, steps[i].name) = EdgesInto(p, i)
<1>1. p.spec = steps /\ StepsOf(p) = NamesOf(steps)
  BY HeldFields
<1>2. \A j \in 1..n : steps[j].name \in NamesOf(steps)
  BY DEF NamesOf
<1>3. ASSUME NEW j \in 1..n, NEW e \in EdgesInto(p, j)
      PROVE  e.target = steps[j].name /\ e.source \in NamesOf(steps)
  <2>1. CASE HasConditionalExecution(steps[j])
    BY <1>1, <1>3, <2>1 DEF EdgesInto
  <2>2. CASE ~ HasConditionalExecution(steps[j])
    BY <1>1, <1>2, <1>3, <2>2 DEF EdgesInto
  <2> QED
    BY <2>1, <2>2
<1>4. {m.id : m \in Nodes(p)} = NamesOf(steps)
  <2> DEFINE Node(j) == [id |-> steps[j].name,
                         phase |-> IF StatusIndex(p, steps[j].name) = 0 THEN "Pending"
                                   ELSE StatusPhase(p, steps[j].name)]
  <2>1. Nodes(p) = {Node(j) : j \in 1..n}
    BY <1>1 DEF Nodes
  <2>2. \A j \in 1..n : Node(j).id = steps[j].name
    OBVIOUS
  <2> HIDE DEF Node
  <2>3. {m.id : m \in {Node(j) : j \in 1..n}} = {steps[j].name : j \in 1..n}
    BY <2>2
  <2> QED
    BY <2>1, <2>3 DEF NamesOf
<1>5. \A j \in 1..n : \A e \in EdgesInto(p, j) : {e.source, e.target} \subseteq {m.id : m \in Nodes(p)}
  BY <1>2, <1>3, <1>4
<1>6. Arrows(p) = UNION {EdgesInto(p, j) : j \in 1..n}
  BY <1>1, <1>5 DEF Arrows, Edges
<1>7. \A j \in 1..n : \A e \in EdgesInto(p, j) : e.target = steps[i].name <=> j = i
  BY <1>3 DEF UniqueNames
<1>8. \A e : e \in ArrowsTo(p, steps[i].name) <=> e \in EdgesInto(p, i)
  BY <1>6, <1>7 DEF ArrowsTo
<1> QED
  BY <1>8

\* What the arrows to a step say, and the operator does.
LEMMA SequentialTells ==
  ASSUME NEW n \in Nat, NEW steps, DOMAIN steps = 1..n, UniqueNames(steps),
         NEW phase \in [NamesOf(steps) -> TellingPhase],
         NEW p, p = WithPhases(steps, phase), NEW i \in 1..n, ~ HasConditionalExecution(steps[i])
  PROVE  ArrowsTell(p, steps[i])
<1> DEFINE step    == steps[i]
           arrows  == ArrowsTo(p, step.name)
           earlier == {phase[steps[j].name] : j \in 1..(i - 1)}
<1>1. p.spec = steps /\ StepIndex(p, step.name) = i
  BY HeldFields, HeldPhases
<1>2. \A j \in 1..n : StatusPhase(p, steps[j].name) = phase[steps[j].name] /\ phase[steps[j].name] \in TellingPhase
  BY HeldPhases DEF NamesOf
<1>3. {StatusPhase(p, name) : name \in {p.spec[j].name : j \in 1..(StepIndex(p, step.name) - 1)}} = earlier
  <2> DEFINE phases == {StatusPhase(p, name) : name \in {p.spec[j].name : j \in 1..(StepIndex(p, step.name) - 1)}}
  <2>1. ASSUME NEW x \in phases PROVE x \in earlier
    <3>1. PICK j \in 1..(StepIndex(p, step.name) - 1) : x = StatusPhase(p, p.spec[j].name)
      BY <2>1
    <3>2. j \in 1..(i - 1) /\ j \in 1..n /\ x = StatusPhase(p, steps[j].name)
      BY <1>1, <3>1
    <3> QED
      BY <1>2, <3>2
  <2>2. ASSUME NEW x \in earlier PROVE x \in phases
    <3>1. PICK j \in 1..(i - 1) : x = phase[steps[j].name]
      BY <2>2
    <3>2. j \in 1..n /\ j \in 1..(StepIndex(p, step.name) - 1) /\ x = StatusPhase(p, p.spec[j].name)
      BY <1>1, <1>2, <3>1
    <3> QED
      BY <3>2
  <2> QED
    BY <2>1, <2>2
<1>4. "nil" \notin earlier
  BY <1>2 DEF TellingPhase, StepPhase
<1>5. AreDependenciesSatisfied(p, step) =
        IF earlier \cap {"Pending", "Running"} # {} THEN "wait"
        ELSE IF earlier \cap {"Failed", "Skipped"} # {} THEN "skip" ELSE "ready"
  <2>1. AreDependenciesSatisfied(p, step) = CheckSequentialExecution(p, step)
    BY DEF AreDependenciesSatisfied
  <2> DEFINE phases == {StatusPhase(p, name) : name \in {p.spec[j].name : j \in 1..(StepIndex(p, step.name) - 1)}}
  <2>2. CheckSequentialExecution(p, step) =
          IF "nil" \in phases THEN "panic"
          ELSE IF phases \cap {"Pending", "Running"} # {} THEN "wait"
          ELSE IF phases \cap {"Failed", "Skipped"} # {} THEN "skip" ELSE "ready"
    BY DEF CheckSequentialExecution
  <2>3. phases = earlier
    BY <1>3
  <2> HIDE DEF phases, earlier, step
  <2> QED
    BY <1>4, <2>1, <2>2, <2>3
<1>6. arrows = {[source |-> steps[j].name, target |-> step.name, type |-> "sequential"] : j \in {i - 1} \cap 1..n}
  <2> DEFINE Arrow(j) == [source |-> steps[j].name, target |-> step.name, type |-> "sequential"]
  <2>1. arrows = EdgesInto(p, i)
    BY ArrowsAreEdges
  <2>2. EdgesInto(p, i) = {[source |-> p.spec[j].name, target |-> p.spec[i].name, type |-> "sequential"]
                             : j \in {i - 1} \cap DOMAIN p.spec}
    BY <1>1 DEF EdgesInto
  <2>3. \A e : e \in EdgesInto(p, i) <=> \E j \in {i - 1} \cap 1..n : e = Arrow(j)
    BY <1>1, <2>2
  <2> QED
    BY <2>1, <2>3
<1>7. ASSUME NEW a \in arrows
      PROVE  /\ a.type = "sequential" /\ i - 1 \in 1..(i - 1)
             /\ SourcePhase(p, a) = phase[steps[i - 1].name] /\ SourcePhase(p, a) \in earlier
  <2>1. PICK j \in {i - 1} \cap 1..n : a = [source |-> steps[j].name, target |-> step.name, type |-> "sequential"]
    BY <1>6
  <2>2. j = i - 1 /\ j \in 1..n /\ j \in 1..(i - 1) /\ a.source = steps[j].name /\ a.type = "sequential"
    BY <2>1
  <2>3. a.source \in NamesOf(steps)
    BY <2>2 DEF NamesOf
  <2>4. SourcePhase(p, a) = phase[a.source]
    BY <2>3, SourcePhases
  <2> QED
    BY <2>2, <2>4
<1>8. ASSUME NEW a \in arrows, SourcePhase(p, a) \in {"Pending", "Running"}
      PROVE  AreDependenciesSatisfied(p, step) = "wait"
  BY <1>5, <1>7, <1>8
<1>9. ASSUME NEW a \in arrows, AreDependenciesSatisfied(p, step) = "ready" PROVE Arrived(p, a)
  <2>1. SourcePhase(p, a) \in earlier /\ a.type = "sequential"
    BY <1>7
  <2>2. earlier \cap {"Pending", "Running", "Failed", "Skipped"} = {}
    BY <1>5, <1>9
  <2>3. earlier \subseteq TellingPhase
    BY <1>2
  <2> QED
    BY <2>1, <2>2, <2>3 DEF Arrived, TellingPhase, StepPhase
<1> HIDE DEF arrows, earlier, step
<1>10. AreDependenciesSatisfied(p, step) = "ready" => {a \in arrows : Arrived(p, a)} = arrows
  BY <1>9
<1>11. {a \in arrows : SourcePhase(p, a) \in {"Pending", "Running"}} # {} => AreDependenciesSatisfied(p, step) = "wait"
  BY <1>8
<1> QED
  BY <1>10, <1>11 DEF ArrowsTell, arrows, step

\* The arrows to a step with a runIf come from what it waits for.
LEMMA ConditionalTells ==
  ASSUME NEW n \in Nat, NEW steps, DOMAIN steps = 1..n, UniqueNames(steps),
         NEW phase \in [NamesOf(steps) -> TellingPhase],
         NEW p, p = WithPhases(steps, phase), NEW i \in 1..n, HasConditionalExecution(steps[i])
  PROVE  ArrowsTell(p, steps[i])
<1> DEFINE step   == steps[i]
           named  == step.runIf.steps
           there  == named \cap NamesOf(steps)
           type   == EdgeTypeOf(step.runIf)
           wanted == IF IsCheckingFailure(step.runIf) THEN "Failed" ELSE "Succeeded"
           Arrow(name) == [source |-> name, target |-> step.name, type |-> type]
           arrows == ArrowsTo(p, step.name)
<1>1. p.spec = steps /\ StepsOf(p) = NamesOf(steps)
  BY HeldFields
<1>2. \A name \in NamesOf(steps) : StatusPhase(p, name) = phase[name] /\ phase[name] \in TellingPhase
  BY HeldPhases DEF NamesOf
<1>3. \A name : name \notin NamesOf(steps) => StatusPhase(p, name) = "nil"
  BY HeldPhases
<1>4. arrows = {Arrow(name) : name \in there}
  <2>1. arrows = EdgesInto(p, i)
    BY ArrowsAreEdges
  <2>2. EdgesInto(p, i) = {[source |-> source, target |-> p.spec[i].name, type |-> EdgeTypeOf(p.spec[i].runIf)]
                             : source \in p.spec[i].runIf.steps \cap StepsOf(p)}
    BY <1>1 DEF EdgesInto
  <2>3. \A e : e \in EdgesInto(p, i) <=> \E name \in there : e = Arrow(name)
    BY <1>1, <2>2
  <2> QED
    BY <2>1, <2>3
<1>5. wanted = IF type = "failure" THEN "Failed" ELSE "Succeeded"
  BY DEF EdgeTypeOf, IsCheckingFailure, GetCondition
<1>6. ASSUME NEW name \in there
      PROVE  SourcePhase(p, Arrow(name)) = phase[name] /\ (Arrived(p, Arrow(name)) <=> phase[name] = wanted)
  <2>1. Arrow(name).source = name /\ Arrow(name).type = type
    OBVIOUS
  <2>2. SourcePhase(p, Arrow(name)) = phase[name]
    BY <2>1, SourcePhases
  <2> QED
    BY <1>5, <2>1, <2>2 DEF Arrived
<1>7. wanted # "nil" /\ "nil" \notin TellingPhase
  BY DEF TellingPhase, StepPhase
<1>8. AllComplete(p, named) <=> named \subseteq NamesOf(steps) /\ \A name \in there : phase[name] \notin {"Pending", "Running"}
  BY <1>2, <1>3, <1>7 DEF AllComplete
<1>9. {name \in named : StatusPhase(p, name) = wanted} = {name \in there : phase[name] = wanted}
  BY <1>2, <1>3, <1>7
<1>10. AreDependenciesSatisfied(p, step) =
         IF ~ AllComplete(p, named) THEN "wait"
         ELSE IF (IF RequiresAll(step.runIf) THEN {name \in there : phase[name] = wanted} = named
                  ELSE {name \in there : phase[name] = wanted} # {})
         THEN "ready" ELSE "skip"
  BY <1>9 DEF AreDependenciesSatisfied, CheckConditionalExecution, ConditionMet
<1>11. named # {}
  BY DEF HasConditionalExecution
<1> HIDE DEF step, named, there, type, wanted, Arrow, arrows
<1>12. {a \in arrows : SourcePhase(p, a) \in {"Pending", "Running"}} = {}
         <=> \A name \in there : phase[name] \notin {"Pending", "Running"}
  BY <1>4, <1>6
<1>13. {a \in arrows : Arrived(p, a)} = arrows <=> \A name \in there : phase[name] = wanted
  BY <1>4, <1>6
<1>14. {a \in arrows : Arrived(p, a)} # {} <=> \E name \in there : phase[name] = wanted
  BY <1>4, <1>6
<1>15. there \subseteq named /\ (named \subseteq NamesOf(steps) => there = named)
  BY DEF there
<1> DEFINE fits == \/ {a \in arrows : Arrived(p, a)} = arrows
                   \/ ~ RequiresAll(step.runIf) /\ {a \in arrows : Arrived(p, a)} # {}
<1>16. {a \in arrows : SourcePhase(p, a) \in {"Pending", "Running"}} # {} => AreDependenciesSatisfied(p, step) = "wait"
  BY <1>8, <1>10, <1>12
<1>17. AreDependenciesSatisfied(p, step) = "ready" => fits
  BY <1>8, <1>10, <1>13, <1>14, <1>15
<1>18. /\ named \subseteq NamesOf(steps) /\ fits
       /\ {a \in arrows : SourcePhase(p, a) \in {"Pending", "Running"}} = {}
       => AreDependenciesSatisfied(p, step) = "ready"
  <2> SUFFICES ASSUME named \subseteq NamesOf(steps), fits,
                      {a \in arrows : SourcePhase(p, a) \in {"Pending", "Running"}} = {}
               PROVE  AreDependenciesSatisfied(p, step) = "ready"
    OBVIOUS
  <2>1. AllComplete(p, named) /\ there = named
    BY <1>8, <1>12, <1>15
  <2>2. \/ \A name \in there : phase[name] = wanted
        \/ ~ RequiresAll(step.runIf) /\ \E name \in there : phase[name] = wanted
    BY <1>13, <1>14
  <2>3. \E name \in there : phase[name] = wanted
    BY <1>11, <2>1, <2>2
  <2> QED
    BY <1>10, <2>1, <2>2, <2>3
<1> QED
  BY <1>1, <1>16, <1>17, <1>18 DEF ArrowsTell, arrows, step, named

----------------------------------------------------------------------------
\* Types.  What a filter keeps of a sequence is defined by recursion, of which
\* the provers know nothing: that it is a sequence of steps is assumed.

FilterKeepsSteps ==
  \A cards \in Seq(BuilderStep), name \in StepName : CardsWithout(cards, name) \in Seq(BuilderStep)

DrawerType == [selected : StepName \cup {None}, editor : BOOLEAN, settings : BOOLEAN]
ViewType   == [mode : {"builder", "yaml"}, switch : BOOLEAN, text : BuilderPipeline \cup {Broken}]
FormType   == [nameError : BOOLEAN, error : BOOLEAN, saving : BOOLEAN]
HandType   == [name : BOOLEAN, namespace : BOOLEAN]
ListType   == [copy : BuilderPipeline \cup {None}, namespace : Namespace]
CreateType == [visit : Nat, pipeline : BuilderPipeline, state : {"sent", "stored", "refused"}]

\* What the cards' gestures change, and what they do not.
CardsTyped ==
  /\ pipeline \in BuilderPipeline /\ canvas \in Seq(BuilderStep) /\ drawer \in DrawerType
  /\ drag \in Nat /\ crashed \in BOOLEAN /\ events \in [EventKind -> Nat]

PageTyped ==
  /\ shell \in Namespace /\ visits \in Nat /\ visit \in {0, visits} /\ view \in ViewType
  /\ known \subseteq PipelineName /\ listedIn \in Namespace \cup {None} /\ missed \subseteq Namespace
  /\ form \in FormType /\ byHand \in HandType

NetworkTyped ==
  /\ lists \in Seq(ListType) /\ creates \subseteq CreateType /\ server \in [Namespace -> SUBSET PipelineName]

TypeInv == CardsTyped /\ PageTyped /\ NetworkTyped

\* The parts of the type invariant are the whole of it.
LEMMA TypesTogether == TypeInv => TypeOK
BY DEF TypeInv, TypeOK, CardsTyped, PageTyped, NetworkTyped, DrawerType, ViewType, FormType, HandType,
       ListType, CreateType

\* A budget stays one when something of it is spent.
LEMMA SpendTyped ==
  ASSUME events \in [EventKind -> Nat], NEW kind \in EventKind, Spend(kind)
  PROVE  events' \in [EventKind -> Nat]
BY DEF Spend

\* Also when a gesture spends it.
LEMMA GestureTyped == ASSUME CardsTyped, Gesture PROVE events' \in [EventKind -> Nat]
BY SpendTyped DEF CardsTyped, Gesture, EventKind

\* A new step is one.
LEMMA DefaultStepTyped == ASSUME NEW name \in StepName PROVE DefaultStep(name) \in BuilderStep
BY NamesAssumption DEF DefaultStep, BuilderStep, NoRunIf, RunIfCondition, RunIfConditionType, RunIfOperator

\* An empty pipeline is one.
LEMMA EmptyTyped == ASSUME NEW ns \in Namespace PROVE EmptyPipeline(ns) \in BuilderPipeline
BY NamesAssumption DEF EmptyPipeline, BuilderPipeline

\* A closed drawer is one.
LEMMA ClosedTyped == Closed \in DrawerType
BY DEF Closed, DrawerType

\* A sequence without one of its elements is one, and is shorter by one.
LEMMA WithoutTyped ==
  ASSUME NEW S, NEW s \in Seq(S), NEW i \in DOMAIN s
  PROVE  Without(s, i) \in Seq(S) /\ Len(Without(s, i)) = Len(s) - 1
<1>1. i \in 1..Len(s) /\ Len(s) \in Nat
  OBVIOUS
<1>2. /\ SubSeq(s, 1, i - 1) \in Seq(S) /\ Len(SubSeq(s, 1, i - 1)) = i - 1
      /\ SubSeq(s, i + 1, Len(s)) \in Seq(S) /\ Len(SubSeq(s, i + 1, Len(s))) = Len(s) - i
  BY <1>1
<1> DEFINE a == SubSeq(s, 1, i - 1)  b == SubSeq(s, i + 1, Len(s))
<1> HIDE DEF a, b
<1>3. a \o b \in Seq(S) /\ Len(a \o b) = Len(a) + Len(b)
  BY <1>2 DEF a, b
<1>4. Len(a) + Len(b) = Len(s) - 1
  BY <1>1, <1>2 DEF a, b
<1> QED
  BY <1>3, <1>4 DEF Without, a, b

\* A sequence with an element put in is one.
LEMMA InsertTyped ==
  ASSUME NEW S, NEW s \in Seq(S), NEW i \in 1..(Len(s) + 1), NEW x \in S
  PROVE  Insert(s, i, x) \in Seq(S)
<1>1. SubSeq(s, 1, i - 1) \in Seq(S) /\ SubSeq(s, i, Len(s)) \in Seq(S) /\ <<x>> \in Seq(S)
  OBVIOUS
<1> QED
  BY <1>1 DEF Insert

\* Setting the cards keeps the types of canvas and pipeline.
LEMMA SetCardsTyped ==
  ASSUME CardsTyped, NEW cards \in Seq(BuilderStep), SetCards(cards)
  PROVE  canvas' \in Seq(BuilderStep) /\ pipeline' \in BuilderPipeline /\ crashed' \in BOOLEAN
BY DEF SetCards, CardsTyped, FromCanvas, BuilderPipeline

\* A change of one field of the steps of one name.
LEMMA UpdateStepTyped ==
  ASSUME CardsTyped, NEW field, NEW value, UpdateStep(field, value),
         \A s \in BuilderStep : [s EXCEPT ![field] = value] \in BuilderStep
  PROVE  CardsTyped'
<1> DEFINE cards == [i \in DOMAIN canvas |->
                       IF canvas[i].name = drawer.selected THEN [canvas[i] EXCEPT ![field] = value]
                       ELSE canvas[i]]
<1>1. SetCards(cards) /\ Gesture /\ UNCHANGED <<drawer, drag>>
  BY DEF UpdateStep, Editing, Idle
<1>2. canvas \in Seq(BuilderStep)
  BY DEF CardsTyped
<1>3. DOMAIN canvas = 1..Len(canvas) /\ Len(canvas) \in Nat /\ \A i \in DOMAIN canvas : canvas[i] \in BuilderStep
  BY <1>2
<1>4. \A i \in 1..Len(canvas) : cards[i] \in BuilderStep
  BY <1>3
<1>5. cards \in [1..Len(canvas) -> BuilderStep]
  BY <1>3, <1>4
<1>6. cards \in Seq(BuilderStep)
  BY <1>3, <1>5
<1> QED
  BY <1>1, <1>6, SetCardsTyped, GestureTyped DEF CardsTyped

\* The step in the drawer is one.
LEMMA EditorStepTyped == ASSUME CardsTyped, Editing PROVE EditorStep \in BuilderStep
<1> DEFINE found == {i \in DOMAIN canvas : canvas[i].name = drawer.selected}
<1>1. canvas \in Seq(BuilderStep)
  BY DEF CardsTyped
<1>2. found \in SUBSET Nat /\ found # {} /\ \A i \in found : canvas[i] \in BuilderStep
  BY <1>1 DEF Editing, NamesOf
<1>3. \E i \in found : \A j \in found : i <= j
  BY <1>2, LeastExists
<1>4. \E i \in DOMAIN canvas : /\ canvas[i].name = drawer.selected
                               /\ \A j \in DOMAIN canvas : canvas[j].name = drawer.selected => i <= j
  BY <1>3
<1> QED
  BY <1>1, <1>4 DEF EditorStep

\* What happens on the canvas keeps the types.
LEMMA CardsStepTyped == ASSUME FilterKeepsSteps, CardsTyped, Cards PROVE CardsTyped'
<1>0. canvas \in Seq(BuilderStep) /\ NamesOf(canvas) \subseteq StepName
  <2>1. canvas \in Seq(BuilderStep)
    BY DEF CardsTyped
  <2>2. \A i \in DOMAIN canvas : canvas[i] \in BuilderStep
    BY <2>1
  <2> QED
    BY <2>1, <2>2 DEF NamesOf, BuilderStep
<1>1. CASE AddStep
  <2> DEFINE name == StepNumbered[Len(canvas) + 1]
  <2>1. /\ Gesture /\ Len(canvas) < MaxSteps
        /\ SetCards(Append(canvas, DefaultStep(name)))
        /\ drawer' = [drawer EXCEPT !.selected = name, !.editor = TRUE] /\ drag' = drag
    BY <1>1 DEF AddStep, Building, Idle
  <2>2. name \in StepName
    BY <1>0, <2>1, NamesAssumption, BoundsAssumption
  <2>3. Append(canvas, DefaultStep(name)) \in Seq(BuilderStep)
    BY <1>0, <2>2, DefaultStepTyped
  <2>4. drawer' \in DrawerType
    BY <2>1, <2>2 DEF CardsTyped, DrawerType
  <2> QED
    BY <2>1, <2>3, <2>4, SetCardsTyped, GestureTyped DEF CardsTyped
<1>2. ASSUME NEW name \in NamesOf(canvas), RemoveStep(name) PROVE CardsTyped'
  <2>1. CardsWithout(canvas, name) \in Seq(BuilderStep)
    BY <1>0, <1>2 DEF FilterKeepsSteps
  <2>2. /\ Gesture /\ SetCards(CardsWithout(canvas, name)) /\ drag' = drag
        /\ drawer' = IF drawer.selected = name THEN [drawer EXCEPT !.selected = None, !.editor = FALSE]
                     ELSE drawer
    BY <1>2 DEF RemoveStep, Building, Idle
  <2>3. drawer' \in DrawerType
    BY <2>2 DEF CardsTyped, DrawerType
  <2> QED
    BY <2>1, <2>2, <2>3, SetCardsTyped, GestureTyped DEF CardsTyped
<1>3. ASSUME NEW name \in NamesOf(canvas), SelectStep(name) PROVE CardsTyped'
  <2>1. /\ Gesture /\ drawer' = [selected |-> name, editor |-> TRUE, settings |-> FALSE]
        /\ UNCHANGED <<pipeline, canvas, drag, crashed>>
    BY <1>3 DEF SelectStep, SetDrawer, Building, Idle
  <2>2. drawer' \in DrawerType
    BY <1>0, <1>3, <2>1 DEF DrawerType
  <2> QED
    BY <2>1, <2>2, GestureTyped DEF CardsTyped
<1>4. ASSUME NEW name \in NamesOf(canvas), ToggleRunIfStep(name) PROVE CardsTyped'
  <2> DEFINE runIf == EditorStep.runIf
             steps == IF name \in runIf.steps THEN runIf.steps \ {name} ELSE runIf.steps \cup {name}
             new   == IF steps = {} THEN NoRunIf ELSE [runIf EXCEPT !.steps = steps]
  <2>1. Editing /\ UpdateStep("runIf", new)
    BY <1>4 DEF ToggleRunIfStep
  <2>2. runIf \in RunIfCondition
    BY <2>1, EditorStepTyped DEF BuilderStep
  <2>3. steps \in SUBSET StepName
    BY <1>0, <2>2 DEF RunIfCondition
  <2>4. new \in RunIfCondition
    BY <2>2, <2>3 DEF RunIfCondition, NoRunIf, RunIfConditionType, RunIfOperator
  <2> HIDE DEF new
  <2>5. \A s \in BuilderStep : [s EXCEPT !["runIf"] = new] \in BuilderStep
    BY <2>4 DEF BuilderStep
  <2> QED
    BY <2>1, <2>5, UpdateStepTyped
<1>5. ASSUME NEW i \in DOMAIN canvas, DragStart(i) PROVE CardsTyped'
  <2>1. Gesture /\ drag' = i /\ UNCHANGED <<pipeline, canvas, drawer, crashed>>
    BY <1>5 DEF DragStart, Building, Idle
  <2> QED
    BY <1>0, <2>1, GestureTyped DEF CardsTyped
<1>6. ASSUME NEW i \in DOMAIN canvas, DragOver(i) PROVE CardsTyped'
  <2>1. Gesture /\ drawer' = drawer
    BY <1>6 DEF DragOver
  <2>2. CASE drag \in DOMAIN canvas
    <3>1. SetCards(Insert(Without(canvas, drag), i, canvas[drag])) /\ drag' = i
      BY <1>6, <2>2 DEF DragOver
    <3>2. /\ Without(canvas, drag) \in Seq(BuilderStep) /\ canvas[drag] \in BuilderStep
          /\ i \in 1..(Len(Without(canvas, drag)) + 1)
      BY <1>0, <2>2, WithoutTyped
    <3>3. Insert(Without(canvas, drag), i, canvas[drag]) \in Seq(BuilderStep)
      BY <3>2, InsertTyped
    <3>4. i \in Nat
      BY <1>0
    <3> QED
      BY <2>1, <3>1, <3>3, <3>4, SetCardsTyped, GestureTyped DEF CardsTyped
  <2>3. CASE drag \notin DOMAIN canvas
    BY <1>6, <2>1, <2>3, GestureTyped DEF DragOver, CardsTyped
  <2> QED
    BY <2>2, <2>3
<1>7. CASE DragEnd
  BY <1>7 DEF DragEnd, CardsTyped
<1>8. ASSUME NEW name \in TypedStepName, UpdateName(name) PROVE CardsTyped'
  <2>1. name \in StepName
    BY NamesAssumption
  <2>2. \A s \in BuilderStep : [s EXCEPT !["name"] = name] \in BuilderStep
    BY <2>1 DEF BuilderStep
  <2> QED
    BY <1>8, <2>2, UpdateStepTyped DEF UpdateName
<1>9. ASSUME NEW c \in Content, UpdateJobSpec(c) PROVE CardsTyped'
  <2>1. \A s \in BuilderStep : [s EXCEPT !["jobSpec"] = c] \in BuilderStep
    BY DEF BuilderStep
  <2> QED
    BY <1>9, <2>1, UpdateStepTyped DEF UpdateJobSpec
<1>10. ASSUME NEW field, NEW value, UpdateRunIf(field, value),
              \/ field = "condition" /\ value \in RunIfConditionType
              \/ field = "operator" /\ value \in RunIfOperator
       PROVE  CardsTyped'
  <2> DEFINE new == [EditorStep.runIf EXCEPT ![field] = value]
  <2>1. Editing /\ UpdateStep("runIf", new)
    BY <1>10 DEF UpdateRunIf
  <2>2. EditorStep.runIf \in RunIfCondition
    BY <2>1, EditorStepTyped DEF BuilderStep
  <2>3. new \in RunIfCondition
    BY <1>10, <2>2 DEF RunIfCondition
  <2> HIDE DEF new
  <2>4. \A s \in BuilderStep : [s EXCEPT !["runIf"] = new] \in BuilderStep
    BY <2>3 DEF BuilderStep
  <2> QED
    BY <2>1, <2>4, UpdateStepTyped
<1>11. CASE DeleteEdited
  <2>1. Gesture /\ SetCards(CardsWithout(canvas, drawer.selected)) /\ drawer' = Closed /\ drag' = drag
    BY <1>11 DEF DeleteEdited, Editing, Idle
  <2>2. CardsWithout(canvas, drawer.selected) \in Seq(BuilderStep)
    BY <1>0, <1>11 DEF DeleteEdited, Editing, FilterKeepsSteps
  <2> QED
    BY <2>1, <2>2, ClosedTyped, SetCardsTyped, GestureTyped DEF CardsTyped
<1>12. \A v \in {"success", "fail"} : v \in RunIfConditionType
  BY DEF RunIfConditionType
<1>13. \A v \in {"and", "or"} : v \in RunIfOperator
  BY DEF RunIfOperator
<1> QED
  BY <1>1, <1>2, <1>3, <1>4, <1>5, <1>6, <1>7, <1>8, <1>9, <1>10, <1>11, <1>12, <1>13 DEF Cards

\* Another page, or a new one.
LEMMA NewPageTyped ==
  ASSUME NEW ns \in Namespace, NewPage(ns)
  PROVE  /\ pipeline' \in BuilderPipeline /\ canvas' \in Seq(BuilderStep) /\ drawer' \in DrawerType
         /\ drag' \in Nat /\ crashed' \in BOOLEAN /\ view' \in ViewType
         /\ known' \subseteq PipelineName /\ listedIn' \in Namespace \cup {None} /\ missed' \subseteq Namespace
         /\ form' \in FormType /\ byHand' \in HandType
<1>1. /\ pipeline' = EmptyPipeline(ns) /\ canvas' = <<>> /\ drawer' = Closed /\ drag' = 0
      /\ crashed' = FALSE /\ view' = AtStart
      /\ known' = {} /\ listedIn' = None /\ missed' = {} /\ form' = Untold /\ byHand' = Untouched
  BY DEF NewPage
<1>2. pipeline' \in BuilderPipeline
  BY <1>1, EmptyTyped
<1>3. AtStart \in ViewType
  BY EmptyTyped, NamesAssumption DEF AtStart, ViewType
<1>4. Untold \in FormType /\ Untouched \in HandType
  BY DEF Untold, FormType, Untouched, HandType
<1>5. canvas' \in Seq(BuilderStep) /\ drag' \in Nat /\ crashed' \in BOOLEAN
  <2>1. <<>> \in Seq(BuilderStep)
    OBVIOUS
  <2>2. canvas' \in Seq(BuilderStep)
    BY <1>1, <2>1, Zenon
  <2> QED
    BY <1>1, <2>2
<1>6. drawer' \in DrawerType /\ view' \in ViewType /\ form' \in FormType /\ byHand' \in HandType
  BY <1>1, <1>3, <1>4, ClosedTyped
<1>7. known' \subseteq PipelineName /\ listedIn' \in Namespace \cup {None} /\ missed' \subseteq Namespace
  BY <1>1
<1> QED
  BY <1>2, <1>5, <1>6, <1>7

\* A visit that starts keeps the types.
LEMMA NavigateTyped ==
  ASSUME TypeInv, Navigate, UNCHANGED <<shell, visits>>, events' \in [EventKind -> Nat],
         creates' \subseteq CreateType, server' \in [Namespace -> SUBSET PipelineName]
  PROVE  TypeInv'
<1>1. "default" \in Namespace /\ NewPage("default") /\ visit' = 0 /\ lists' = <<>>
  BY NamesAssumption DEF Navigate
<1>2. /\ pipeline' \in BuilderPipeline /\ canvas' \in Seq(BuilderStep) /\ drawer' \in DrawerType
      /\ drag' \in Nat /\ crashed' \in BOOLEAN /\ view' \in ViewType
      /\ known' \subseteq PipelineName /\ listedIn' \in Namespace \cup {None} /\ missed' \subseteq Namespace
      /\ form' \in FormType /\ byHand' \in HandType
  BY <1>1, NewPageTyped
<1> QED
  BY <1>1, <1>2 DEF TypeInv, CardsTyped, PageTyped, NetworkTyped

\* A name that is found is a name.
LEMMA FreshNameTyped ==
  ASSUME NEW base \in PipelineName, NEW taken, Free(base, taken) # {}
  PROVE  FreshName(base, taken) \in PipelineName
<1>1. Free(base, taken) \in SUBSET Nat /\ Candidate[base] \in Seq(PipelineName)
  BY NamesAssumption DEF Free
<1>2. \E k \in Free(base, taken) : \A j \in Free(base, taken) : k <= j
  BY <1>1, LeastExists
<1> QED
  BY <1>1, <1>2 DEF FreshName, Free

\* So does a copy that is loaded.
LEMMA LoadCopiedTyped ==
  ASSUME CardsTyped, NEW p \in BuilderPipeline, LoadCopied(p)
  PROVE  pipeline' \in BuilderPipeline /\ canvas' \in Seq(BuilderStep)
BY DEF LoadCopied, CardsTyped, BuilderPipeline

\* A request for names, and those that are left without it, have their types.
LEMMA ListsTyped ==
  ASSUME TypeInv, NEW i \in DOMAIN lists
  PROVE  Without(lists, i) \in Seq(ListType) /\ lists[i] \in ListType
<1>1. lists \in Seq(ListType)
  BY DEF TypeInv, NetworkTyped
<1> QED
  BY <1>1, WithoutTyped

\* The answer to a request for names keeps the types.
LEMMA AnswerListTyped == ASSUME TypeInv, NEW i \in DOMAIN lists, AnswerList(i) PROVE TypeInv'
<1> DEFINE r == lists[i]
           taken == server[r.namespace]
<1>1. /\ known' = taken /\ listedIn' = r.namespace /\ missed' = {} /\ lists' = Without(lists, i)
      /\ byHand' = Untouched
      /\ UNCHANGED <<shell, visit, visits, drawer, drag, crashed, view, form, creates, server, events>>
  BY DEF AnswerList, place, screen
<1>2. /\ lists' \in Seq(ListType) /\ r.namespace \in Namespace /\ r.copy \in BuilderPipeline \cup {None}
  BY <1>1, ListsTyped DEF ListType
<1>3. CardsTyped /\ PageTyped /\ NetworkTyped
  BY DEF TypeInv
<1>4. known' \subseteq PipelineName /\ byHand' \in HandType
  BY <1>1, <1>2, <1>3 DEF NetworkTyped, Untouched, HandType
<1>5. pipeline' \in BuilderPipeline /\ canvas' \in Seq(BuilderStep)
  <2>1. CASE r.copy = None
    <3>1. /\ Free(NewPipeline, taken) # {} /\ pipeline' = Named(pipeline, r.namespace, taken)
          /\ canvas' = canvas
      BY <2>1 DEF AnswerList
    <3>2. FreshName(NewPipeline, taken) \in PipelineName
      BY <3>1, FreshNameTyped, NamesAssumption
    <3>3. pipeline' \in BuilderPipeline
      BY <1>2, <1>3, <3>1, <3>2 DEF Named, CardsTyped, BuilderPipeline
    <3> QED
      BY <1>3, <3>1, <3>3 DEF CardsTyped
  <2>2. CASE r.copy # None
    <3> DEFINE q == [r.copy EXCEPT !.name = FreshName(r.copy.name, taken)]
    <3>1. Free(r.copy.name, taken) # {} /\ LoadCopied(q)
      BY <2>2 DEF AnswerList
    <3>2. r.copy \in BuilderPipeline /\ r.copy.name \in PipelineName
      BY <1>2, <2>2 DEF BuilderPipeline
    <3>3. FreshName(r.copy.name, taken) \in PipelineName
      BY <3>1, <3>2, FreshNameTyped
    <3>4. q \in BuilderPipeline
      BY <3>2, <3>3 DEF BuilderPipeline
    <3> QED
      BY <1>3, <3>1, <3>4, LoadCopiedTyped
  <2> QED
    BY <2>1, <2>2
<1> QED
  BY <1>1, <1>2, <1>3, <1>4, <1>5 DEF TypeInv, CardsTyped, PageTyped, NetworkTyped

\* So does its failure.
LEMMA FailListTyped == ASSUME TypeInv, NEW i \in DOMAIN lists, FailList(i) PROVE TypeInv'
<1>1. /\ missed' = missed \cup {lists[i].namespace} /\ lists' = Without(lists, i) /\ Spend("failure")
      /\ UNCHANGED <<shell, visit, visits, drawer, drag, crashed, view, known, listedIn, form, creates, server>>
  BY DEF FailList, place, screen
<1>2. /\ lists' \in Seq(ListType) /\ lists[i].copy \in BuilderPipeline \cup {None}
      /\ lists[i].namespace \in Namespace
  BY <1>1, ListsTyped DEF ListType
<1>3. CardsTyped /\ PageTyped /\ NetworkTyped
  BY DEF TypeInv
<1>4. pipeline' \in BuilderPipeline /\ canvas' \in Seq(BuilderStep) /\ byHand' \in HandType
  <2>1. CASE lists[i].copy = None
    BY <1>3, <2>1 DEF FailList, CardsTyped, PageTyped
  <2>2. CASE lists[i].copy # None
    BY <1>2, <1>3, <2>2, LoadCopiedTyped DEF FailList, Untouched, HandType
  <2> QED
    BY <2>1, <2>2
<1>5. events' \in [EventKind -> Nat]
  BY <1>1, <1>3, SpendTyped DEF CardsTyped, EventKind
<1> QED
  BY <1>1, <1>2, <1>3, <1>4, <1>5 DEF TypeInv, CardsTyped, PageTyped, NetworkTyped

\* The types hold at first.
LEMMA TypeInit == Init => TypeInv
<1> SUFFICES ASSUME Init PROVE TypeInv
  OBVIOUS
<1>1. EmptyPipeline("default") \in BuilderPipeline
  BY EmptyTyped, NamesAssumption
<1>2. AtStart \in ViewType
  BY <1>1 DEF AtStart, ViewType
<1>3. Untold \in FormType /\ Untouched \in HandType
  BY DEF Untold, FormType, Untouched, HandType
<1>4. events \in [EventKind -> Nat] /\ server \in [Namespace -> SUBSET PipelineName]
  BY NamesAssumption, BoundsAssumption DEF Init
<1>5. canvas \in Seq(BuilderStep) /\ lists \in Seq(ListType)
  BY DEF Init
<1>6. CardsTyped
  BY <1>1, <1>4, <1>5, ClosedTyped DEF Init, CardsTyped
<1>7. PageTyped /\ NetworkTyped
  BY <1>2, <1>3, <1>4, <1>5 DEF Init, PageTyped, NetworkTyped
<1> QED
  BY <1>6, <1>7 DEF TypeInv

\* A refused save keeps the types.
LEMMA TellFailureTyped ==
  ASSUME TypeInv, NEW c \in creates, TellFailure(c), events' \in [EventKind -> Nat] PROVE TypeInv'
<1>1. form' \in FormType
  BY DEF TellFailure, Told, TypeInv, PageTyped, FormType
<1> QED
  BY <1>1 DEF TellFailure, place, screen, names, TypeInv, CardsTyped, PageTyped, NetworkTyped

\* What is on its way to the server is a pipeline.
LEMMA ToSaveTyped == ASSUME TypeInv, CanSave PROVE ToSave \in BuilderPipeline
BY DEF CanSave, ToSave, FromCanvas, TypeInv, CardsTyped, PageTyped, ViewType, BuilderPipeline

\* So does a save.
LEMMA SavePipelineTyped == ASSUME TypeInv, SavePipeline PROVE TypeInv'
<1>1. /\ Gesture /\ CanSave
      /\ pipeline' = IF view.mode = "yaml" THEN pipeline ELSE FromCanvas(pipeline, canvas)
      /\ UNCHANGED <<place, canvas, screen, names, byHand, lists, server>>
  BY DEF SavePipeline, Idle
<1>2. ToSave \in BuilderPipeline
  BY <1>1, ToSaveTyped
<1>3. pipeline' \in BuilderPipeline
  BY <1>1 DEF FromCanvas, TypeInv, CardsTyped, BuilderPipeline
<1>4. form' \in FormType /\ creates' \subseteq CreateType
  <2>1. CASE NameIsFine(ToSave.name) /\ ToSave.steps # <<>>
    <3>1. /\ form' = [form EXCEPT !.saving = TRUE, !.error = FALSE]
          /\ creates' = creates \cup {[visit |-> visit, pipeline |-> ToSave, state |-> "sent"]}
      BY <2>1 DEF SavePipeline
    <3>2. visit \in Nat
      BY DEF TypeInv, PageTyped
    <3>3. [visit |-> visit, pipeline |-> ToSave, state |-> "sent"] \in CreateType
      BY <1>2, <3>2 DEF CreateType
    <3>4. creates' \subseteq CreateType
      BY <3>1, <3>3 DEF TypeInv, NetworkTyped
    <3>5. form' \in FormType
      BY <3>1 DEF TypeInv, PageTyped, FormType
    <3> QED
      BY <3>4, <3>5
  <2>2. CASE ~ (NameIsFine(ToSave.name) /\ ToSave.steps # <<>>)
    <3>1. /\ form' = [form EXCEPT !.error = TRUE, !.nameError = @ \/ ~ NameIsFine(ToSave.name)]
          /\ creates' = creates
      BY <2>2 DEF SavePipeline
    <3>2. NameIsFine(ToSave.name) \in BOOLEAN
      BY DEF NameIsFine
    <3> QED
      BY <3>1, <3>2 DEF TypeInv, PageTyped, NetworkTyped, FormType
  <2> QED
    BY <2>1, <2>2
<1>5. events' \in [EventKind -> Nat]
  BY <1>1, GestureTyped DEF TypeInv
<1> QED
  BY <1>1, <1>3, <1>4, <1>5 DEF place, screen, names, TypeInv, CardsTyped, PageTyped, NetworkTyped

\* So does going back from the text to the canvas.
LEMMA SwitchToBuilderTyped == ASSUME TypeInv, SwitchToBuilderView PROVE TypeInv'
<1>1. Gesture /\ UNCHANGED <<place, requests, server, names, drawer, drag, crashed, form>>
  BY DEF SwitchToBuilderView, Idle, OnPage
<1>2. view \in ViewType
  BY DEF TypeInv, PageTyped
<1>3. /\ pipeline' \in BuilderPipeline /\ canvas' \in Seq(BuilderStep)
      /\ view' \in ViewType /\ byHand' \in HandType
  <2>1. CASE view.text = Broken
    <3>1. view' = [view EXCEPT !.switch = FALSE] /\ UNCHANGED <<pipeline, canvas, byHand>>
      BY <2>1 DEF SwitchToBuilderView
    <3> QED
      BY <1>2, <3>1 DEF TypeInv, CardsTyped, PageTyped, ViewType
  <2>2. CASE view.text # Broken
    <3>1. /\ view' = [view EXCEPT !.switch = FALSE, !.mode = "builder"]
          /\ pipeline' = view.text /\ canvas' = view.text.steps
          /\ byHand' = [name |-> TRUE, namespace |-> TRUE]
      BY <2>2 DEF SwitchToBuilderView
    <3>2. view.text \in BuilderPipeline
      BY <1>2, <2>2 DEF ViewType
    <3>3. view' \in ViewType /\ byHand' \in HandType
      BY <1>2, <3>1 DEF ViewType, HandType
    <3> QED
      BY <3>1, <3>2, <3>3 DEF BuilderPipeline
  <2> QED
    BY <2>1, <2>2
<1>4. events' \in [EventKind -> Nat]
  BY <1>1, GestureTyped DEF TypeInv
<1> QED
  BY <1>1, <1>3, <1>4 DEF place, requests, names, TypeInv, CardsTyped, PageTyped, NetworkTyped

\* Each step keeps the types.
LEMMA TypeStep == ASSUME FilterKeepsSteps, TypeInv, [Next]_vars PROVE TypeInv'
<1>0. CardsTyped /\ PageTyped /\ NetworkTyped
  BY DEF TypeInv
<1>g. ASSUME Gesture PROVE events' \in [EventKind -> Nat]
  BY <1>0, <1>g, GestureTyped
<1>1. CASE Cards
  <2>1. CardsTyped'
    BY <1>0, <1>1, CardsStepTyped
  <2>2. UNCHANGED <<place, requests, server, names, view, form, byHand>>
    BY <1>1, CardsStep DEF CardsGesture, OnPage
  <2> QED
    BY <1>0, <2>1, <2>2 DEF place, requests, names, TypeInv, PageTyped, NetworkTyped
<1>2. ASSUME NEW copy \in Copies \cup {None}, OpenBuilder(copy) PROVE TypeInv'
  <2> DEFINE r == [copy |-> copy,
                   namespace |-> IF copy = None THEN shell ELSE OrDefaultNamespace(copy.namespace)]
  <2>1. /\ Spend("visit") /\ NewPage(shell) /\ visits' = visits + 1 /\ visit' = visits' /\ lists' = <<r>>
        /\ UNCHANGED <<shell, creates, server>>
    BY <1>2 DEF OpenBuilder
  <2>2. r \in ListType
    <3>1. CASE copy = None
      BY <1>0, <3>1 DEF PageTyped, ListType
    <3>2. CASE copy # None
      <4>1. copy \in BuilderPipeline /\ copy.namespace \in Namespace \cup {Unset}
        BY <1>2, <3>2, CopiesAssumption DEF BuilderPipeline
      <4> QED
        BY <3>2, <4>1, OrDefaultType DEF ListType
    <3> QED
      BY <3>1, <3>2
  <2> HIDE DEF r
  <2>3. lists' \in Seq(ListType)
    BY <2>1, <2>2
  <2>4. events' \in [EventKind -> Nat]
    BY <1>0, <2>1, SpendTyped DEF CardsTyped, EventKind
  <2>5. shell \in Namespace
    BY <1>0 DEF PageTyped
  <2>6. /\ pipeline' \in BuilderPipeline /\ canvas' \in Seq(BuilderStep) /\ drawer' \in DrawerType
        /\ drag' \in Nat /\ crashed' \in BOOLEAN /\ view' \in ViewType
        /\ known' \subseteq PipelineName /\ listedIn' \in Namespace \cup {None} /\ missed' \subseteq Namespace
        /\ form' \in FormType /\ byHand' \in HandType
    BY <2>1, <2>5, NewPageTyped
  <2> QED
    BY <1>0, <2>1, <2>3, <2>4, <2>6 DEF TypeInv, CardsTyped, PageTyped, NetworkTyped
<1>3. CASE LeaveBuilder
  BY <1>0, <1>3, NavigateTyped DEF LeaveBuilder, CardsTyped, NetworkTyped
<1>4. ASSUME NEW ns \in Namespace, HandleNamespaceChange(ns) PROVE TypeInv'
  <2>1. /\ Spend("gesture") /\ shell' = ns
        /\ UNCHANGED <<visit, visits, canvas, screen, names, form, creates, server>>
    BY <1>4 DEF HandleNamespaceChange
  <2>2. pipeline' \in BuilderPipeline /\ lists' \in Seq(ListType) /\ byHand' \in HandType
    <3>1. CASE visit # 0 /\ canvas = <<>>
      <4>1. /\ pipeline' = [pipeline EXCEPT !.namespace = ns]
            /\ lists' = Append(lists, [copy |-> None, namespace |-> ns])
            /\ byHand' = [byHand EXCEPT !.namespace = FALSE]
        BY <1>4, <3>1 DEF HandleNamespaceChange
      <4>2. [copy |-> None, namespace |-> ns] \in ListType
        BY DEF ListType
      <4>3. lists' \in Seq(ListType)
        BY <1>0, <4>1, <4>2 DEF NetworkTyped
      <4> QED
        BY <1>0, <4>1, <4>3 DEF CardsTyped, PageTyped, BuilderPipeline, HandType
    <3>2. CASE ~ (visit # 0 /\ canvas = <<>>)
      BY <1>0, <1>4, <3>2 DEF HandleNamespaceChange, CardsTyped, PageTyped, NetworkTyped
    <3> QED
      BY <3>1, <3>2
  <2>3. events' \in [EventKind -> Nat]
    BY <1>0, <2>1, SpendTyped DEF CardsTyped, EventKind
  <2> QED
    BY <1>0, <2>1, <2>2, <2>3 DEF screen, names, TypeInv, CardsTyped, PageTyped, NetworkTyped
<1>5. ASSUME NEW name \in TypedName, UpdatePipelineName(name) PROVE TypeInv'
  <2>1. /\ Gesture /\ form' = [form EXCEPT !.nameError = ~ NameIsFine(name)]
        /\ pipeline' = [pipeline EXCEPT !.name = name] /\ byHand' = [byHand EXCEPT !.name = TRUE]
        /\ UNCHANGED <<place, requests, server, names, canvas, screen>>
    BY <1>5 DEF UpdatePipelineName, OnPage, Idle
  <2>2. form' \in FormType
    BY <1>0, <2>1 DEF PageTyped, FormType
  <2>3. name \in PipelineName
    BY NamesAssumption
  <2>4. pipeline' \in BuilderPipeline
    BY <1>0, <2>1, <2>3 DEF CardsTyped, BuilderPipeline
  <2>5. byHand' \in HandType
    BY <1>0, <2>1 DEF PageTyped, HandType
  <2> QED
    BY <1>0, <1>g, <2>1, <2>2, <2>4, <2>5
       DEF place, requests, names, screen, TypeInv, CardsTyped, PageTyped, NetworkTyped
<1>6. ASSUME NEW c \in Content, UpdateSettings(c) PROVE TypeInv'
  <2>1. /\ Gesture /\ pipeline' = [pipeline EXCEPT !.settings = c]
        /\ UNCHANGED <<place, requests, server, names, canvas, screen, form, byHand>>
    BY <1>6 DEF UpdateSettings, EditSettings, OnPage, Idle
  <2>2. pipeline' \in BuilderPipeline
    BY <1>0, <2>1 DEF CardsTyped, BuilderPipeline
  <2> QED
    BY <1>0, <1>g, <2>1, <2>2 DEF place, requests, names, screen, TypeInv, CardsTyped, PageTyped, NetworkTyped
<1>7. ASSUME NEW ns \in Namespace \cup {Unset}, UpdateNamespace(ns) PROVE TypeInv'
  <2>1. /\ Gesture /\ pipeline' = [pipeline EXCEPT !.namespace = ns]
        /\ byHand' = [byHand EXCEPT !.namespace = TRUE]
        /\ UNCHANGED <<place, requests, server, names, canvas, screen, form>>
    BY <1>7 DEF UpdateNamespace, EditSettings, OnPage, Idle
  <2>2. pipeline' \in BuilderPipeline
    BY <1>0, <2>1 DEF CardsTyped, BuilderPipeline
  <2>3. byHand' \in HandType
    BY <1>0, <2>1 DEF PageTyped, HandType
  <2> QED
    BY <1>0, <1>g, <2>1, <2>2, <2>3
       DEF place, requests, names, screen, TypeInv, CardsTyped, PageTyped, NetworkTyped
<1>8. CASE OpenSettings \/ CloseDrawer
  <2>1. PICK d \in DrawerType : SetDrawer(d) /\ Gesture
    <3>1. [drawer EXCEPT !.settings = TRUE, !.editor = FALSE] \in DrawerType
      BY <1>0 DEF CardsTyped, DrawerType
    <3> QED
      BY <1>8, <3>1, ClosedTyped DEF OpenSettings, CloseDrawer, Building, Idle
  <2> QED
    BY <1>0, <1>g, <2>1
       DEF SetDrawer, OnPage, place, requests, names, TypeInv, CardsTyped, PageTyped, NetworkTyped
<1>9. CASE SwitchToYamlView
  <2>1. /\ Gesture /\ pipeline' = FromCanvas(pipeline, canvas)
        /\ view' = [mode |-> "yaml", switch |-> TRUE, text |-> FromCanvas(pipeline, canvas)]
        /\ drawer' = [drawer EXCEPT !.editor = FALSE, !.settings = FALSE]
        /\ UNCHANGED <<place, requests, server, names, canvas, drag, crashed, form, byHand>>
    BY <1>9 DEF SwitchToYamlView, OnPage, Idle
  <2>2. FromCanvas(pipeline, canvas) \in BuilderPipeline
    BY <1>0 DEF FromCanvas, CardsTyped, BuilderPipeline
  <2>3. view' \in ViewType
    BY <2>1, <2>2 DEF ViewType
  <2>4. drawer' \in DrawerType
    BY <1>0, <2>1 DEF CardsTyped, DrawerType
  <2> QED
    BY <1>0, <1>g, <2>1, <2>2, <2>3, <2>4
       DEF place, requests, names, TypeInv, CardsTyped, PageTyped, NetworkTyped
<1>10. ASSUME NEW text \in Texts, HandleYamlChange(text) PROVE TypeInv'
  <2>1. /\ Gesture /\ view' = [view EXCEPT !.text = text]
        /\ UNCHANGED <<place, requests, server, names, pipeline, canvas, drawer, drag, crashed, form, byHand>>
    BY <1>10 DEF HandleYamlChange, OnPage, Idle
  <2>2. view' \in ViewType
    BY <1>0, <2>1, TextsAssumption DEF PageTyped, ViewType
  <2> QED
    BY <1>0, <1>g, <2>1, <2>2 DEF place, requests, names, TypeInv, CardsTyped, PageTyped, NetworkTyped
<1>11. ASSUME NEW c \in creates, ServerCreates(c) PROVE TypeInv'
  <2> DEFINE ns == OrDefaultNamespace(c.pipeline.namespace)
  <2>1. PICK outcome \in {"stored", "refused"} :
          creates' = (creates \ {c}) \cup {[c EXCEPT !.state = outcome]}
    BY <1>11 DEF ServerCreates
  <2>2. c \in CreateType
    BY <1>0 DEF NetworkTyped
  <2>3. creates' \subseteq CreateType
    BY <1>0, <2>1, <2>2 DEF NetworkTyped, CreateType
  <2>4. ns \in Namespace /\ c.pipeline.name \in PipelineName
    BY <2>2, OrDefaultType DEF CreateType, BuilderPipeline
  <2>5. \/ server' = [server EXCEPT ![ns] = @ \cup {c.pipeline.name}]
        \/ server' = server
    BY <1>11 DEF ServerCreates
  <2>6. server' \in [Namespace -> SUBSET PipelineName]
    BY <1>0, <2>4, <2>5 DEF NetworkTyped
  <2>7. UNCHANGED <<place, pipeline, canvas, screen, names, form, byHand, lists, events>>
    BY <1>11 DEF ServerCreates
  <2> QED
    BY <1>0, <2>3, <2>6, <2>7 DEF place, screen, names, TypeInv, CardsTyped, PageTyped, NetworkTyped
<1>12. ASSUME NEW c \in creates, AnswerStored(c) PROVE TypeInv'
  BY <1>0, <1>12, NavigateTyped DEF AnswerStored, CardsTyped, NetworkTyped
<1>13. ASSUME NEW c \in creates, AnswerRefused(c) \/ LoseCreate(c) PROVE TypeInv'
  <2>1. TellFailure(c)
    BY <1>13 DEF AnswerRefused, LoseCreate
  <2>2. events' \in [EventKind -> Nat]
    <3>1. CASE AnswerRefused(c)
      BY <1>0, <3>1 DEF AnswerRefused, CardsTyped
    <3>2. CASE LoseCreate(c)
      BY <1>0, <3>2, SpendTyped DEF LoseCreate, CardsTyped, EventKind
    <3> QED
      BY <1>13, <3>1, <3>2
  <2> QED
    BY <2>1, <2>2, TellFailureTyped
<1>14. ASSUME NEW ns \in Namespace, NEW name \in TypedName \cap ValidPipelineName, OtherCreates(ns, name)
       PROVE  TypeInv'
  <2>1. /\ Spend("other") /\ server' = [server EXCEPT ![ns] = @ \cup {name}]
        /\ UNCHANGED <<place, pipeline, canvas, screen, names, form, byHand, requests>>
    BY <1>14 DEF OtherCreates
  <2>2. name \in PipelineName
    BY NamesAssumption
  <2>3. server' \in [Namespace -> SUBSET PipelineName]
    BY <1>0, <2>1, <2>2 DEF NetworkTyped
  <2>4. events' \in [EventKind -> Nat]
    BY <1>0, <2>1, SpendTyped DEF CardsTyped, EventKind
  <2> QED
    BY <1>0, <2>1, <2>3, <2>4 DEF place, screen, names, requests, TypeInv, CardsTyped, PageTyped, NetworkTyped
<1>15. CASE UNCHANGED vars
  BY <1>0, <1>15 DEF vars, place, screen, names, requests, TypeInv, CardsTyped, PageTyped, NetworkTyped
<1>16. CASE SwitchToBuilderView \/ SavePipeline \/ \E i \in DOMAIN lists : AnswerList(i) \/ FailList(i)
  BY <1>16, SwitchToBuilderTyped, SavePipelineTyped, AnswerListTyped, FailListTyped
<1> QED
  BY <1>1, <1>2, <1>3, <1>4, <1>5, <1>6, <1>7, <1>8, <1>9, <1>10, <1>11, <1>12, <1>13, <1>14, <1>15, <1>16
     DEF Next, Page, Network

\* The builder's state has its types, given that a filter of the cards leaves
\* a sequence of cards.
THEOREM BuilderTypeOK == ASSUME FilterKeepsSteps PROVE Spec => []TypeOK
<1>1. Init => TypeInv
  BY TypeInit
<1>2. TypeInv /\ [Next]_vars => TypeInv'
  BY TypeStep
<1>3. Spec => []TypeInv
  BY <1>1, <1>2, PTL DEF Spec
<1> QED
  BY <1>3, TypesTogether, PTL

\* The graph of every pipeline the builder makes tells when the operator runs
\* its steps, however many there are and whatever their rules
\* (pipelineToGraph, areDependenciesSatisfied).
THEOREM GraphAlwaysTells == ASSUME FilterKeepsSteps PROVE Spec => []GraphTells
<1>1. TypeOK => GraphTells
  <2> SUFFICES ASSUME TypeOK, NEW c \in creates, UniqueNames(c.pipeline.steps),
                      NEW phase \in [NamesOf(c.pipeline.steps) -> TellingPhase],
                      NEW i \in DOMAIN c.pipeline.steps
               PROVE  ArrowsTell(WithPhases(c.pipeline.steps, phase), c.pipeline.steps[i])
    BY DEF GraphTells
  <2> DEFINE steps == c.pipeline.steps
  <2>1. steps \in Seq(BuilderStep)
    BY DEF TypeOK, BuilderPipeline
  <2>2. Len(steps) \in Nat /\ DOMAIN steps = 1..Len(steps)
    BY <2>1
  <2> HIDE DEF steps
  <2>3. CASE HasConditionalExecution(steps[i])
    BY <2>2, <2>3, ConditionalTells DEF steps
  <2>4. CASE ~ HasConditionalExecution(steps[i])
    BY <2>2, <2>4, SequentialTells DEF steps
  <2> QED
    BY <2>3, <2>4 DEF steps
<1> QED
  BY <1>1, BuilderTypeOK, PTL

=============================================================================
