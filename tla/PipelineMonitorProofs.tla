------------------------ MODULE PipelineMonitorProofs ------------------------
(***************************************************************************)
(* The pages of pipelines, for any pipelines, stages, budgets and numbers  *)
(* of overlapping requests: no spinner without a request under way, and    *)
(* the drawer follows the step that is selected.                           *)
(***************************************************************************)
EXTENDS PipelineMonitorProperties, CommonLemmas

GroundInv ==
  /\ server \in [Key -> Stage] /\ terminating \subseteq Key
  /\ shell \in Namespace /\ page \in Pages /\ deletes \subseteq Deletion
  /\ events \in [EventKind -> Nat]

\* Requests are there only for the page that is open.
ListInv ==
  /\ list \in ListPage /\ listCalls \in Seq([Key -> Stage])
  /\ ~ OnList => listCalls = <<>>
  /\ OnList /\ list.loading => listCalls # <<>>
  /\ \A d \in deletes : d.from = "list" => OnList

PageInv ==
  /\ detail \in DetailPage /\ gets \in Seq(Stage) /\ layouts \in Seq(Stage)
  /\ OnDetail => detail.key \in Key
  /\ ~ OnDetail => gets = <<>> /\ layouts = <<>>
  /\ OnDetail /\ detail.loading => gets # <<>> \/ layouts # <<>>

DrawerInv ==
  /\ cached \in Cached /\ drawer \in Drawer
  /\ logCalls \in Seq(LogRequest) /\ eventCalls \subseteq StepName
  /\ drawer.open => OnDetail /\ DrawerShown(detail)
  /\ ~ drawer.open => drawer = NoDrawer /\ logCalls = <<>> /\ eventCalls = {}
  /\ drawer.loading => logCalls # <<>>
  /\ DrawerCurrent

PagesInv == GroundInv /\ ListInv /\ PageInv /\ DrawerInv

----------------------------------------------------------------------------
\* What the helpers return.

\* A sequence without one of its elements is one of the same kind.
LEMMA WithoutType ==
  ASSUME NEW S, NEW s \in Seq(S), NEW i \in DOMAIN s PROVE Without(s, i) \in Seq(S)
<1>1. i \in 1..Len(s) /\ Len(s) \in Nat
  OBVIOUS
<1>2. SubSeq(s, 1, i - 1) \in Seq(S) /\ SubSeq(s, i + 1, Len(s)) \in Seq(S)
  BY <1>1
<1> QED
  BY <1>2 DEF Without

\* A sequence with one more element is one, and is not empty.
LEMMA AppendFacts ==
  ASSUME NEW S, NEW s \in Seq(S), NEW x \in S PROVE Append(s, x) \in Seq(S) /\ Append(s, x) # <<>>
OBVIOUS

\* What the cluster lists are stages.
LEMMA ListPipelinesType ==
  ASSUME NEW ns, server \in [Key -> Stage] PROVE ListPipelines(ns) \in [Key -> Stage]
BY StagesAssumption DEF ListPipelines, Stage, Gone

\* What is shown of a step, and its logs, have their types.
LEMMA ViewTypes ==
  ASSUME NEW stage \in Stage, NEW step \in StepName
  PROVE  StatusOf(stage, step) \in StatusView /\ LogsOf(stage, step) \in Text \cup {NoPod}
<1>1. NoStatus \in StatusView
  BY DEF NoStatus, StatusView
<1>2. ASSUME stage # Gone PROVE Stages[stage][step] \in StepView
  BY <1>2, StagesAssumption DEF Stage, Gone
<1> QED
  BY <1>1, <1>2 DEF StatusOf, LogsOf, StepView

\* A page and a drawer that have just been opened have theirs.
LEMMA NewTypes ==
  ASSUME NEW k \in Key \cup {None}
  PROVE  /\ NewDetail(k) \in DetailPage /\ NewDetail(k).key = k
         /\ NewDrawer \in Drawer /\ NoDrawer \in Drawer /\ NotCached \in Cached
         /\ NewDrawer.open /\ ~ NewDrawer.loading /\ ~ NoDrawer.open /\ ~ NoDrawer.loading
<1>1. Gone \in Stage
  BY StagesAssumption DEF Stage, Gone
<1>2. NewDetail(k) \in DetailPage /\ NewDetail(k).key = k
  BY <1>1 DEF NewDetail, DetailPage
<1>3. NewDrawer \in Drawer /\ NewDrawer.open /\ ~ NewDrawer.loading
  BY DEF NewDrawer, Drawer
<1>4. NoDrawer \in Drawer /\ ~ NoDrawer.open /\ ~ NoDrawer.loading
  BY DEF NoDrawer, NewDrawer, Drawer
<1>5. NotCached \in Cached
  BY DEF NotCached, Cached, NoStatus, StatusView
<1> QED
  BY <1>2, <1>3, <1>4, <1>5

\* So has a list.
LEMMA NewListType == NewList \in ListPage
BY KeyAssumption, StagesAssumption DEF NewList, ListPage, Stage, Gone

\* And a request for logs.
LEMMA LogCallType ==
  ASSUME GroundInv, detail.key \in Key, NEW job \in StepName PROVE LogCall(job) \in LogRequest
<1>1. server[detail.key] \in Stage
  BY DEF GroundInv
<1>2. LogsOf(server[detail.key], job) \in Text \cup {NoPod}
  BY <1>1, ViewTypes
<1> QED
  BY <1>2 DEF LogCall, LogRequest

\* A budget stays one when something of it is spent.
LEMMA SpendType == ASSUME NEW kind \in EventKind, events \in [EventKind -> Nat], Spend(kind)
                   PROVE  events' \in [EventKind -> Nat]
BY DEF Spend

----------------------------------------------------------------------------
\* Rendering.

\* A drawer that gets its step waits only for logs that were asked for.
LEMMA UpdatedSound ==
  ASSUME GroundInv, detail.key \in Key, logCalls \in Seq(LogRequest), eventCalls \subseteq StepName,
         NEW e \in Drawer, NEW c \in Cached, e.open, e.loading => logCalls # <<>>,
         c.name \in StepName, Updated(e, c)
  PROVE  /\ drawer' \in Drawer /\ drawer'.open /\ drawer'.job = JobOf(c.name, c.status)
         /\ logCalls' \in Seq(LogRequest) /\ eventCalls' \subseteq StepName
         /\ drawer'.loading => logCalls' # <<>>
<1> DEFINE job == JobOf(c.name, c.status)
           new == [e EXCEPT !.job = job, !.initial = TRUE]
<1>1. job \in StepName \cup {None}
  BY DEF JobOf
<1>2. new \in Drawer /\ new.open /\ new.job = job /\ new.initial /\ new.loading = e.loading
  BY <1>1 DEF Drawer
<1>3. CASE job = e.job
  BY <1>3 DEF Updated
<1>4. CASE job # e.job /\ job = None
  <2>1. drawer' = new /\ UNCHANGED <<logCalls, eventCalls>>
    BY <1>4 DEF Updated
  <2> QED
    BY <1>2, <2>1
<1>5. CASE job # e.job /\ job # None
  <2>1. /\ drawer' = LogsAsked(new) /\ logCalls' = Append(logCalls, LogCall(job))
        /\ eventCalls' = eventCalls \cup {job}
    BY <1>5 DEF Updated
  <2>2. LogsAsked(new) \in Drawer /\ LogsAsked(new).open /\ LogsAsked(new).job = job
    <3> HIDE DEF new
    <3> QED
      BY <1>2 DEF LogsAsked, Drawer
  <2>3. LogCall(job) \in LogRequest
    BY <1>1, <1>5, LogCallType
  <2>4. logCalls' \in Seq(LogRequest) /\ logCalls' # <<>>
    BY <2>1, <2>3, AppendFacts
  <2> QED
    BY <1>1, <1>5, <2>1, <2>2, <2>4
<1> QED
  BY <1>3, <1>4, <1>5

\* Rendering makes cache and drawer fit the page, whatever they were.
LEMMA RenderSound ==
  ASSUME GroundInv, DrawerInv, detail.key \in Key, OnDetail, page' = page,
         NEW d \in DetailPage, Render(d)
  PROVE  detail' = d /\ DrawerInv'
<1>1. detail' = d
  BY DEF Render
<1>2. CASE ~ DrawerShown(d)
  <2>1. drawer' = NoDrawer /\ logCalls' = <<>> /\ eventCalls' = {} /\ cached' = cached
    BY <1>2 DEF Render
  <2> QED
    BY <1>1, <2>1, NewTypes DEF DrawerInv, DrawerCurrent
<1>3. CASE DrawerShown(d)
  <2> DEFINE status == StatusOf(d.pipeline, d.selected)
             e == IF drawer.open THEN drawer ELSE NewDrawer
  <2>1. /\ cached' = CachedFor(d) /\ Updated(e, cached')
        /\ d.pipeline \in Stage /\ d.selected \in StepName
    BY <1>3 DEF Render, DrawerShown, DetailPage
  <2>2. status \in StatusView
    BY <2>1, ViewTypes
  <2>3. cached' \in Cached /\ cached'.name = d.selected /\ ~ HasStatusChanged(cached'.status, status)
    <3> HIDE DEF status
    <3>1. cached' = IF StepChanged(d) \/ HasStatusChanged(cached.status, status)
                    THEN [name |-> d.selected, status |-> status] ELSE cached
      BY <2>1 DEF CachedFor, status
    <3> QED
      BY <2>1, <2>2, <3>1 DEF DrawerInv, Cached, StepChanged, HasStatusChanged
  <2>4. e \in Drawer /\ e.open /\ (e.loading => logCalls # <<>>)
    BY NewTypes DEF DrawerInv
  <2>5. /\ drawer' \in Drawer /\ drawer'.open /\ drawer'.job = JobOf(cached'.name, cached'.status)
        /\ logCalls' \in Seq(LogRequest) /\ eventCalls' \subseteq StepName
        /\ drawer'.loading => logCalls' # <<>>
    <3> HIDE DEF e
    <3> QED
      BY <2>1, <2>3, <2>4, UpdatedSound DEF DrawerInv
  <2>6. JobOf(cached'.name, cached'.status) = JobOf(d.selected, status)
    BY <2>3 DEF JobOf, HasStatusChanged, KeyFields
  <2>7. DrawerCurrent'
    BY <1>1, <2>3, <2>5, <2>6 DEF DrawerCurrent
  <2> QED
    BY <1>1, <1>3, <2>3, <2>5, <2>7 DEF DrawerInv, OnDetail, DrawerShown
<1> QED
  BY <1>1, <1>2, <1>3

----------------------------------------------------------------------------
\* The steps, one component at a time.

\* What leaves cluster, shell and requests alone keeps their types.
LEMMA GroundUnchanged == ASSUME GroundInv, UNCHANGED ground PROVE GroundInv'
BY DEF GroundInv, ground, cluster

\* What others do to the cluster keeps the invariant.
LEMMA ClusterStep ==
  ASSUME PagesInv, OnCluster PROVE PagesInv'
<1> USE DEF GroundInv, EventKind
<1>1. UNCHANGED <<shell, page, listPage, detailPage>>
  BY DEF OnCluster, Cluster, Progress, Vanish, OtherDeletes, OtherCreates, TakeDelete, FailDelete, cluster
<1>2. GroundInv' /\ \A d \in deletes' : \E e \in deletes : d.from = e.from
  <2>1. CASE \E k \in Key : Progress(k)
    BY <2>1 DEF PagesInv, Progress, Spend, Stage
  <2>2. CASE \E k \in Key : Vanish(k)
    BY <2>2, StagesAssumption DEF PagesInv, Vanish, Stage, Gone
  <2>3. CASE \E k \in Key : OtherDeletes(k)
    BY <2>3 DEF PagesInv, OtherDeletes, Spend
  <2>4. CASE \E k \in Key : OtherCreates(k)
    <3>1. 1 \in Stage
      BY StagesAssumption DEF Stage
    <3> QED
      BY <2>4, <3>1 DEF PagesInv, OtherCreates, Spend
  <2>5. CASE \E d \in deletes : TakeDelete(d)
    <3>1. PICK d \in deletes : TakeDelete(d)
      BY <2>5
    <3>2. [d EXCEPT !.taken = TRUE] \in Deletion /\ [d EXCEPT !.taken = TRUE].from = d.from /\ d.key \in Key
      BY DEF PagesInv, Deletion
    <3> QED
      BY <3>1, <3>2 DEF PagesInv, TakeDelete
  <2>6. CASE \E d \in deletes : FailDelete(d)
    BY <2>6 DEF PagesInv, FailDelete, Spend, cluster
  <2> QED
    BY <2>1, <2>2, <2>3, <2>4, <2>5, <2>6 DEF OnCluster, Cluster
<1>3. PageInv' /\ DrawerInv'
  BY <1>1 DEF PagesInv, PageInv, DrawerInv, DrawerCurrent, OnDetail, detailPage
<1>4. ListInv'
  BY <1>1, <1>2 DEF PagesInv, ListInv, OnList, listPage
<1> QED
  BY <1>2, <1>3, <1>4 DEF PagesInv

\* A request to delete is one of the page that sends it.
LEMMA AskDeleteType ==
  ASSUME GroundInv, NEW k \in Key, NEW from \in {"list", "detail"}, AskDelete(k, from)
  PROVE  GroundInv' /\ \A d \in deletes' : d \in deletes \/ d.from = from
<1> DEFINE new == [key |-> k, taken |-> FALSE, from |-> from]
<1>1. new \in Deletion /\ new.from = from
  BY DEF Deletion
<1>2. events' \in [EventKind -> Nat]
  BY SpendType DEF GroundInv, AskDelete, EventKind
<1>3. deletes' = deletes \cup {new} /\ UNCHANGED <<cluster, shell, page>>
  BY DEF AskDelete
<1> HIDE DEF new
<1> QED
  BY <1>1, <1>2, <1>3 DEF GroundInv, cluster

\* The list's handlers keep the invariant.
LEMMA ListSteps ==
  ASSUME PagesInv, InList PROVE PagesInv'
<1>1. UNCHANGED <<page, detailPage>> /\ ListStep
  BY DEF InList, ListStep, PollList, AnswerList, FailList, DeleteFromList, ReloadAfterDelete, AskDelete,
         ground, cluster
<1>2. PageInv' /\ DrawerInv'
  BY <1>1 DEF PagesInv, PageInv, DrawerInv, DrawerCurrent, OnDetail, detailPage
<1>3. ASSUME NEW ns PROVE Asked(ns) \in Seq([Key -> Stage]) /\ Asked(ns) # <<>>
  BY ListPipelinesType, AppendFacts DEF PagesInv, GroundInv, ListInv, Asked
<1>4. GroundInv' /\ ListInv'
  <2> USE DEF PagesInv, ListInv, OnList
  <2>1. CASE PollList
    BY <2>1, <1>3 DEF PollList, GroundInv, ground, cluster
  <2>2. CASE \E i \in DOMAIN listCalls : AnswerList(i)
    <3>1. PICK i \in DOMAIN listCalls : AnswerList(i)
      BY <2>2
    <3>2. listCalls[i] \in [Key -> Stage] /\ OnList
      OBVIOUS
    <3>3. list' \in ListPage /\ ~ list'.loading
      BY <3>1, <3>2 DEF AnswerList, Loaded, ListPage
    <3>4. listCalls' \in Seq([Key -> Stage])
      BY <3>1, WithoutType DEF AnswerList
    <3>5. UNCHANGED <<page, deletes>> /\ GroundInv'
      BY <3>1, GroundUnchanged DEF AnswerList, ground
    <3> QED
      BY <3>2, <3>3, <3>4, <3>5
  <2>3. CASE \E i \in DOMAIN listCalls : FailList(i)
    <3>1. PICK i \in DOMAIN listCalls : FailList(i)
      BY <2>3
    <3>2. list' \in ListPage /\ ~ list'.loading
      BY <3>1 DEF FailList, ListPage
    <3>3. listCalls' \in Seq([Key -> Stage]) /\ OnList
      BY <3>1, WithoutType DEF FailList
    <3>4. UNCHANGED <<page, deletes>> /\ GroundInv'
      BY <3>1, SpendType DEF FailList, GroundInv, cluster, EventKind
    <3> QED
      BY <3>2, <3>3, <3>4
  <2>4. CASE \E k \in Key : DeleteFromList(k)
    <3>1. PICK k \in Key : DeleteFromList(k)
      BY <2>4
    <3>2. GroundInv' /\ \A d \in deletes' : d \in deletes \/ d.from = "list"
      BY <3>1, AskDeleteType DEF DeleteFromList
    <3> QED
      BY <3>1, <3>2, <1>1 DEF DeleteFromList, RowShown
  <2>5. CASE \E d \in deletes : ReloadAfterDelete(d)
    <3>1. PICK d \in deletes : ReloadAfterDelete(d)
      BY <2>5
    <3>2. GroundInv'
      BY <3>1 DEF ReloadAfterDelete, GroundInv, cluster
    <3>3. CASE d.from = "list"
      BY <3>1, <3>2, <3>3, <1>3, <1>1 DEF ReloadAfterDelete
    <3>4. CASE d.from # "list"
      BY <3>1, <3>2, <3>4, <1>1 DEF ReloadAfterDelete
    <3> QED
      BY <3>3, <3>4
  <2> QED
    BY <1>1, <2>1, <2>2, <2>3, <2>4, <2>5 DEF ListStep
<1> QED
  BY <1>2, <1>4 DEF PagesInv

\* So do those of the page of a pipeline.
LEMMA PageSteps ==
  ASSUME PagesInv, InDetail, ~ DrawerStep PROVE PagesInv'
<1> USE DEF PagesInv
<1>1. UNCHANGED <<page, listPage>> /\ (OnDetail => detail.key \in Key)
  BY DEF InDetail, DetailStep, PollPipeline, AnswerPipeline, FailPipeline, FinishLayout, SelectStep, CloseDrawer,
         SetSelected, DeletePipeline, DrawerStep, AskDelete, ground, cluster, PageInv
<1>2. ASSUME GroundInv', UNCHANGED deletes PROVE GroundInv' /\ ListInv'
  BY <1>1, <1>2 DEF ListInv, OnList, listPage
<1>3. CASE PollPipeline
  <2>1. GroundInv' /\ UNCHANGED deletes
    BY <1>3, GroundUnchanged DEF PollPipeline, ground
  <2>2. server[detail.key] \in Stage
    BY <1>1, <1>3 DEF PollPipeline, GroundInv
  <2>3. PageInv'
    BY <1>1, <1>3, <2>2, AppendFacts DEF PollPipeline, PageInv, OnDetail
  <2>4. DrawerInv'
    BY <1>1, <1>3 DEF PollPipeline, DrawerInv, DrawerCurrent, OnDetail
  <2> QED
    BY <1>2, <2>1, <2>3, <2>4
<1>4. CASE \E i \in DOMAIN gets : AnswerPipeline(i)
  <2>1. PICK i \in DOMAIN gets : AnswerPipeline(i)
    BY <1>4
  <2> DEFINE d == [detail EXCEPT !.pipeline = gets[i], !.error = FALSE]
  <2>2. OnDetail /\ gets[i] \in Stage
    BY <1>1 DEF PageInv
  <2>3. d \in DetailPage /\ d.key = detail.key
    BY <2>2 DEF PageInv, DetailPage
  <2>4. Render(d) /\ GroundInv' /\ UNCHANGED deletes
    BY <2>1, GroundUnchanged DEF AnswerPipeline, ground
  <2>5. gets' \in Seq(Stage) /\ layouts' \in Seq(Stage) /\ layouts' # <<>>
    BY <2>1, <2>2, WithoutType, AppendFacts DEF AnswerPipeline, PageInv
  <2> HIDE DEF d
  <2>6. detail' = d /\ DrawerInv'
    BY <1>1, <2>2, <2>3, <2>4, RenderSound
  <2>7. PageInv'
    BY <1>1, <2>2, <2>3, <2>5, <2>6 DEF PageInv, OnDetail
  <2> QED
    BY <1>2, <2>4, <2>6, <2>7
<1>5. CASE \E i \in DOMAIN gets : FailPipeline(i)
  <2>1. PICK i \in DOMAIN gets : FailPipeline(i)
    BY <1>5
  <2>2. OnDetail
    BY <1>1 DEF PageInv
  <2>3. NotLoaded \in DetailPage /\ NotLoaded.key = detail.key /\ ~ NotLoaded.loading
    BY DEF NotLoaded, PageInv, DetailPage
  <2>4. Render(NotLoaded) /\ UNCHANGED deletes
    BY <2>1 DEF FailPipeline, ground
  <2>5. GroundInv'
    <3>1. CASE UNCHANGED ground
      BY <3>1, GroundUnchanged
    <3>2. CASE Spend("failure") /\ UNCHANGED <<cluster, shell, page, deletes>>
      BY <3>2, SpendType DEF GroundInv, cluster, EventKind
    <3> QED
      BY <2>1, <3>1, <3>2 DEF FailPipeline
  <2>6. gets' \in Seq(Stage) /\ layouts' = layouts
    BY <2>1, WithoutType DEF FailPipeline, PageInv
  <2>7. detail' = NotLoaded /\ DrawerInv'
    BY <1>1, <2>2, <2>3, <2>4, RenderSound
  <2>8. PageInv'
    BY <1>1, <2>2, <2>3, <2>6, <2>7 DEF PageInv, OnDetail
  <2> QED
    BY <1>2, <2>4, <2>5, <2>7, <2>8
<1>6. CASE \E i \in DOMAIN layouts : FinishLayout(i)
  <2>1. PICK i \in DOMAIN layouts : FinishLayout(i)
    BY <1>6
  <2>2. OnDetail /\ layouts[i] \in Stage
    BY <1>1 DEF PageInv
  <2> DEFINE d == LaidOut(layouts[i])
  <2>3. d \in DetailPage /\ d.key = detail.key /\ ~ d.loading
    BY <2>2 DEF PageInv, DetailPage, LaidOut
  <2>4. Render(d) /\ GroundInv' /\ UNCHANGED deletes
    BY <2>1, GroundUnchanged DEF FinishLayout, ground
  <2>5. layouts' \in Seq(Stage) /\ gets' = gets
    BY <2>1, WithoutType DEF FinishLayout, PageInv
  <2> HIDE DEF d
  <2>6. detail' = d /\ DrawerInv'
    BY <1>1, <2>2, <2>3, <2>4, RenderSound
  <2>7. PageInv'
    BY <1>1, <2>2, <2>3, <2>5, <2>6 DEF PageInv, OnDetail
  <2> QED
    BY <1>2, <2>4, <2>6, <2>7
<1>7. CASE \E step \in StepName \cup {None} : PipelineShown /\ SetSelected(step)
  <2>1. PICK step \in StepName \cup {None} : PipelineShown /\ SetSelected(step)
    BY <1>7
  <2> DEFINE d == [detail EXCEPT !.selected = step]
  <2>2. OnDetail /\ ~ detail.loading
    BY <2>1 DEF PipelineShown
  <2>3. d \in DetailPage /\ d.key = detail.key /\ ~ d.loading
    BY <2>2 DEF PageInv, DetailPage
  <2>4. Render(d) /\ UNCHANGED <<deletes, gets, layouts>>
    BY <2>1 DEF SetSelected
  <2>5. GroundInv'
    BY <2>1, SpendType DEF SetSelected, GroundInv, cluster, EventKind
  <2> HIDE DEF d
  <2>6. detail' = d /\ DrawerInv'
    BY <1>1, <2>2, <2>3, <2>4, RenderSound
  <2>7. PageInv'
    BY <1>1, <2>2, <2>3, <2>4, <2>6 DEF PageInv, OnDetail
  <2> QED
    BY <1>2, <2>4, <2>5, <2>6, <2>7
<1>8. CASE DeletePipeline
  <2>1. GroundInv' /\ \A d \in deletes' : d \in deletes \/ d.from = "detail"
    BY <1>1, <1>8, AskDeleteType DEF DeletePipeline, PipelineShown
  <2>2. ListInv'
    BY <1>1, <2>1 DEF ListInv, OnList, listPage
  <2>3. UNCHANGED <<detail, gets, layouts, cached, drawer, logCalls, eventCalls>>
    BY <1>8 DEF DeletePipeline, asks
  <2>4. PageInv' /\ DrawerInv'
    BY <1>1, <2>3 DEF PageInv, DrawerInv, DrawerCurrent, OnDetail
  <2> QED
    BY <2>1, <2>2, <2>4
<1> QED
  BY <1>3, <1>4, <1>5, <1>6, <1>7, <1>8 DEF InDetail, DetailStep, SelectStep, CloseDrawer

\* So do those of its drawer.
LEMMA DrawerSteps ==
  ASSUME PagesInv, InDetail, DrawerStep PROVE PagesInv'
<1> USE DEF PagesInv
<1>1. UNCHANGED <<server, terminating, shell, page, deletes, listPage, detail, gets, layouts, cached>>
  BY DEF InDetail, DrawerStep, ActiveTab, LoadLogs, AnswerLogs, FailLogs, AnswerEvents, asks, ground, cluster
<1>2. ASSUME events' \in [EventKind -> Nat] PROVE GroundInv' /\ ListInv' /\ PageInv'
  <2>1. GroundInv'
    BY <1>1, <1>2 DEF GroundInv
  <2>2. ListInv'
    BY <1>1 DEF ListInv, OnList, listPage
  <2>3. PageInv'
    BY <1>1 DEF PageInv, OnDetail
  <2> QED
    BY <2>1, <2>2, <2>3
<1>3. ASSUME drawer.open, drawer' \in Drawer, drawer'.open, drawer'.job = drawer.job,
             logCalls' \in Seq(LogRequest), eventCalls' \subseteq StepName,
             drawer'.loading => logCalls' # <<>>
      PROVE  DrawerInv'
  <2>1. DrawerCurrent'
    BY <1>1, <1>3 DEF DrawerInv, DrawerCurrent
  <2> QED
    BY <1>1, <1>3, <2>1 DEF DrawerInv, OnDetail
<1>4. CASE \E tab \in {"logs", "other"} : ActiveTab(tab)
  <2>1. PICK tab \in {"logs", "other"} : ActiveTab(tab)
    BY <1>4
  <2>2. events' \in [EventKind -> Nat]
    BY <2>1, SpendType DEF ActiveTab, GroundInv, EventKind
  <2>3. /\ drawer' \in Drawer /\ drawer'.open /\ drawer'.job = drawer.job
        /\ drawer'.loading = drawer.loading
    BY <2>1 DEF ActiveTab, DrawerInv, Drawer
  <2>4. drawer.open /\ UNCHANGED <<logCalls, eventCalls>>
    BY <2>1 DEF ActiveTab, asks
  <2>5. DrawerInv'
    BY <1>3, <2>3, <2>4 DEF DrawerInv
  <2> QED
    BY <1>2, <2>2, <2>5
<1>5. CASE LoadLogs
  <2>1. events' \in [EventKind -> Nat] /\ drawer.open /\ UNCHANGED eventCalls
    BY <1>5 DEF LoadLogs, GroundInv, ground
  <2>2. drawer.job \in StepName /\ detail.key \in Key
    BY <1>5 DEF LoadLogs, DrawerInv, Drawer, PageInv
  <2>3. /\ drawer' \in Drawer /\ drawer'.open /\ drawer'.job = drawer.job
    BY <1>5 DEF LoadLogs, LogsAsked, DrawerInv, Drawer
  <2>4. logCalls' \in Seq(LogRequest) /\ logCalls' # <<>>
    BY <1>5, <2>2, LogCallType, AppendFacts DEF LoadLogs, DrawerInv
  <2>5. DrawerInv'
    BY <1>3, <2>1, <2>3, <2>4 DEF DrawerInv
  <2> QED
    BY <1>2, <2>1, <2>5
<1>6. CASE \E i \in DOMAIN logCalls : AnswerLogs(i)
  <2>1. PICK i \in DOMAIN logCalls : AnswerLogs(i)
    BY <1>6
  <2>2. events' \in [EventKind -> Nat] /\ UNCHANGED eventCalls
    BY <2>1 DEF AnswerLogs, GroundInv, ground
  <2>3. drawer.open
    BY DEF DrawerInv
  <2>4. logCalls[i].logs \in Text \cup {NoPod}
    <3>1. logCalls[i] \in LogRequest
      BY DEF DrawerInv
    <3> QED
      BY <3>1 DEF LogRequest
  <2> DEFINE e == WithLogs(drawer, logCalls[i].logs)
  <2>5. e \in Drawer /\ e.open /\ e.job = drawer.job
    BY <2>3, <2>4 DEF WithLogs, DrawerInv, Drawer
  <2>6. drawer' = Settled(e)
    BY <2>1 DEF AnswerLogs
  <2> HIDE DEF e
  <2>7. drawer' \in Drawer /\ drawer'.open /\ drawer'.job = drawer.job /\ ~ drawer'.loading
    BY <2>5, <2>6 DEF Settled, Drawer
  <2>8. logCalls' \in Seq(LogRequest)
    BY <2>1, WithoutType DEF AnswerLogs, DrawerInv
  <2>9. DrawerInv'
    BY <1>3, <2>2, <2>3, <2>7, <2>8 DEF DrawerInv
  <2> QED
    BY <1>2, <2>2, <2>9
<1>7. CASE \E i \in DOMAIN logCalls : FailLogs(i)
  <2>1. PICK i \in DOMAIN logCalls : FailLogs(i)
    BY <1>7
  <2>2. events' \in [EventKind -> Nat] /\ UNCHANGED eventCalls
    BY <2>1, SpendType DEF FailLogs, GroundInv, EventKind
  <2>3. drawer.open
    BY DEF DrawerInv
  <2> DEFINE e == [drawer EXCEPT !.error = TRUE]
  <2>4. e \in Drawer /\ e.open /\ e.job = drawer.job
    BY <2>3 DEF DrawerInv, Drawer
  <2>5. drawer' = Settled(e)
    BY <2>1 DEF FailLogs
  <2> HIDE DEF e
  <2>6. drawer' \in Drawer /\ drawer'.open /\ drawer'.job = drawer.job /\ ~ drawer'.loading
    BY <2>4, <2>5 DEF Settled, Drawer
  <2>7. logCalls' \in Seq(LogRequest)
    BY <2>1, WithoutType DEF FailLogs, DrawerInv
  <2>8. DrawerInv'
    BY <1>3, <2>2, <2>3, <2>6, <2>7 DEF DrawerInv
  <2> QED
    BY <1>2, <2>2, <2>8
<1>8. CASE \E job \in eventCalls : AnswerEvents(job)
  <2>1. PICK job \in eventCalls : AnswerEvents(job)
    BY <1>8
  <2>2. events' \in [EventKind -> Nat]
    BY <2>1, SpendType DEF AnswerEvents, GroundInv, EventKind
  <2>3. drawer.open /\ job \in StepName
    BY DEF DrawerInv
  <2>4. /\ drawer' \in Drawer /\ drawer'.open /\ drawer'.job = drawer.job
        /\ drawer'.loading = drawer.loading
    BY <2>1, <2>3 DEF AnswerEvents, DrawerInv, Drawer
  <2>5. logCalls' = logCalls /\ eventCalls' \subseteq eventCalls
    BY <2>1 DEF AnswerEvents
  <2>6. DrawerInv'
    BY <1>3, <2>3, <2>4, <2>5 DEF DrawerInv
  <2> QED
    BY <1>2, <2>2, <2>6
<1> QED
  BY <1>4, <1>5, <1>6, <1>7, <1>8 DEF DrawerStep

----------------------------------------------------------------------------
\* The router.

\* A page that is opened afresh is sound, with its first request.
LEMMA Opens ==
  ASSUME NEW k \in Key \cup {None}, NEW calls \in Seq(Stage), Opened(k, calls),
         IF page' = "pipeline-detail" THEN k \in Key /\ calls # <<>> ELSE calls = <<>>
  PROVE  PageInv' /\ DrawerInv'
<1>1. detail' \in DetailPage /\ detail'.key = k
  BY NewTypes DEF Opened
<1>2. PageInv'
  BY <1>1 DEF Opened, PageInv, OnDetail
<1>3. DrawerInv'
  BY NewTypes DEF Opened, DrawerInv, DrawerCurrent
<1> QED
  BY <1>2, <1>3

\* So is what is left when another page is opened.
LEMMA OpensNone ==
  ASSUME Opened(None, <<>>), page' # "pipeline-detail" PROVE PageInv' /\ DrawerInv'
<1>1. <<>> \in Seq(Stage) /\ None \in Key \cup {None}
  OBVIOUS
<1> QED
  BY <1>1, Opens

\* The list is sound when it is shown.
LEMMA ShowListSound ==
  ASSUME GroundInv, ShowList, \A d \in deletes' : d.from # "list"
  PROVE  ListInv' /\ PageInv' /\ DrawerInv'
<1>1. ListPipelines("default") \in [Key -> Stage]
  BY ListPipelinesType DEF GroundInv
<1>2. ListInv'
  BY <1>1, NewListType DEF ShowList, ListInv, OnList
<1>3. PageInv' /\ DrawerInv'
  BY OpensNone DEF ShowList
<1> QED
  BY <1>2, <1>3

\* Of a page that is left, the requests to delete are of no list.
LEMMA AbandonedType ==
  ASSUME GroundInv PROVE Abandoned \subseteq Deletion /\ \A d \in Abandoned : d.from # "list"
<1>1. ASSUME NEW d \in deletes
      PROVE  /\ [d EXCEPT !.from = IF @ = "list" THEN "nowhere" ELSE @] \in Deletion
             /\ [d EXCEPT !.from = IF @ = "list" THEN "nowhere" ELSE @].from # "list"
  BY DEF GroundInv, Deletion
<1> QED
  BY <1>1 DEF Abandoned

\* The router keeps the invariant.
LEMMA RouterStep ==
  ASSUME PagesInv, Router PROVE PagesInv'
<1> USE DEF PagesInv
<1>1. ASSUME Visit, page' \in Pages PROVE GroundInv' /\ \A d \in deletes' : d.from # "list"
  BY <1>1, AbandonedType, SpendType DEF Visit, GroundInv, EventKind, cluster
<1>2. CASE OpenList
  BY <1>1, <1>2, ShowListSound DEF OpenList, ShowList, Pages
<1>3. CASE NavigateToPipeline
  <2>1. PICK k \in Key : Visit /\ ShowDetail(k)
    BY <1>3 DEF NavigateToPipeline
  <2>2. GroundInv' /\ \A d \in deletes' : d.from # "list"
    BY <1>1, <2>1 DEF ShowDetail, Pages
  <2>3. ListInv'
    BY <2>1, <2>2, NewListType DEF ShowDetail, NoList, ListInv, OnList
  <2>4. <<server[k]>> \in Seq(Stage) /\ <<server[k]>> # <<>>
    BY DEF GroundInv
  <2>5. PageInv' /\ DrawerInv'
    BY <2>1, <2>4, Opens DEF ShowDetail
  <2> QED
    BY <2>2, <2>3, <2>5
<1>4. CASE \E kind \in StorageKind : OpenStorage(kind)
  <2>1. Visit /\ NoList /\ Opened(None, <<>>) /\ page' \in StorageKind
    BY <1>4 DEF OpenStorage, ShowStorage
  <2>2. GroundInv' /\ \A d \in deletes' : d.from # "list"
    BY <1>1, <2>1 DEF StorageKind, Pages
  <2>3. ListInv'
    BY <2>1, <2>2, NewListType DEF NoList, ListInv, OnList, StorageKind
  <2>4. PageInv' /\ DrawerInv'
    BY <2>1, OpensNone DEF StorageKind
  <2> QED
    BY <2>2, <2>3, <2>4
<1>5. CASE \E d \in deletes : NavigateAfterDelete(d)
  <2>1. PICK d \in deletes : NavigateAfterDelete(d)
    BY <1>5
  <2>2. GroundInv' /\ \A e \in deletes' : e.from # "list"
    BY <2>1, AbandonedType DEF NavigateAfterDelete, ShowList, Pages, GroundInv, cluster
  <2>3. ListInv' /\ PageInv' /\ DrawerInv'
    BY <2>1, <2>2, ShowListSound DEF NavigateAfterDelete
  <2> QED
    BY <2>2, <2>3
<1>6. CASE \E ns \in Namespace : ChangeNamespace(ns)
  <2>1. PICK ns \in Namespace : ChangeNamespace(ns)
    BY <1>6
  <2>2. GroundInv' /\ UNCHANGED <<page, deletes, detailPage>>
    BY <2>1, SpendType DEF ChangeNamespace, GroundInv, EventKind, cluster
  <2>3. PageInv' /\ DrawerInv'
    BY <2>2 DEF PageInv, DrawerInv, DrawerCurrent, OnDetail, detailPage
  <2>4. CASE OnList
    <3>1. list' = [list EXCEPT !.namespace = ns] /\ listCalls' = Asked(ns)
      BY <2>1, <2>4 DEF ChangeNamespace, HandleNamespaceChange
    <3>2. list' \in ListPage
      BY <3>1 DEF ListInv, ListPage
    <3>3. listCalls' \in Seq([Key -> Stage]) /\ listCalls' # <<>>
      BY <3>1, ListPipelinesType, AppendFacts DEF ListInv, GroundInv, Asked
    <3> QED
      BY <2>2, <2>3, <2>4, <3>2, <3>3 DEF ListInv, OnList
  <2>5. CASE ~ OnList
    BY <2>1, <2>2, <2>3, <2>5 DEF ListInv, OnList, ChangeNamespace, HandleNamespaceChange
  <2> QED
    BY <2>4, <2>5
<1> QED
  BY <1>2, <1>3, <1>4, <1>5, <1>6 DEF Router

----------------------------------------------------------------------------
\* The pages of storage leave the others alone.

\* The pages of storage leave the pipelines' requests alone.
LEMMA StorageGround ==
  ASSUME GroundInv, StorageStep PROVE GroundInv' /\ UNCHANGED <<cluster, shell, page, deletes>>
<1>1. UNCHANGED <<cluster, shell, page, deletes>> /\ (UNCHANGED events \/ \E kind \in EventKind : Spend(kind))
  <2> USE DEF EventKind, ground, SetDialog, SetPairs
  <2>1. CASE PollStorage
    BY <2>1 DEF PollStorage
  <2>2. CASE \E i \in DOMAIN listings : AnswerListing(i)
    BY <2>2 DEF AnswerListing
  <2>3. CASE DialogStep
    BY <2>3 DEF DialogStep, OpenCreateModal, OpenEditModal, CloseModal, AddKeyValuePair, Create, SaveEdit, OpenViewModal,
                DeleteThing, SetName, RemoveKeyValuePair, UpdateKeyValuePair, SendDialog, Ask, Complain
  <2>4. CASE \E w \in writes : AnswerWrite(w) \/ FailWrite(w) \/ TakeWrite(w)
    BY <2>4 DEF AnswerWrite, FailWrite, TakeWrite
  <2>5. CASE \E kind \in StorageKind, k \in Key : \E thing \in Foreign : OtherStores(kind, k, thing)
    BY <2>5 DEF OtherStores
  <2> QED
    BY <2>1, <2>2, <2>3, <2>4, <2>5 DEF StorageStep
<1>2. events' \in [EventKind -> Nat]
  BY <1>1, SpendType DEF GroundInv
<1> QED
  BY <1>1, <1>2 DEF GroundInv, cluster

\* Hence they keep the invariant.
LEMMA StorageStepHere ==
  ASSUME PagesInv, InStorage PROVE PagesInv'
<1>1. GroundInv' /\ UNCHANGED <<shell, page, deletes, listPage, detailPage>>
  BY StorageGround DEF PagesInv, InStorage
<1>2. ListInv'
  BY <1>1 DEF PagesInv, ListInv, OnList, listPage
<1>3. PageInv' /\ DrawerInv'
  BY <1>1 DEF PagesInv, PageInv, DrawerInv, DrawerCurrent, OnDetail, detailPage
<1> QED
  BY <1>1, <1>2, <1>3 DEF PagesInv

----------------------------------------------------------------------------
\* The invariant holds at first.
LEMMA PagesInit == Init => PagesInv
<1> SUFFICES ASSUME Init PROVE PagesInv
  OBVIOUS
<1>1. GroundInv
  BY StoredAssumption, BudgetAssumption, KeyAssumption DEF Init, GroundInv, Pages, StorageKind
<1>2. CASE page = "pipeline-list" /\ ListIs(<<ListPipelines("default")>>) /\ DetailIs(None, <<>>)
  <2>1. ListPipelines("default") \in [Key -> Stage]
    BY <1>1, ListPipelinesType DEF GroundInv
  <2>2. ListInv
    BY <1>2, <2>1, NewListType DEF ListIs, ListInv, OnList, Init
  <2>3. detail \in DetailPage
    BY <1>2, NewTypes DEF DetailIs
  <2>4. PageInv
    BY <1>2, <2>3 DEF DetailIs, PageInv, OnDetail
  <2>5. DrawerInv
    BY <1>2, NewTypes DEF DetailIs, DrawerInv, DrawerCurrent
  <2> QED
    BY <1>1, <2>2, <2>4, <2>5 DEF PagesInv
<1>3. CASE page = "pipeline-detail" /\ ListIs(<<>>) /\ \E k \in Key : DetailIs(k, <<server[k]>>)
  <2>1. PICK k \in Key : DetailIs(k, <<server[k]>>)
    BY <1>3
  <2>2. ListInv
    BY <1>3, NewListType DEF ListIs, ListInv, OnList, Init
  <2>3. detail \in DetailPage /\ detail.key = k
    BY <2>1, NewTypes DEF DetailIs
  <2>4. server[k] \in Stage
    BY <1>1 DEF GroundInv
  <2>5. PageInv
    BY <1>3, <2>1, <2>3, <2>4 DEF DetailIs, PageInv, OnDetail
  <2>6. DrawerInv
    BY <2>1, NewTypes DEF DetailIs, DrawerInv, DrawerCurrent
  <2> QED
    BY <1>1, <2>2, <2>5, <2>6 DEF PagesInv
<1>4. CASE page \in StorageKind /\ ListIs(<<>>) /\ DetailIs(None, <<>>)
  <2>1. ListInv
    BY <1>4, NewListType DEF ListIs, ListInv, OnList, Init, StorageKind
  <2>2. detail \in DetailPage
    BY <1>4, NewTypes DEF DetailIs
  <2>3. PageInv
    BY <1>4, <2>2 DEF DetailIs, PageInv, OnDetail, StorageKind
  <2>4. DrawerInv
    BY <1>4, NewTypes DEF DetailIs, DrawerInv, DrawerCurrent
  <2> QED
    BY <1>1, <2>1, <2>3, <2>4 DEF PagesInv
<1> QED
  BY <1>2, <1>3, <1>4 DEF Init

\* Each step keeps the invariant.
LEMMA PagesStep == PagesInv /\ [Next]_vars => PagesInv'
<1> SUFFICES ASSUME PagesInv, [Next]_vars PROVE PagesInv'
  OBVIOUS
<1>1. CASE Next
  BY <1>1, ClusterStep, ListSteps, PageSteps, DrawerSteps, StorageStepHere, RouterStep DEF Next
<1>2. CASE UNCHANGED vars
  <2>1. GroundInv'
    BY <1>2, GroundUnchanged DEF PagesInv, vars
  <2>2. ListInv'
    BY <1>2 DEF PagesInv, ListInv, OnList, vars, ground, listPage
  <2>3. PageInv' /\ DrawerInv'
    BY <1>2 DEF PagesInv, PageInv, DrawerInv, DrawerCurrent, OnDetail, vars, ground, detailPage
  <2> QED
    BY <2>1, <2>2, <2>3 DEF PagesInv
<1> QED
  BY <1>1, <1>2

\* The invariant holds always.
LEMMA PagesSound == Spec => []PagesInv
BY PagesInit, PagesStep, PTL DEF Spec

\* The drawer never has another step, or another phase, job or end of it,
\* than the page beside it (renderStepDetails, hasStatusChanged).
THEOREM DrawerFollowsSelection == Spec => []DrawerCurrent
<1>1. PagesInv => DrawerCurrent
  BY DEF PagesInv, DrawerInv
<1> QED
  BY <1>1, PagesSound, PTL
=============================================================================
