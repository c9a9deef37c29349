--------------------------- MODULE PipelineMonitor --------------------------
(***************************************************************************)
(* The monitor: the pages for pipelines and for storage, one of which is   *)
(* open, the sidebar and the router that replaces one by another, and the  *)
(* cluster, which others change too.                                       *)
(***************************************************************************)
EXTENDS PipelineList, PipelineDetail, StorageList

listPage   == <<list, listCalls>>
detailPage == <<detail, gets, layouts, cached, drawer, logCalls, eventCalls>>
vars       == <<ground, listPage, detailPage, storagePage>>

\* The pages are functions of what is asked for when they are opened: an
\* element that is not in the outlet keeps nothing anyone sees.
ListIs(calls) == list = NewList /\ listCalls = calls
DetailIs(k, calls) ==
  /\ detail = NewDetail(k) /\ gets = calls /\ layouts = <<>>
  /\ cached = NotCached /\ drawer = NoDrawer /\ logCalls = <<>> /\ eventCalls = {}
StorageIs(calls) ==
  /\ stored \in Things /\ writes = {} /\ storage = NewStorage /\ listings = calls
  /\ dialog = Closed /\ busy = NotBusy

----------------------------------------------------------------------------
\* The router: renderComponent removes the element there is and makes a new
\* one, which asks for what it shows.

NoList   == list' = NewList /\ listCalls' = <<>>
Opened(k, calls) ==
  /\ detail' = NewDetail(k) /\ gets' = calls /\ layouts' = <<>>
  /\ cached' = NotCached /\ drawer' = NoDrawer /\ logCalls' = <<>> /\ eventCalls' = {}

ShowList ==
  /\ page' = "pipeline-list"
  /\ list' = NewList /\ listCalls' = <<ListPipelines("default")>>
  /\ Opened(None, <<>>) /\ StorageLeft

ShowDetail(k)     == page' = "pipeline-detail" /\ NoList /\ Opened(k, <<server[k]>>) /\ StorageLeft
ShowStorage(kind) == page' = kind /\ NoList /\ Opened(None, <<>>) /\ StorageOpened(kind)

Visit == Spend("visit") /\ deletes' = Abandoned /\ UNCHANGED <<cluster, shell>>

OpenList           == Visit /\ ShowList
NavigateToPipeline == \E k \in Key : RowShown(k) /\ Visit /\ ShowDetail(k)
OpenStorage(kind)  == Visit /\ ShowStorage(kind)

\* The answer to a deletion on the page of the pipeline goes to the list,
\* from whatever page there is by then.
NavigateAfterDelete(d) ==
  /\ d \in deletes /\ d.taken /\ d.from = "detail"
  /\ deletes' = Abandoned \ {d}
  /\ ShowList
  /\ UNCHANGED <<cluster, shell, events>>

\* The sidebar's menu.
ChangeNamespace(ns) ==
  /\ ns # shell /\ Spend("select")
  /\ shell' = ns /\ HandleNamespaceChange(ns) /\ StorageNamespaceChange(ns)
  /\ UNCHANGED <<cluster, page, deletes, detailPage>>

----------------------------------------------------------------------------
\* The application is opened on any page.
Init ==
  /\ server \in Stored /\ terminating = {} /\ deletes = {}
  /\ shell = "default" /\ events \in Budgets
  /\ \/ page = "pipeline-list" /\ ListIs(<<ListPipelines("default")>>) /\ DetailIs(None, <<>>) /\ StorageIs(<<>>)
     \/ page = "pipeline-detail" /\ ListIs(<<>>) /\ (\E k \in Key : DetailIs(k, <<server[k]>>)) /\ StorageIs(<<>>)
     \/ page \in StorageKind /\ ListIs(<<>>) /\ DetailIs(None, <<>>)
        /\ StorageIs(<<[items |-> ListThings(page, "default"), ends |-> "nothing"]>>)

Router ==
  \/ OpenList \/ NavigateToPipeline \/ \E kind \in StorageKind : OpenStorage(kind)
  \/ \E d \in deletes : NavigateAfterDelete(d)
  \/ \E ns \in Namespace : ChangeNamespace(ns)

OnCluster == Cluster /\ UNCHANGED <<listPage, detailPage, storagePage>>
InList    == ListStep /\ UNCHANGED <<detailPage, storagePage>>
InDetail  == DetailStep /\ UNCHANGED <<listPage, storagePage>>
InStorage == StorageStep /\ UNCHANGED <<listPage, detailPage>>

Next == OnCluster \/ InList \/ InDetail \/ InStorage \/ Router

Spec == Init /\ [][Next]_vars

----------------------------------------------------------------------------
\* The timers go off, and every request and every layout settles: the one
\* asked for first is answered or fails, sooner or later.
First(seq, Take(_)) == 1 \in DOMAIN seq /\ Take(1)

ForList    == UNCHANGED <<detailPage, storagePage>>
ForDetail  == UNCHANGED <<listPage, storagePage>>
ForStorage == UNCHANGED <<listPage, detailPage>>

AListIsAnswered     == First(listCalls, LAMBDA i : AnswerList(i) \/ FailList(i)) /\ ForList
APipelineIsAnswered == First(gets, LAMBDA i : AnswerPipeline(i) \/ FailPipeline(i)) /\ ForDetail
ALayoutIsFinished   == First(layouts, FinishLayout) /\ ForDetail
LogsAreAnswered     == First(logCalls, LAMBDA i : AnswerLogs(i) \/ FailLogs(i)) /\ ForDetail
AListingIsAnswered  == First(listings, AnswerListing) /\ ForStorage
AWriteIsAnswered(op) ==
  /\ \E w \in writes : w.here /\ w.op = op /\ (TakeWrite(w) \/ AnswerWrite(w) \/ FailWrite(w))
  /\ ForStorage

Fairness ==
  /\ WF_vars(PollList /\ ForList)         /\ WF_vars(AListIsAnswered)
  /\ WF_vars(PollPipeline /\ ForDetail)   /\ WF_vars(APipelineIsAnswered)
  /\ WF_vars(ALayoutIsFinished)
  /\ WF_vars(PollLogs /\ ForDetail)       /\ WF_vars(LogsAreAnswered)
  /\ WF_vars(PollStorage /\ ForStorage)   /\ WF_vars(AListingIsAnswered)
  /\ \A op \in {"create", "edit"} : WF_vars(AWriteIsAnswered(op))

FairSpec == Spec /\ Fairness
=============================================================================
