--------------------------- MODULE NavigationProofs --------------------------
(***************************************************************************)
(* That the router's calls return, and leave the page that the browser's   *)
(* location names, for any paths, tables and budgets; that the pages and   *)
(* the bar of a table of any size are complete and can be turned to; and   *)
(* that only answers strand a table.                                       *)
(***************************************************************************)
EXTENDS NavigationProperties, SequenceTheorems, CommonLemmas

----------------------------------------------------------------------------
\* The routes.

\* There are seven routes, each to a page or a redirect.
LEMMA RoutesType ==
  /\ DOMAIN Routes = 1..7
  /\ \A n \in 1..7 : Routes[n].component \in Pages
PROOF
  <1>1. DOMAIN Routes = 1..7  BY DEF Routes
  <1>2. \A n \in 1..7 : n = 1 \/ n = 2 \/ n = 3 \/ n = 4 \/ n = 5 \/ n = 6 \/ n = 7  OBVIOUS
  <1>3. /\ Routes[1].component \in Pages /\ Routes[2].component \in Pages
        /\ Routes[3].component \in Pages /\ Routes[4].component \in Pages
        /\ Routes[5].component \in Pages /\ Routes[6].component \in Pages
        /\ Routes[7].component \in Pages
    BY DEF Routes, Component, Redirect, Pages
  <1> QED BY <1>1, <1>2, <1>3

\* Some route that matches comes first.
LEMMA FirstOfMatching ==
  ASSUME NEW path, IsRoute(path)
  PROVE  \E n \in Matching(path) : FirstMatch(path) = Routes[n] /\ \A m \in Matching(path) : n <= m
PROOF
  <1> DEFINE First(n) == n \in Matching(path) /\ \A m \in Matching(path) : n <= m
  <1>1. Matching(path) \subseteq 1..7  BY RoutesType DEF Matching
  <1>2. Matching(path) # {}  BY DEF IsRoute
  <1>3. \E n \in Matching(path) : \A m \in Matching(path) : n <= m
    BY <1>1, <1>2
  <1> QED BY <1>3 DEF FirstMatch

\* The root is the only route that redirects.
LEMMA OnlyRootRedirects ==
  /\ Routes[1].component = "redirect" /\ Routes[1].redirect = <<"pipelines">> /\ Routes[1].path = <<>>
  /\ \A n \in 2..7 : Routes[n].component # "redirect"
PROOF
  <1>1. \A n \in 2..7 : n = 2 \/ n = 3 \/ n = 4 \/ n = 5 \/ n = 6 \/ n = 7  OBVIOUS
  <1>2. \A n \in 2..7 : Routes[n].component # "redirect"
    BY <1>1 DEF Routes, Component, Redirect
  <1> QED BY <1>2 DEF Routes, Component, Redirect, Root

\* A path that redirects is the root, and leads to the pipelines.
LEMMA RedirectIsRoot ==
  ASSUME NEW path \in Path, IsRedirect(path)
  PROVE  path = Root /\ FirstMatch(path).redirect = <<"pipelines">>
PROOF
  <1>1. PICK n \in Matching(path) : FirstMatch(path) = Routes[n]
    BY FirstOfMatching DEF IsRedirect
  <1>2. n \in 1..7  BY RoutesType DEF Matching
  <1>3. n = 1  BY <1>1, <1>2, OnlyRootRedirects DEF IsRedirect
  <1>4. Len(path) = 0
    <2>1. Len(Routes[1].path) = Len(path)  BY <1>1, <1>3 DEF Matching, Matches
    <2> QED BY <2>1, OnlyRootRedirects
  <1> QED BY <1>1, <1>3, <1>4, OnlyRootRedirects, EmptySeq, PathAssumption DEF Root

\* The root is a route, and redirects.
LEMMA RootRedirects == IsRoute(Root) /\ IsRedirect(Root)
PROOF
  <1>1. Len(Root) = 0 /\ DOMAIN Root = {}  BY DEF Root
  <1>2. Matches(Routes[1], Root)  BY <1>1, OnlyRootRedirects DEF Matches
  <1>3. 1 \in Matching(Root)  BY <1>2, RoutesType DEF Matching
  <1>4. PICK n \in Matching(Root) : /\ FirstMatch(Root) = Routes[n]
                                    /\ \A m \in Matching(Root) : n <= m
    BY <1>3, FirstOfMatching DEF IsRoute
  <1>5. n = 1  BY <1>3, <1>4, RoutesType DEF Matching
  <1> QED BY <1>3, <1>4, <1>5, OnlyRootRedirects DEF IsRoute, IsRedirect

\* What the root redirects to is rendered.
LEMMA TargetIsComponent == IsRoute(<<"pipelines">>) /\ ~ IsRedirect(<<"pipelines">>)
PROOF
  <1> DEFINE target == <<"pipelines">>
  <1>1. Routes[2].path = target  BY DEF Routes, Component, Redirect
  <1>2. "pipelines" \notin Param  BY DEF Param
  <1>3. target \in Path  BY PathAssumption DEF Target
  <1>0. DOMAIN target = {1} /\ target[1] = "pipelines" /\ Len(target) = 1  OBVIOUS
  <1>4. Matches(Routes[2], target)  BY <1>0, <1>1, <1>2 DEF Matches
  <1>5. IsRoute(target)  BY <1>4, RoutesType DEF Matching, IsRoute
  <1>6. ~ IsRedirect(target)
    <2> SUFFICES ASSUME IsRedirect(target) PROVE FALSE  OBVIOUS
    <2>1. target = Root  BY <1>3, RedirectIsRoot
    <2> QED BY <2>1 DEF Root
  <1> QED BY <1>5, <1>6

\* The element of a route has a page's tag and parameters of the path.
LEMMA ElementType ==
  ASSUME NEW path \in Path, IsRoute(path)
  PROVE  Element(path) \in [component : Pages, params : [Param -> Segment]]
PROOF
  <1> DEFINE route == FirstMatch(path)
             Value(p) == IF \E i \in DOMAIN path : route.path[i] = p
                         THEN path[CHOOSE i \in DOMAIN path : route.path[i] = p] ELSE ""
  <1>1. route.component \in Pages
    BY FirstOfMatching, RoutesType DEF Matching
  <1>2. ASSUME NEW p \in Param
        PROVE  Value(p) \in Segment
    <2>1. path \in Seq(Segment)  BY PathAssumption
    <2>2. \A i \in DOMAIN path : path[i] \in Segment  BY <2>1
    <2> QED BY <2>2, PathAssumption
  <1>3. Params(route, path) = [p \in Param |-> Value(p)]  BY DEF Params
  <1>4. Params(route, path) \in [Param -> Segment]
    <2> HIDE DEF Value
    <2> QED BY <1>2, <1>3
  <1> QED BY <1>1, <1>4 DEF Element

----------------------------------------------------------------------------
\* The tables.

TableOK(t) == t \in Table /\ t.page >= 1

\* A table without rows, on its first page, has the type of tables.
LEMMA FreshTableType ==
  ASSUME NEW kind \in ListKind \cup {"none"}, NEW column \in Column, NEW ascending \in BOOLEAN
  PROVE  TableOK([kind |-> kind, items |-> <<>>, shown |-> "spinner", query |-> "",
                  column |-> column, ascending |-> ascending, page |-> 1, menu |-> NoMenu])
PROOF
  <1>1. <<>> \in Seq(Row)  BY EmptySeq
  <1>2. "" \in Query  BY QueryAssumption, Zenon
  <1> DEFINE t == [kind |-> kind, items |-> <<>>, shown |-> "spinner", query |-> "",
                   column |-> column, ascending |-> ascending, page |-> 1, menu |-> NoMenu]
  <1>3. t \in Table  BY <1>1, <1>2 DEF Table
  <1>4. t.page = 1  OBVIOUS
  <1>5. TableOK(t)
    <2> HIDE DEF t
    <2> QED BY <1>3, <1>4 DEF TableOK
  <1> QED BY <1>5

\* So has the one that each list starts with.
LEMMA NewTableType == \A kind \in ListKind \cup {"none"} : TableOK(NewTable(kind))
PROOF
  <1> SUFFICES ASSUME NEW kind \in ListKind \cup {"none"} PROVE TableOK(NewTable(kind))
    OBVIOUS
  <1>1. (IF kind = "pipeline-list" THEN "created" ELSE "name") \in Column  BY DEF Column
  <1>2. (kind # "pipeline-list") \in BOOLEAN  OBVIOUS
  <1> QED BY <1>1, <1>2, FreshTableType, Zenon DEF NewTable

\* What the user does to a table, and what an answer brings.
LEMMA InTableType == ASSUME TableOK(table), InTable PROVE TableOK(table')
PROOF
  <1> USE DEF TableOK, Table, ClickClosesMenu
  <1>1. ASSUME NEW query \in Query, HandleSearchInput(query) PROVE TableOK(table')
    <2>1. table' = ClickClosesMenu([table EXCEPT !.query = query, !.page = 1])
      BY <1>1 DEF HandleSearchInput
    <2>2. table' = [table EXCEPT !.query = query, !.page = 1, !.menu = NoMenu]  BY <2>1
    <2>3. table' \in Table  BY <2>2
    <2>4. table'.page = 1  BY <2>2
    <2> QED BY <2>3, <2>4
  <1>2. ASSUME NEW page \in Reached(Total(table), table.page), GoToPage(page) PROVE TableOK(table')
    <2>1. page \in Nat /\ page >= 1  BY DEF Reached
    <2>2. table' = ClickClosesMenu([table EXCEPT !.page = page])  BY <1>2 DEF GoToPage
    <2> QED BY <2>1, <2>2
  <1>3. ASSUME NEW column \in Column, ToggleSortColumn(column) PROVE TableOK(table')
    BY <1>3 DEF ToggleSortColumn
  <1>4. CASE ToggleSort
    BY <1>4 DEF ToggleSort
  <1>5. ASSUME NEW name \in Name, ToggleMenu(name) PROVE TableOK(table')
    BY <1>5 DEF ToggleMenu
  <1>6. CASE HandleDocumentClick
    BY <1>6 DEF HandleDocumentClick
  <1> QED BY <1>1, <1>2, <1>3, <1>4, <1>5, <1>6 DEF InTable

\* An answer keeps the type of the table.
LEMMA AnsweredType == ASSUME TableOK(table), table.kind \in ListKind, Answered PROVE TableOK(table')
PROOF
  <1> USE DEF TableOK, Table
  <1>1. \A rows \in Answers[table.kind] : rows \in Seq(Row)  BY AnswersAssumption
  <1>2. CASE \E rows \in Answers[table.kind] : Answer(rows)
    BY <1>1, <1>2 DEF Answer
  <1>3. CASE FailPipelines
    BY <1>3 DEF FailPipelines
  <1> QED BY <1>2, <1>3 DEF Answered, AnswerPipelines, AnswerPVCs, AnswerSecrets

----------------------------------------------------------------------------
\* The router.

\* A call under way is for the path the browser shows.
PendingIsLocation == ~ Idle => pending = Location

RouterOK ==
  /\ history \in Seq(Path) /\ at \in DOMAIN history
  /\ pending \in Path \cup {NoPath}
  /\ outlet \in [component : Pages, params : [Param -> Segment]]
  /\ currentPath \in Path

RouterInv == RouterOK /\ OutletIsLocation /\ PendingIsLocation

\* An outlet before the first page has the type of outlets.
LEMMA NoElementType == NoElement \in [component : Pages, params : [Param -> Segment]]
BY PathAssumption DEF NoElement, Pages

\* A new entry of the history is the one it is at.
LEMMA PushFacts ==
  ASSUME RouterOK, NEW path \in Path, Push(path)
  PROVE  history' \in Seq(Path) /\ at' \in DOMAIN history' /\ history'[at'] = path
PROOF
  <1> DEFINE before == SubSeq(history, 1, at)
  <1>1. at \in 1..Len(history) /\ history \in Seq(Path)  BY DEF RouterOK
  <1>2. before \in Seq(Path) /\ Len(before) = at
    BY <1>1, SubSeqProperties
  <1>3. history' = Append(before, path) /\ at' = at + 1  BY DEF Push
  <1>4. /\ Append(before, path) \in Seq(Path) /\ Len(Append(before, path)) = at + 1
        /\ Append(before, path)[at + 1] = path
    <2> HIDE DEF before
    <2> QED BY <1>1, <1>2, AppendProperties
  <1> QED BY <1>1, <1>3, <1>4

\* go leaves a call pending, for the path the browser shows.
LEMMA GoInv ==
  ASSUME RouterOK, NEW path \in Path, Go(path)
  PROVE  RouterInv'
PROOF
  <1>1. history' \in Seq(Path) /\ at' \in DOMAIN history' /\ history'[at'] = path
    BY PushFacts DEF Go
  <1>2. pending' = path /\ outlet' = outlet /\ currentPath' = currentPath  BY DEF Go
  <1>3. path # NoPath  BY PathAssumption
  <1> QED BY <1>1, <1>2, <1>3 DEF RouterInv, RouterOK, OutletIsLocation, PendingIsLocation, Idle, Location

\* So does a document that loads.
LEMMA LoadInv ==
  ASSUME history' \in Seq(Path), at' \in DOMAIN history', Load(history'[at'])
  PROVE  RouterInv'
PROOF
  <1>1. history'[at'] \in Path  OBVIOUS
  <1>2. history'[at'] # NoPath  BY <1>1, PathAssumption
  <1> QED BY <1>1, <1>2, NoElementType
       DEF Load, RouterInv, RouterOK, OutletIsLocation, PendingIsLocation, Idle, Location

\* What navigate is called with when it is called by the browser.
LEMMA PopStateInv == ASSUME RouterOK, NEW n, PopState(n) PROVE RouterInv'
PROOF
  <1>1. history[n] \in Path  BY DEF PopState, RouterOK
  <1>2. history[n] # NoPath  BY <1>1, PathAssumption
  <1> QED BY <1>1, <1>2
       DEF PopState, RouterInv, RouterOK, OutletIsLocation, PendingIsLocation, Idle, Location

\* A call that arrives leaves outlet and shell at the location.
LEMMA ArriveInv == ASSUME RouterInv, Arrive PROVE RouterInv'
PROOF
  <1>1. pending \in Path /\ pending = Location /\ IsRoute(pending) /\ ~ IsRedirect(pending)
    BY DEF Arrive, RouterInv, RouterOK, PendingIsLocation, Idle
  <1>2. Element(pending) \in [component : Pages, params : [Param -> Segment]]
    BY <1>1, ElementType
  <1>3. /\ outlet' = Element(pending) /\ currentPath' = Location /\ pending' = NoPath
        /\ history' = history /\ at' = at
    BY DEF Arrive, RenderComponent
  <1>4. Location' = Location  BY <1>3 DEF Location
  <1>5. RouterOK'  BY <1>1, <1>2, <1>3 DEF RouterInv, RouterOK
  <1>6. OutletIsLocation'  BY <1>1, <1>3, <1>4 DEF OutletIsLocation
  <1>7. PendingIsLocation'  BY <1>3 DEF PendingIsLocation, Idle
  <1> QED BY <1>5, <1>6, <1>7 DEF RouterInv

\* The root is a route: navigate never returns without having rendered.
LEMMA NavigateStepInv == ASSUME RouterInv, NavigateStep PROVE RouterInv'
PROOF
  <1>1. CASE NoRoute
    <2>1. pending # Root  BY <1>1, RootRedirects DEF NoRoute
    <2> QED BY <1>1, <2>1, GoInv, PathAssumption DEF NoRoute, RouterInv
  <1>2. CASE FollowRedirect
    <2>1. pending \in Path  BY <1>2 DEF FollowRedirect, RouterInv, RouterOK, Idle
    <2>2. Go(<<"pipelines">>)  BY <1>2, <2>1, RedirectIsRoot DEF FollowRedirect
    <2> QED BY <2>2, GoInv, PathAssumption DEF Target, RouterInv
  <1>3. CASE Arrive  BY <1>3, ArriveInv
  <1> QED BY <1>1, <1>2, <1>3 DEF NavigateStep

\* What leaves the router alone keeps its invariant.
LEMMA RouterSame == ASSUME RouterInv, UNCHANGED router PROVE RouterInv'
BY DEF RouterInv, RouterOK, OutletIsLocation, PendingIsLocation, Idle, Location, router

----------------------------------------------------------------------------
\* The whole.

RestOK == TableOK(table) /\ awaited \subseteq Path /\ moves \in [MoveKind -> Nat]

IInv == RouterInv /\ RestOK

\* A budget stays one when something of it is spent.
LEMMA SpendType ==
  ASSUME moves \in [MoveKind -> Nat], NEW kind \in MoveKind, Spend(kind)
  PROVE  moves' \in [MoveKind -> Nat]
BY DEF Spend

\* The invariant holds at first.
LEMMA InvInit == Init => IInv
PROOF
  <1> SUFFICES ASSUME Init PROVE IInv  OBVIOUS
  <1>1. PICK path \in Path : history = <<path>>  BY DEF Init, RouterInit
  <1>2. history \in Seq(Path) /\ at = 1 /\ at \in DOMAIN history /\ history[1] = path
    BY <1>1 DEF Init, RouterInit
  <1>3. path # NoPath  BY PathAssumption
  <1>4. RouterInv
    BY <1>1, <1>2, <1>3, NoElementType
    DEF Init, RouterInit, RouterInv, RouterOK, OutletIsLocation, PendingIsLocation, Idle, Location
  <1>5. RestOK  BY NewTableType, BudgetAssumption DEF Init, RestOK
  <1> QED BY <1>4, <1>5 DEF IInv

\* Each step keeps the invariant.
LEMMA InvNext == IInv /\ [Next]_vars => IInv'
PROOF
  <1> SUFFICES ASSUME IInv, [Next]_vars PROVE IInv'  OBVIOUS
  <1> USE DEF IInv
  <1>0. RouterOK /\ moves \in [MoveKind -> Nat] /\ awaited \subseteq Path /\ TableOK(table)
        /\ {"visit", "answer", "click"} = MoveKind
    BY DEF RouterInv, RestOK, MoveKind
  <1>k. \A kind \in MoveKind : Spend(kind) => moves' \in [MoveKind -> Nat]
    BY <1>0, SpendType
  <1>1. CASE Navigate
    <2>1. RouterInv'  BY <1>1, NavigateStepInv DEF Navigate
    <2>2. TableOK(table')
      <3>1. CASE pending' = NoPath
        BY <1>1, <3>1, NewTableType DEF Navigate, TableFor
      <3>2. CASE pending' # NoPath  BY <1>0, <1>1, <3>2 DEF Navigate
      <3> QED BY <3>1, <3>2
    <2> QED BY <1>0, <1>1, <2>1, <2>2 DEF Navigate, RestOK
  <1>2. CASE AnswerTable
    <2>1. TableOK(table')  BY <1>0, <1>2, AnsweredType DEF AnswerTable
    <2> QED BY <1>0, <1>2, <1>k, <2>1, RouterSame DEF AnswerTable, RestOK
  <1>3. CASE UseTable
    <2>1. TableOK(table')  BY <1>0, <1>3, InTableType DEF UseTable
    <2> QED BY <1>0, <1>3, <1>k, <2>1, RouterSame DEF UseTable, RestOK
  <1>4. CASE UseLinks
    <2> DEFINE Followed == \E path \in Path : Follow(path) /\ UNCHANGED awaited /\ table' \in {table, ClickClosesMenu(table)}
    <2>0. TableOK(ClickClosesMenu(table))  BY <1>0 DEF TableOK, Table, ClickClosesMenu
    <2>1. ASSUME Followed PROVE IInv'
      <3>1. PICK path \in Path : Follow(path) /\ UNCHANGED awaited /\ table' \in {table, ClickClosesMenu(table)}
        BY <2>1
      <3>2. RouterInv'  BY <1>0, <3>1, GoInv DEF Follow
      <3>3. TableOK(table')  BY <1>0, <2>0, <3>1
      <3> QED BY <1>0, <1>k, <3>1, <3>2, <3>3 DEF Follow, RestOK
    <2>2. ASSUME NEW link \in SideLinks, HandleNavClick(link) PROVE IInv'
      BY <2>1, <2>2, LinkAssumption DEF HandleNavClick
    <2>3. ASSUME NEW i, CopyPipeline(i) PROVE IInv'
      BY <2>1, <2>3, LinkAssumption DEF CopyPipeline
    <2>4. CASE NewPipeline  BY <2>1, <2>4, LinkAssumption DEF NewPipeline
    <2>5. CASE BackToPipelines  BY <2>1, <2>5, LinkAssumption DEF BackToPipelines, SideLinks
    <2>6. ASSUME NEW path \in Path, Await(path) PROVE IInv'
      BY <1>0, <1>k, <2>6, RouterSame DEF Await, RestOK
    <2>7. CASE DeletePipeline  BY <2>6, <2>7, LinkAssumption DEF DeletePipeline, SideLinks
    <2>8. ASSUME NEW path \in Detail, NavigateToPipeline(path) \/ SavePipeline(path) PROVE IInv'
      BY <2>1, <2>6, <2>8 DEF NavigateToPipeline, SavePipeline, Detail
    <2>9. ASSUME NEW path \in awaited, NavigateOnAnswer(path) PROVE IInv'
      <3>1. RouterInv'  BY <1>0, <2>9, GoInv DEF NavigateOnAnswer
      <3> QED BY <1>0, <2>9, <3>1 DEF NavigateOnAnswer, RestOK
    <2> QED BY <1>4, <2>2, <2>3, <2>4, <2>5, <2>7, <2>8, <2>9 DEF UseLinks
  <1>5. CASE UseBrowser
    <2>1. ASSUME NEW n \in DOMAIN history, Traverse(n) PROVE IInv'
      <3>1. RouterInv'  BY <1>0, <2>1, PopStateInv DEF Traverse
      <3> QED BY <1>0, <1>k, <2>1, <3>1 DEF Traverse, RestOK
    <2>2. ASSUME Fresh, RouterInv', Spend("visit") PROVE IInv'
      BY <1>0, <1>k, <2>2, NewTableType DEF Fresh, RestOK
    <2>3. ASSUME NEW n \in DOMAIN history, Restart(n) PROVE IInv'
      <3>1. history' \in Seq(Path) /\ at' \in DOMAIN history' /\ Load(history'[at'])
        BY <1>0, <2>3 DEF Restart, Reload, RouterOK
      <3> QED BY <2>2, <2>3, <3>1, LoadInv DEF Restart
    <2>4. ASSUME NEW path \in Path, Open(path) PROVE IInv'
      <3>1. history' \in Seq(Path) /\ at' \in DOMAIN history' /\ history'[at'] = path
        BY <1>0, <2>4, PushFacts DEF Open, LoadNew
      <3>2. Load(history'[at'])  BY <2>4, <3>1 DEF Open, LoadNew
      <3> QED BY <2>2, <2>4, <3>1, <3>2, LoadInv DEF Open
    <2> QED BY <1>5, <2>1, <2>3, <2>4 DEF UseBrowser
  <1>6. CASE UNCHANGED vars
    BY <1>0, <1>6, RouterSame DEF vars, RestOK
  <1> QED BY <1>1, <1>2, <1>3, <1>4, <1>5, <1>6 DEF Next

\* The invariant holds always.
LEMMA InvHolds == Spec => []IInv
BY InvInit, InvNext, PTL DEF Spec

\* The variables of the router and of the tables have their types.
THEOREM NavigationTypeOK == Spec => []TypeOK
PROOF
  <1>1. IInv => TypeOK  BY DEF IInv, RouterInv, RouterOK, RestOK, TableOK, TypeOK
  <1> QED BY InvHolds, <1>1, PTL

\* router.ts:107-187: once its calls have returned, the outlet and the shell
\* are at the browser's location.
THEOREM RouterArrives == Spec => []OutletIsLocation
PROOF
  <1>1. IInv => OutletIsLocation  BY DEF IInv, RouterInv
  <1> QED BY InvHolds, <1>1, PTL

\* router.ts:103-134: no redirect and no unknown path makes navigate and go
\* call one another for ever.
THEOREM RouterReturns == Spec => CallsComeNearer
PROOF
  <1> DEFINE Nearer == ~ Idle /\ pending' # NoPath => Distance(pending') < Distance(pending)
  <1>1. IInv /\ [Next]_vars => [Nearer]_vars
    <2> SUFFICES ASSUME IInv, Next, ~ Idle, pending' # NoPath
                 PROVE  Distance(pending') < Distance(pending) \/ UNCHANGED vars
      OBVIOUS
    <2>1. pending \in Path  BY DEF IInv, RouterInv, RouterOK, Idle
    <2>2. CASE NoRoute
      <3>1. pending # Root  BY <2>2, RootRedirects DEF NoRoute
      <3>2. pending' = Root  BY <2>2, <3>1 DEF NoRoute, Go
      <3> QED BY <2>2, <3>2, RootRedirects DEF NoRoute, Distance
    <2>3. CASE FollowRedirect
      <3>1. pending' = <<"pipelines">>  BY <2>1, <2>3, RedirectIsRoot DEF FollowRedirect, Go
      <3> QED BY <2>3, <3>1, TargetIsComponent DEF FollowRedirect, Distance, IsRedirect
    <2>4. CASE Arrive  BY <2>4 DEF Arrive, RenderComponent
    <2>5. NavigateStep
      BY DEF Next, Navigate, AnswerTable, UseTable, UseLinks, UseBrowser, HandleNavClick, Follow,
             NavigateToPipeline, NewPipeline, CopyPipeline, BackToPipelines, SavePipeline,
             DeletePipeline, Await, NavigateOnAnswer, Traverse, Open, Restart, PopState, LoadNew, Reload
    <2> QED BY <2>2, <2>3, <2>4, <2>5 DEF NavigateStep
  <1> QED BY InvHolds, <1>1, PTL DEF Spec, CallsComeNearer

----------------------------------------------------------------------------
\* Bars: of few pages, and of many, whose parts are joined.

\* r is s followed by t, of lengths n and m.
IsJoin(r, s, t, n, m) ==
  /\ r \in Seq(Int) /\ Len(r) = n + m
  /\ \A i \in 1..n : r[i] = s[i]
  /\ \A i \in 1..m : r[n + i] = t[i]

\* Two sequences of numbers, joined, are the elements of one after the
\* other's.
LEMMA Joined ==
  ASSUME NEW s \in Seq(Int), NEW t \in Seq(Int), NEW n \in Nat, NEW m \in Nat, Len(s) = n, Len(t) = m
  PROVE  IsJoin(s \o t, s, t, n, m)
PROOF
  <1>1. s \o t \in Seq(Int) /\ Len(s \o t) = n + m  BY ConcatProperties
  <1>2. \A i \in 1..n : (s \o t)[i] = s[i]  BY ConcatProperties
  <1>3. ASSUME NEW i \in 1..m PROVE (s \o t)[n + i] = t[i]
    <2>1. n + i \in 1..(n + m) /\ ~ (n + i <= n) /\ (n + i) - n = i  OBVIOUS
    <2>2. \A j \in 1..(n + m) : (s \o t)[j] = IF j <= n THEN s[j] ELSE t[j - n]
      BY ConcatProperties
    <2> QED BY <2>1, <2>2
  <1> QED BY <1>1, <1>2, <1>3 DEF IsJoin

\* A bar's first page, its three parts, of those lengths, and its last page.
HasParts(bar, a, s, b, last, la, ls, lb) ==
  /\ bar \in Seq(Int) /\ Len(bar) = 2 + la + ls + lb
  /\ bar[1] = 1 /\ bar[2 + la + ls + lb] = last
  /\ \A k \in 1..la : bar[1 + k] = a[k]
  /\ \A k \in 1..ls : bar[1 + la + k] = s[k]
  /\ \A k \in 1..lb : bar[1 + la + ls + k] = b[k]

\* What is at which place of a bar that is joined from its parts.
LEMMA BarElements ==
  ASSUME NEW a \in Seq(Int), NEW s \in Seq(Int), NEW b \in Seq(Int), NEW last \in Int,
         NEW la \in Nat, NEW ls \in Nat, NEW lb \in Nat, Len(a) = la, Len(s) = ls, Len(b) = lb,
         NEW bar, bar = << 1 >> \o a \o s \o b \o <<last>>
  PROVE  HasParts(bar, a, s, b, last, la, ls, lb)
PROOF
  <1> DEFINE p == << 1 >> \o a
             q == p \o s
             r == q \o b
  <1>0. /\ << 1 >> \in Seq(Int) /\ Len(<< 1 >>) = 1 /\ << 1 >>[1] = 1
        /\ <<last>> \in Seq(Int) /\ Len(<<last>>) = 1 /\ <<last>>[1] = last
        /\ 1 + la \in Nat /\ 1 + la + ls \in Nat /\ 1 + la + ls + lb \in Nat /\ 1 \in Nat
    OBVIOUS
  <1>1. IsJoin(p, << 1 >>, a, 1, la)  BY <1>0, Joined
  <1> HIDE DEF p
  <1>2. IsJoin(q, p, s, 1 + la, ls)
    <2>1. p \in Seq(Int) /\ Len(p) = 1 + la  BY <1>1 DEF IsJoin
    <2> QED BY <1>0, <2>1, Joined
  <1> HIDE DEF q
  <1>3. IsJoin(r, q, b, 1 + la + ls, lb)
    <2>1. q \in Seq(Int) /\ Len(q) = 1 + la + ls  BY <1>2 DEF IsJoin
    <2> QED BY <1>0, <2>1, Joined
  <1> HIDE DEF r
  <1>4. bar = r \o <<last>>  BY DEF p, q, r
  <1>5. IsJoin(bar, r, <<last>>, 1 + la + ls + lb, 1)
    <2>1. r \in Seq(Int) /\ Len(r) = 1 + la + ls + lb  BY <1>3 DEF IsJoin
    <2> QED BY <1>0, <1>4, <2>1, Joined
  <1>6. \A k \in 1..(1 + la + ls + lb) : bar[k] = r[k]  BY <1>5 DEF IsJoin
  <1>7. \A k \in 1..(1 + la + ls) : bar[k] = q[k]
    <2>1. \A k \in 1..(1 + la + ls) : k \in 1..(1 + la + ls + lb) /\ r[k] = q[k]  BY <1>3 DEF IsJoin
    <2> QED BY <1>6, <2>1
  <1>8. \A k \in 1..(1 + la) : bar[k] = p[k]
    <2>1. \A k \in 1..(1 + la) : k \in 1..(1 + la + ls) /\ q[k] = p[k]  BY <1>2 DEF IsJoin
    <2> QED BY <1>7, <2>1
  <1>9. bar[1] = 1 /\ \A k \in 1..la : bar[1 + k] = a[k]
    <2>1. 1 \in 1..(1 + la) /\ p[1] = 1  BY <1>0, <1>1 DEF IsJoin
    <2>2. \A k \in 1..la : 1 + k \in 1..(1 + la) /\ p[1 + k] = a[k]  BY <1>1 DEF IsJoin
    <2> QED BY <1>8, <2>1, <2>2
  <1>10. \A k \in 1..ls : bar[1 + la + k] = s[k]
    <2>1. \A k \in 1..ls : 1 + la + k \in 1..(1 + la + ls) /\ q[1 + la + k] = s[k]  BY <1>2 DEF IsJoin
    <2> QED BY <1>7, <2>1
  <1>11. \A k \in 1..lb : bar[1 + la + ls + k] = b[k]
    <2>1. \A k \in 1..lb : /\ 1 + la + ls + k \in 1..(1 + la + ls + lb)
                           /\ r[1 + la + ls + k] = b[k]
      BY <1>3 DEF IsJoin
    <2> QED BY <1>6, <2>1
  <1>12. bar \in Seq(Int) /\ Len(bar) = 2 + la + ls + lb /\ bar[2 + la + ls + lb] = last
    <2>1. bar[1 + la + ls + lb + 1] = last  BY <1>0, <1>5 DEF IsJoin
    <2>2. 1 + la + ls + lb + 1 = 2 + la + ls + lb  OBVIOUS
    <2> QED BY <1>5, <2>1, <2>2 DEF IsJoin
  <1> QED BY <1>9, <1>10, <1>11, <1>12 DEF HasParts

\* The n numbers from lo on.
IsSpan(seq, lo, n) == seq \in Seq(Int) /\ Len(seq) = n /\ \A k \in 1..n : seq[k] = lo + k - 1

\* A span has the numbers from its first to its last, or none.
LEMMA SpanFacts ==
  ASSUME NEW lo \in Int, NEW hi \in Int, NEW n \in Nat, (n = hi - lo + 1) \/ (n = 0 /\ hi < lo)
  PROVE  IsSpan(Span(lo, hi), lo, n)
PROOF
  <1>1. CASE n = hi - lo + 1
    <2>1. Span(lo, hi) = [k \in 1..n |-> lo + k - 1]  BY <1>1 DEF Span
    <2>2. [k \in 1..n |-> lo + k - 1] \in [1..n -> Int]  OBVIOUS
    <2> QED BY <2>1, <2>2 DEF IsSpan
  <1>2. CASE n = 0 /\ hi < lo
    <2>1. Span(lo, hi) = <<>>  BY <1>2 DEF Span
    <2> QED BY <1>2, <2>1, EmptySeq DEF IsSpan
  <1> QED BY <1>1, <1>2

\* A bar of few pages has them all.
LEMMA ShortBar ==
  ASSUME NEW total \in Nat, NEW current \in Nat, total > 1, current >= 1
  PROVE  IsBar(Span(1, total), total, current)
PROOF
  <1> DEFINE bar == Span(1, total)
  <1>1. IsSpan(bar, 1, total)
    <2>1. total = total - 1 + 1 /\ 1 \in Int /\ total \in Int  OBVIOUS
    <2>2. (total = total - 1 + 1) \/ (total = 0 /\ total < 1)  BY <2>1
    <2> QED BY <2>1, <2>2, SpanFacts
  <1> HIDE DEF bar
  <1>2. bar \in Seq(Int) /\ Len(bar) = total /\ \A k \in 1..total : bar[k] = k
    BY <1>1 DEF IsSpan
  <1>3. DOMAIN bar = 1..total  BY <1>2
  <1>4. {bar[i] : i \in DOMAIN bar} = 1..total  BY <1>2, <1>3
  <1>5. \A i \in 1..(total - 1) : bar[i] # 0 /\ bar[i + 1] = bar[i] + 1
    BY <1>2
  <1>6. bar[1] = 1 /\ bar[total] = total  BY <1>2
  <1>7. IsBar(bar, total, current)
    <2>1. {1, total} \cup ({current - 1, current, current + 1} \cap 1..total) \subseteq 1..total  OBVIOUS
    <2>2. 1..total \subseteq 0..total  OBVIOUS
    <2> QED BY <1>2, <1>4, <1>5, <1>6, <2>1, <2>2 DEF IsBar, Ellipsis
  <1> QED BY <1>7 DEF bar

\* The parts of a long bar: an ellipsis or nothing, the neighbours from lo to
\* hi, if there are any, and an ellipsis or nothing.
LongParts(total, current, la, ls, lb, lo, hi) ==
  /\ la = IF current > 3 THEN 1 ELSE 0
  /\ lb = IF current < total - 2 THEN 1 ELSE 0
  /\ lo = IF 2 > current - 1 THEN 2 ELSE current - 1
  /\ hi = IF total - 1 < current + 1 THEN total - 1 ELSE current + 1
  /\ ls = IF hi >= lo THEN hi - lo + 1 ELSE 0

\* A bar of those parts is complete.
LEMMA LongBarOf ==
  ASSUME NEW total \in Nat, NEW current \in Nat, total > 7, current >= 1,
         NEW la \in Nat, NEW ls \in Nat, NEW lb \in Nat, NEW lo \in Int, NEW hi \in Int,
         LongParts(total, current, la, ls, lb, lo, hi),
         NEW bar, NEW a, NEW s, NEW b, HasParts(bar, a, s, b, total, la, ls, lb),
         \A k \in 1..la : a[k] = 0, IsSpan(s, lo, ls), \A k \in 1..lb : b[k] = 0
  PROVE  IsBar(bar, total, current)
PROOF
  <1> DEFINE n == 2 + la + ls + lb
  <1>1. /\ bar \in Seq(Int) /\ Len(bar) = n /\ bar[1] = 1 /\ bar[n] = total
        /\ \A k \in 1..la : bar[1 + k] = 0
        /\ \A k \in 1..ls : bar[1 + la + k] = lo + k - 1
        /\ \A k \in 1..lb : bar[1 + la + ls + k] = 0
    BY DEF HasParts, IsSpan
  <1>2. la \in {0, 1} /\ lb \in {0, 1}  BY DEF LongParts
  <1>3. la = 1 => bar[2] = 0
    <2>1. la = 1 => 1 \in 1..la /\ 1 + 1 = 2  OBVIOUS
    <2> QED BY <1>1, <2>1
  <1>4. lb = 1 => bar[2 + la + ls] = 0
    <2>1. lb = 1 => 1 \in 1..lb /\ 1 + la + ls + 1 = 2 + la + ls  OBVIOUS
    <2> QED BY <1>1, <2>1
  <1>5. DOMAIN bar = 1..n  BY <1>1
  <1>6. ls >= 1 => bar[2 + la] = lo /\ bar[1 + la + ls] = hi
    <2>1. ls >= 1 => 1 \in 1..ls /\ 1 + la + 1 = 2 + la /\ ls \in 1..ls
                     /\ lo + ls - 1 = hi /\ lo + 1 - 1 = lo
      BY DEF LongParts
    <2> QED BY <1>1, <2>1
  <1>7. ls = 0 => la = 1 /\ lb = 0  BY DEF LongParts
  <1> DEFINE Where(i) ==
        \/ i = 1
        \/ i = 2 /\ la = 1
        \/ \E k \in 1..ls : i = 1 + la + k
        \/ i = 2 + la + ls /\ lb = 1
        \/ i = n
  <1>8. \A i \in 1..n : Where(i)
    <2> SUFFICES ASSUME NEW i \in 1..n PROVE Where(i)  OBVIOUS
    <2>1. CASE i \in (2 + la)..(1 + la + ls)
      <3>1. i - (1 + la) \in 1..ls /\ i = 1 + la + (i - (1 + la))  BY <2>1
      <3> QED BY <3>1
    <2>2. CASE ~ (i \in (2 + la)..(1 + la + ls))
      BY <1>2, <2>2
    <2> QED BY <2>1, <2>2
  <1>9. \A i \in 1..n : bar[i] \in 0..total
    <2> SUFFICES ASSUME NEW i \in 1..n PROVE bar[i] \in 0..total  OBVIOUS
    <2>1. ASSUME NEW k \in 1..ls, i = 1 + la + k PROVE bar[i] \in 0..total
      <3>1. bar[i] = lo + k - 1  BY <1>1, <2>1
      <3>2. lo + k - 1 \in 0..total  BY DEF LongParts
      <3> QED BY <3>1, <3>2
    <2>2. CASE i = 1  BY <1>1, <2>2
    <2>3. CASE i = 2 /\ la = 1  BY <1>3, <2>3
    <2>4. CASE i = 2 + la + ls /\ lb = 1  BY <1>4, <2>4
    <2>5. CASE i = n  BY <1>1, <2>5
    <2>6. Where(i)  BY <1>8
    <2>7. ASSUME \E k \in 1..ls : i = 1 + la + k PROVE bar[i] \in 0..total  BY <2>1, <2>7
    <2> HIDE DEF n
    <2> QED BY <2>2, <2>3, <2>4, <2>5, <2>6, <2>7
  <1>10. ASSUME NEW v \in {current - 1, current, current + 1} \cap 1..total
         PROVE  \E i \in 1..n : bar[i] = v
    <2>1. CASE v = 1 \/ v = total
      <3>1. 1 \in 1..n /\ n \in 1..n  OBVIOUS
      <3> QED BY <1>1, <2>1, <3>1
    <2>2. CASE v # 1 /\ v # total
      <3>1. v - lo + 1 \in 1..ls /\ lo + (v - lo + 1) - 1 = v  BY <2>2 DEF LongParts
      <3>2. 1 + la + (v - lo + 1) \in 1..n  BY <3>1
      <3>3. bar[1 + la + (v - lo + 1)] = v  BY <1>1, <3>1
      <3> QED BY <3>2, <3>3
    <2> QED BY <2>1, <2>2
  <1> DEFINE Step(i) == IF bar[i] = 0 THEN bar[i - 1] + 1 < bar[i + 1]
                        ELSE bar[i + 1] = 0 \/ bar[i + 1] = bar[i] + 1
  <1>11. \A i \in 1..(n - 1) : Step(i)
    <2> SUFFICES ASSUME NEW i \in 1..(n - 1) PROVE Step(i)  OBVIOUS
    <2>0. i # n /\ Where(i)
      <3>1. i \in 1..n /\ i # n  OBVIOUS
      <3> QED BY <1>8, <3>1
    <2>1. CASE i = 1
      <3>1. CASE la = 1  BY <1>1, <1>3, <2>1, <3>1
      <3>2. CASE la = 0
        <4>1. ls >= 1 /\ lo = 2  BY <3>2 DEF LongParts
        <4> QED BY <1>1, <1>6, <2>1, <3>2, <4>1
      <3> QED BY <1>2, <3>1, <3>2
    <2>2. CASE i = 2 /\ la = 1
      <3>1. CASE ls >= 1
        <4>1. lo > 2  BY <2>2 DEF LongParts
        <4> QED BY <1>1, <1>3, <1>6, <2>2, <3>1, <4>1
      <3>2. CASE ls = 0
        <4>1. n = 3  BY <1>7, <3>2
        <4> QED BY <1>1, <1>3, <2>2, <4>1
      <3> QED BY <3>1, <3>2
    <2>3. ASSUME NEW k \in 1..ls, i = 1 + la + k PROVE Step(i)
      <3>1. bar[i] = lo + k - 1 /\ bar[i] # 0  BY <1>1, <2>3 DEF LongParts
      <3>2. CASE k < ls
        <4>1. k + 1 \in 1..ls /\ i + 1 = 1 + la + (k + 1) /\ lo + (k + 1) - 1 = (lo + k - 1) + 1
          BY <2>3, <3>2
        <4>2. bar[i + 1] = lo + (k + 1) - 1  BY <1>1, <4>1
        <4> QED BY <3>1, <4>1, <4>2
      <3>3. CASE k = ls /\ lb = 1
        <4>1. i + 1 = 2 + la + ls  BY <2>3, <3>3
        <4> QED BY <1>4, <3>1, <3>3, <4>1
      <3>4. CASE k = ls /\ lb = 0
        <4>1. i + 1 = n  BY <2>3, <3>4
        <4>2. lo + k - 1 = total - 1  BY <2>3, <3>4 DEF LongParts
        <4>3. bar[i + 1] = total /\ total = bar[i] + 1  BY <1>1, <3>1, <4>1, <4>2
        <4> QED BY <3>1, <4>3
      <3> QED BY <1>2, <3>2, <3>3, <3>4
    <2>4. CASE i = 2 + la + ls /\ lb = 1
      <3>1. ls >= 1 /\ hi + 1 < total /\ i - 1 = 1 + la + ls /\ i + 1 = n
        BY <2>4 DEF LongParts
      <3> QED BY <1>1, <1>4, <1>6, <2>4, <3>1
    <2>5. ASSUME \E k \in 1..ls : i = 1 + la + k PROVE Step(i)  BY <2>3, <2>5
    <2> HIDE DEF n, Step
    <2> QED BY <2>0, <2>1, <2>2, <2>4, <2>5
  <1> HIDE DEF n, Where
  <1>12. /\ {bar[i] : i \in DOMAIN bar} \subseteq 0..total
         /\ {1, total} \cup ({current - 1, current, current + 1} \cap 1..total)
              \subseteq {bar[i] : i \in DOMAIN bar}
    <2>1. 1 \in 1..n /\ n \in 1..n  BY DEF n
    <2>2. {bar[i] : i \in DOMAIN bar} = {bar[i] : i \in 1..n}  BY <1>5
    <2>3. {bar[i] : i \in 1..n} \subseteq 0..total  BY <1>9
    <2>4. 1 \in {bar[i] : i \in 1..n} /\ total \in {bar[i] : i \in 1..n}  BY <1>1, <2>1
    <2>5. {current - 1, current, current + 1} \cap 1..total \subseteq {bar[i] : i \in 1..n}
      BY <1>10
    <2> QED BY <2>2, <2>3, <2>4, <2>5
  <1> QED BY <1>1, <1>11, <1>12 DEF IsBar, Ellipsis

\* The bar of more than seven pages is of those parts.
LEMMA LongBar ==
  ASSUME NEW total \in Nat, NEW current \in Nat, total > 7, current >= 1
  PROVE  IsBar(PaginationRange(total, current), total, current)
PROOF
  <1> DEFINE lo == HigherOf(2, current - 1)
             hi == LowerOf(total - 1, current + 1)
             la == IF current > 3 THEN 1 ELSE 0
             ls == IF hi >= lo THEN hi - lo + 1 ELSE 0
             lb == IF current < total - 2 THEN 1 ELSE 0
             a == If(current > 3, Ellipsis)
             b == If(current < total - 2, Ellipsis)
             s == Span(lo, hi)
             bar == PaginationRange(total, current)
  <1>1. bar = << 1 >> \o a \o s \o b \o <<total>>  BY DEF PaginationRange
  <1>2. lo \in Int /\ hi \in Int /\ la \in Nat /\ ls \in Nat /\ lb \in Nat
    BY DEF HigherOf, LowerOf
  <1>3. LongParts(total, current, la, ls, lb, lo, hi)  BY DEF LongParts, HigherOf, LowerOf
  <1>4. a \in Seq(Int) /\ Len(a) = la /\ \A k \in 1..la : a[k] = 0
    <2>1. CASE current > 3  BY <2>1 DEF If, Ellipsis
    <2>2. CASE ~ (current > 3)
      <3>1. a = <<>> /\ la = 0  BY <2>2 DEF If
      <3> QED BY <3>1, EmptySeq, 1..0 = {}
    <2> QED BY <2>1, <2>2
  <1>5. b \in Seq(Int) /\ Len(b) = lb /\ \A k \in 1..lb : b[k] = 0
    <2>1. CASE current < total - 2  BY <2>1 DEF If, Ellipsis
    <2>2. CASE ~ (current < total - 2)
      <3>1. b = <<>> /\ lb = 0  BY <2>2 DEF If
      <3> QED BY <3>1, EmptySeq, 1..0 = {}
    <2> QED BY <2>1, <2>2
  <1>6. (ls = hi - lo + 1) \/ (ls = 0 /\ hi < lo)  BY <1>2
  <1> HIDE DEF lo, hi, la, ls, lb, a, b, bar
  <1>7. IsSpan(s, lo, ls)  BY <1>2, <1>6, SpanFacts
  <1> HIDE DEF s
  <1>8. s \in Seq(Int) /\ Len(s) = ls  BY <1>7 DEF IsSpan
  <1>9. HasParts(bar, a, s, b, total, la, ls, lb)
    <2>1. total \in Int  OBVIOUS
    <2> QED BY <1>1, <1>2, <1>4, <1>5, <1>8, <2>1, BarElements
  <1>10. IsBar(bar, total, current)
    <2>1. total \in Nat /\ current \in Nat /\ total > 7 /\ current >= 1  OBVIOUS
    <2>2. (\A k \in 1..la : a[k] = 0) /\ (\A k \in 1..lb : b[k] = 0)  BY <1>4, <1>5
    <2> QED BY <1>2, <1>3, <1>7, <1>9, <2>1, <2>2, LongBarOf, Zenon
  <1> QED BY <1>10 DEF bar

\* pipeline-list.ts:551-569 and its copies: the bar of a table of any number
\* of pages, at any page, hides no page without an ellipsis, and shows the
\* first, the last and the neighbours.
THEOREM BarIsComplete ==
  \A total, current \in Nat :
    total > 1 /\ current >= 1 => IsBar(PaginationRange(total, current), total, current)
PROOF
  <1> SUFFICES ASSUME NEW total \in Nat, NEW current \in Nat, total > 1, current >= 1
               PROVE  IsBar(PaginationRange(total, current), total, current)
    OBVIOUS
  <1>1. CASE total <= 7
    <2>1. PaginationRange(total, current) = Span(1, total)  BY <1>1 DEF PaginationRange
    <2> QED BY <2>1, ShortBar
  <1>2. CASE total > 7  BY <1>2, LongBar
  <1> QED BY <1>1, <1>2

----------------------------------------------------------------------------
\* The rows of a table, and its pages.

\* What TLAPS cannot be told of SelectSeq: what it keeps of the rows of a
\* table is a sequence of rows.
FilterKeepsRows == \A t \in Table : Found(t) \in Seq(Row)

\* A sequence of n rows of some kind.
HasRows(rows, n) == Len(rows) = n /\ DOMAIN rows = 1..n /\ \E S : rows \in Seq(S)

\* Sorting keeps their number.
LEMMA SortedRows ==
  ASSUME NEW rows \in Seq(Row), NEW column, NEW ascending
  PROVE  HasRows(Sorted(rows, column, ascending), Len(rows))
PROOF
  <1> DEFINE sorted == Sorted(rows, column, ascending)
             n == Len(rows)
  <1>1. n \in Nat /\ DOMAIN rows = 1..n  OBVIOUS
  <1>2. \E f : sorted = [p \in DOMAIN rows |-> f[p]]
    <2> DEFINE SortKeyAt(i) == SortKey(rows[i], column)
               Before(i, j) == \/ IF ascending THEN SortKeyAt(i) < SortKeyAt(j) ELSE SortKeyAt(i) > SortKeyAt(j)
                               \/ SortKeyAt(i) = SortKeyAt(j) /\ i < j
               order == SortSeq([i \in DOMAIN rows |-> i], Before)
    <2>1. sorted = [p \in DOMAIN rows |-> rows[order[p]]]  BY DEF Sorted
    <2> HIDE DEF sorted, order
    <2>2. sorted = [p \in DOMAIN rows |-> sorted[p]]  BY <2>1
    <2> QED BY <2>2
  <1> HIDE DEF sorted, n
  <1>3. sorted \in [1..n -> {sorted[i] : i \in 1..n}]  BY <1>1, <1>2
  <1>4. sorted \in Seq({sorted[i] : i \in 1..n})  BY <1>1, <1>3
  <1>5. Len(sorted) = n /\ DOMAIN sorted = 1..n  BY <1>1, <1>3, <1>4
  <1>6. HasRows(sorted, n)  BY <1>4, <1>5 DEF HasRows
  <1> QED BY <1>6 DEF sorted, n

\* How many rows a table has, by its kind and by what was found.
RowCount(t) == IF t.kind \in ListKind THEN Len(Found(t)) ELSE 0

\* The rows of a table are as many as were found, in a table of a list.
LEMMA FilteredRows ==
  ASSUME FilterKeepsRows, NEW t \in Table
  PROVE  RowCount(t) \in Nat /\ HasRows(Filtered(t), RowCount(t))
PROOF
  <1>1. Found(t) \in Seq(Row)  BY DEF FilterKeepsRows
  <1>2. /\ Len(Found(t)) \in Nat
        /\ \A column, ascending : HasRows(Sorted(Found(t), column, ascending), Len(Found(t)))
    BY <1>1, SortedRows
  <1>3. t.kind \in ListKind \cup {"none"}  BY DEF Table
  <1>4. CASE t.kind = "pipeline-list"
    <2>1. Filtered(t) = Sorted(Found(t), t.column, t.ascending)
      BY <1>4 DEF Filtered, filteredPipelines
    <2>2. RowCount(t) = Len(Found(t))  BY <1>4 DEF RowCount, ListKind
    <2> QED BY <1>2, <2>1, <2>2
  <1>5. CASE t.kind = "pvc-list" \/ t.kind = "secret-list"
    <2>1. Filtered(t) = Sorted(Found(t), "name", t.ascending)
      BY <1>5 DEF Filtered, filteredPVCs, filteredSecrets
    <2>2. RowCount(t) = Len(Found(t))  BY <1>5 DEF RowCount, ListKind
    <2> QED BY <1>2, <2>1, <2>2
  <1>6. CASE t.kind = "none"
    <2>1. Filtered(t) = <<>>  BY <1>6 DEF Filtered
    <2>2. RowCount(t) = 0  BY <1>6 DEF RowCount, ListKind
    <2> QED BY <2>1, <2>2, EmptySeq DEF HasRows
  <1> QED BY <1>3, <1>4, <1>5, <1>6 DEF ListKind

\* How division counts the pages.
LEMMA PageCount ==
  ASSUME NEW n \in Nat
  PROVE  /\ TotalPages(n) \in Nat
         /\ TotalPages(n) * PageSize >= n
         /\ n > 0 => TotalPages(n) >= 1
         /\ \A p \in 1..TotalPages(n) : (p - 1) * PageSize < n
PROOF
  <1> DEFINE total == TotalPages(n)
  <1>0. PageSize \in Nat \ {0}  BY PageSizeAssumption
  <1>1. n + PageSize - 1 \in Nat  BY <1>0
  <1>2. /\ total \in Nat /\ total * PageSize <= n + PageSize - 1
        /\ n + PageSize - 1 < total * PageSize + PageSize
    <2>1. \A a \in Nat, b \in Nat \ {0} :
            a \div b \in Nat /\ (a \div b) * b <= a /\ a < (a \div b) * b + b
      OBVIOUS
    <2> QED BY <1>0, <1>1, <2>1 DEF TotalPages
  <1> HIDE DEF total
  <1>3. total * PageSize \in Nat  BY <1>0, <1>2
  <1>4. total * PageSize >= n  BY <1>0, <1>2, <1>3
  <1>5. n > 0 => total >= 1
    <2>1. total = 0 => total * PageSize = 0  BY <1>0
    <2> QED BY <1>2, <1>4, <2>1
  <1>6. ASSUME NEW p \in 1..total PROVE (p - 1) * PageSize < n
    <2>1. (p - 1) * PageSize <= (total - 1) * PageSize  BY <1>0, <1>2
    <2>2. (total - 1) * PageSize = total * PageSize - PageSize  BY <1>0, <1>2
    <2>3. (p - 1) * PageSize \in Int  BY <1>0, <1>2
    <2> QED BY <1>0, <1>2, <1>3, <2>1, <2>2, <2>3
  <1> QED BY <1>2, <1>4, <1>5, <1>6 DEF total

\* Fewer pages need fewer rows.
LEMMA FewerPages ==
  ASSUME NEW n \in Nat, NEW m \in Nat, TotalPages(m) <= 1, ~ (TotalPages(n) <= 1)
  PROVE  m < n
PROOF
  <1>0. PageSize \in Nat \ {0}  BY PageSizeAssumption
  <1>1. TotalPages(n) \in Nat /\ TotalPages(m) \in Nat  BY PageCount
  <1>2. 2 \in 1..TotalPages(n)  BY <1>1
  <1>3. (2 - 1) * PageSize < n  BY <1>2, PageCount
  <1>4. TotalPages(m) * PageSize >= m  BY PageCount
  <1>5. TotalPages(m) * PageSize <= 1 * PageSize  BY <1>0, <1>1
  <1> QED BY <1>0, <1>1, <1>3, <1>4, <1>5

\* A page of the rows, and the row at a place on it.
LEMMA PageRows ==
  ASSUME NEW S, NEW rows \in Seq(S), NEW p \in 1..TotalPages(Len(rows))
  PROVE  /\ Len(RowsOfPage(rows, p)) \in 1..PageSize
         /\ \A k \in 1..PageSize : (p - 1) * PageSize + k <= Len(rows) =>
              /\ k \in DOMAIN RowsOfPage(rows, p)
              /\ RowsOfPage(rows, p)[k] = rows[(p - 1) * PageSize + k]
PROOF
  <1> DEFINE n     == Len(rows)
             start == (p - 1) * PageSize
             end   == LowerOf(p * PageSize, n)
             page  == RowsOfPage(rows, p)
  <1>0. PageSize \in Nat \ {0} /\ n \in Nat /\ p \in Nat /\ p >= 1
    BY PageSizeAssumption, PageCount
  <1>1. start \in Nat /\ p * PageSize = start + PageSize
    <2>1. p - 1 \in Nat  BY <1>0
    <2> QED BY <1>0, <2>1
  <1>2. start < n  BY <1>0, PageCount
  <1>3. page = SubSeq(rows, start + 1, end)  BY DEF RowsOfPage
  <1> HIDE DEF start, page
  <1>4. /\ end \in Nat /\ start + 1 <= end /\ end <= n /\ end <= start + PageSize
        /\ end = n \/ end = start + PageSize
    BY <1>0, <1>1, <1>2 DEF LowerOf
  <1> HIDE DEF end
  <1>5. \A i \in (start + 1)..end : rows[i] \in S
    <2>1. \A i \in (start + 1)..end : i \in 1..n  BY <1>0, <1>1, <1>4
    <2> QED BY <2>1
  <1>6. /\ page \in Seq(S)
        /\ Len(page) = end - start
        /\ \A k \in 1..(end - start) : page[k] = rows[start + k]
    <2>1. start + 1 \in Int /\ end \in Int /\ end - (start + 1) + 1 = end - start  BY <1>1, <1>4
    <2>2. /\ SubSeq(rows, start + 1, end) \in Seq(S)
          /\ Len(SubSeq(rows, start + 1, end)) = end - (start + 1) + 1
          /\ \A k \in 1..(end - (start + 1) + 1) :
               SubSeq(rows, start + 1, end)[k] = rows[start + 1 + k - 1]
      BY <1>4, <1>5, <2>1, SubSeqProperties
    <2>3. \A k \in 1..(end - start) : start + 1 + k - 1 = start + k  BY <1>1, <1>4
    <2> QED BY <1>3, <2>1, <2>2, <2>3
  <1>7. Len(page) \in 1..PageSize  BY <1>0, <1>1, <1>4, <1>6
  <1>8. ASSUME NEW k \in 1..PageSize, start + k <= n
        PROVE  k \in DOMAIN page /\ page[k] = rows[start + k]
    <2>1. k \in 1..(end - start)  BY <1>0, <1>1, <1>4, <1>8
    <2> QED BY <1>6, <2>1
  <1> QED BY <1>7, <1>8 DEF start, page

\* pipeline-list.ts:541-549 and its copies: the pages of any list of rows
\* cover it.
LEMMA PagesCoverRows ==
  ASSUME NEW S, NEW rows \in Seq(S)
  PROVE  Covers(rows)
PROOF
  <1> DEFINE n == Len(rows)
             total == TotalPages(n)
  <1>0. PageSize \in Nat \ {0} /\ n \in Nat /\ total \in Nat /\ DOMAIN rows = 1..n
        /\ total * PageSize >= n
    BY PageSizeAssumption, PageCount
  <1>1. \A p \in 1..total : Len(RowsOfPage(rows, p)) \in 1..PageSize  BY PageRows
  <1>2. ASSUME NEW i \in DOMAIN rows
        PROVE  \E p \in 1..total : /\ i - (p - 1) * PageSize \in DOMAIN RowsOfPage(rows, p)
                                   /\ RowsOfPage(rows, p)[i - (p - 1) * PageSize] = rows[i]
    <2> DEFINE before == (i - 1) \div PageSize
               p == before + 1
               k == i - before * PageSize
    <2>1. i - 1 \in Nat /\ i \in 1..n  BY <1>0
    <2>2. before \in Nat /\ before * PageSize <= i - 1 /\ i - 1 < before * PageSize + PageSize
      <3>1. \A a \in Nat, b \in Nat \ {0} :
              a \div b \in Nat /\ (a \div b) * b <= a /\ a < (a \div b) * b + b
        OBVIOUS
      <3> QED BY <1>0, <2>1, <3>1
    <2> HIDE DEF before
    <2>3. before * PageSize \in Nat  BY <1>0, <2>2
    <2>4. k \in 1..PageSize /\ before * PageSize + k = i  BY <1>0, <2>1, <2>2, <2>3
    <2>5. before < total
      <3>1. before >= total => before * PageSize >= total * PageSize  BY <1>0, <2>2
      <3>2. total * PageSize \in Nat  BY <1>0
      <3> QED BY <1>0, <2>1, <2>2, <2>3, <3>1, <3>2
    <2>6. p \in 1..total /\ p - 1 = before  BY <1>0, <2>2, <2>5
    <2> HIDE DEF p, k
    <2>7. k \in DOMAIN RowsOfPage(rows, p) /\ RowsOfPage(rows, p)[k] = rows[i]
      <3>1. (p - 1) * PageSize + k = i /\ i <= n  BY <1>0, <2>1, <2>4, <2>6
      <3> QED BY <2>4, <2>6, <3>1, PageRows
    <2>8. k = i - (p - 1) * PageSize  BY <2>6 DEF k
    <2> QED BY <2>6, <2>7, <2>8
  <1> QED BY <1>1, <1>2 DEF Covers

\* The pages of each table cover the rows that were found.
THEOREM PagesAlwaysCover == ASSUME FilterKeepsRows PROVE Spec => []PagesCover
PROOF
  <1>1. TypeOK => PagesCover
    <2> SUFFICES ASSUME TypeOK PROVE PagesCover  OBVIOUS
    <2>1. table \in Table  BY DEF TypeOK
    <2>2. PICK S : Filtered(table) \in Seq(S)  BY <2>1, FilteredRows DEF HasRows
    <2> QED BY <2>2, PagesCoverRows DEF PagesCover
  <1> QED BY NavigationTypeOK, <1>1, PTL

\* The bar of a table is complete in each state.
THEOREM BarsAreComplete == ASSUME FilterKeepsRows PROVE Spec => []BarComplete
PROOF
  <1>1. TypeOK => BarComplete
    <2> SUFFICES ASSUME TypeOK, HasBar(table)
                 PROVE  IsBar(PaginationRange(Total(table), table.page), Total(table), table.page)
      BY DEF BarComplete
    <2>1. table \in Table /\ table.page \in Nat /\ table.page >= 1  BY DEF TypeOK, Table
    <2>2. Total(table) \in Nat  BY <2>1, FilteredRows, PageCount DEF Total, HasRows
    <2>3. Total(table) > 1  BY DEF HasBar
    <2> QED BY <2>1, <2>2, <2>3, BarIsComplete
  <1> QED BY NavigationTypeOK, <1>1, PTL

----------------------------------------------------------------------------
\* The buttons lead to each page.

\* From a page, to its neighbours; from one that is no more, to the first.
LEMMA ReachedNeighbours ==
  ASSUME NEW total \in Nat, NEW p \in Nat, total > 1, p >= 1
  PROVE  {p - 1, p + 1} \cap 1..total \subseteq Reached(total, p) /\ 1 \in Reached(total, p)
PROOF
  <1> DEFINE bar == PaginationRange(total, p)
  <1>1. IsBar(bar, total, p)  BY BarIsComplete
  <1>2. 1 \in {bar[i] : i \in DOMAIN bar}  BY <1>1 DEF IsBar
  <1> HIDE DEF bar
  <1>3. 1 \in Reached(total, p)  BY <1>2 DEF Reached, Buttons, Ellipsis, bar
  <1>4. {p - 1, p + 1} \cap 1..total \subseteq Reached(total, p)
    <2>1. (p - 1 \in 1..total => p # 1) /\ (p + 1 \in 1..total => p # total)  OBVIOUS
    <2> QED BY <2>1 DEF Reached, Buttons
  <1> QED BY <1>3, <1>4

\* A set of pages that has one and the neighbours of each has them all.
LEMMA NeighboursReachAll ==
  ASSUME NEW total \in Nat, NEW pages, NEW start \in 1..total, start \in pages,
         \A p \in pages \cap 1..total : {p - 1, p + 1} \cap 1..total \subseteq pages
  PROVE  1..total \subseteq pages
PROOF
  <1>1. ASSUME NEW p \in 1..total, p > start, p \notin pages PROVE FALSE
    <2> DEFINE Missing == {q \in 1..total : q > start /\ q \notin pages}
    <2>1. Missing \in SUBSET Nat /\ Missing # {}  BY <1>1
    <2>2. PICK q \in Missing : \A r \in Missing : q <= r
      <3> HIDE DEF Missing
      <3> QED BY <2>1, LeastExists
    <2>3. q - 1 \in 1..total /\ q - 1 >= start /\ q \in 1..total  OBVIOUS
    <2>4. q - 1 \notin Missing  BY <2>2, <2>3
    <2>5. q - 1 \in pages  BY <2>3, <2>4
    <2>6. (q - 1) + 1 = q  BY <2>3
    <2> QED BY <2>3, <2>5, <2>6
  <1>2. ASSUME NEW p \in 1..total, p < start, p \notin pages PROVE FALSE
    <2> DEFINE Missing == {q \in 1..total : q < start /\ q \notin pages}
    <2>1. Missing \in SUBSET (1..total) /\ Missing # {}  BY <1>2
    <2>2. PICK q \in Missing : \A r \in Missing : r <= q
      <3> HIDE DEF Missing
      <3> QED BY <2>1, LastExists
    <2>3. q + 1 \in 1..total /\ q + 1 <= start /\ q \in 1..total  OBVIOUS
    <2>4. q + 1 \notin Missing  BY <2>2, <2>3
    <2>5. q + 1 \in pages  BY <2>3, <2>4
    <2>6. (q + 1) - 1 = q  BY <2>3
    <2> QED BY <2>3, <2>5, <2>6
  <1>3. \A p \in 1..total : p < start \/ p = start \/ p > start  OBVIOUS
  <1> QED BY <1>1, <1>2, <1>3

\* pipeline-list.ts:571-575: a table that is not stranded can be turned to
\* each of its pages.
THEOREM EachPageWithinReach == ASSUME FilterKeepsRows PROVE Spec => []RowsWithinReach
PROOF
  <1>1. TypeOK => RowsWithinReach
    <2> DEFINE total == Total(table)
    <2> SUFFICES ASSUME TypeOK, HasTable(table), ~ Stranded(table),
                        NEW pages \in SUBSET ((1..total) \cup {table.page}),
                        table.page \in pages, Closed(pages, total)
                 PROVE  1..total \subseteq pages
      BY DEF RowsWithinReach
    <2>1. table \in Table /\ table.page \in Nat /\ table.page >= 1  BY DEF TypeOK, Table
    <2>2. total \in Nat  BY <2>1, FilteredRows, PageCount DEF Total, HasRows
    <2>3. CASE total <= 1
      <3>1. table.page = 1  BY <2>1, <2>3 DEF Stranded
      <3>2. \A p \in 1..total : p = 1  BY <2>2, <2>3
      <3> QED BY <3>1, <3>2
    <2>4. CASE total > 1
      <3> HIDE DEF total
      <3>1. \A p \in pages : Reached(total, p) \subseteq pages  BY DEF Closed
      <3>2. 1 \in pages  BY <2>1, <2>2, <2>4, <3>1, ReachedNeighbours
      <3>3. \A p \in pages \cap 1..total : {p - 1, p + 1} \cap 1..total \subseteq pages
        <4> SUFFICES ASSUME NEW p \in pages \cap 1..total
                     PROVE  {p - 1, p + 1} \cap 1..total \subseteq Reached(total, p)
          BY <3>1
        <4>1. p \in Nat /\ p >= 1 /\ p \in 1..total  OBVIOUS
        <4> QED BY <2>2, <2>4, <4>1, ReachedNeighbours
      <3>4. 1 \in 1..total  BY <2>2, <2>4
      <3> QED BY <2>2, <3>2, <3>3, <3>4, NeighboursReachAll
    <2> QED BY <2>2, <2>3, <2>4
  <1> QED BY NavigationTypeOK, <1>1, PTL

----------------------------------------------------------------------------
\* What strands a table.

\* The same rows are found, in whatever order.
SameFound(t, u) == t.kind = u.kind /\ t.items = u.items /\ t.query = u.query

\* Of the same rows there are as many pages, however they are sorted.
LEMMA SameRows ==
  ASSUME FilterKeepsRows, NEW t \in Table, NEW u \in Table, SameFound(t, u)
  PROVE  Total(u) = Total(t)
PROOF
  <1>1. Found(u) = Found(t)  BY DEF SameFound, Found
  <1>2. RowCount(u) = RowCount(t)  BY <1>1 DEF SameFound, RowCount
  <1> QED BY <1>2, FilteredRows DEF HasRows, Total

\* Nobody is stranded on the first page.
LEMMA FirstPageNotStranded == \A t : t.page = 1 => ~ Stranded(t)
BY DEF Stranded

\* What an action may do to the table that is shown: nothing, start afresh
\* or on the first page, turn it to a page it has, leave its rows and its
\* page, or bring other rows to it.
TableStep ==
  \/ table' = table
  \/ table'.page = 1
  \/ SameFound(table, table') /\ Total(table) > 1
  \/ SameFound(table, table') /\ table'.page = table.page
  \/ table'.page = table.page /\ table'.query = table.query /\ table'.kind = table.kind

\* A click that closes the menu leaves rows and page.
LEMMA ClosedMenu ==
  ASSUME NEW t \in Table
  PROVE  /\ SameFound(t, ClickClosesMenu(t)) /\ ClickClosesMenu(t).page = t.page
BY DEF ClickClosesMenu, SameFound, Table

\* What the user does in a table is one of these steps.
LEMMA InTableStep == ASSUME TableOK(table), InTable PROVE TableStep
PROOF
  <1> USE DEF TableOK, Table, ClickClosesMenu, SameFound
  <1>1. ASSUME NEW query \in Query, HandleSearchInput(query) PROVE table'.page = 1
    <2>1. table' = [table EXCEPT !.query = query, !.page = 1, !.menu = NoMenu]
      BY <1>1 DEF HandleSearchInput
    <2> QED BY <2>1
  <1>2. ASSUME NEW page \in Reached(Total(table), table.page), GoToPage(page)
        PROVE  SameFound(table, table') /\ Total(table) > 1
    BY <1>2 DEF GoToPage, HasBar
  <1>3. ASSUME NEW column \in Column, ToggleSortColumn(column)
        PROVE  SameFound(table, table') /\ table'.page = table.page
    BY <1>3 DEF ToggleSortColumn
  <1>4. ASSUME ToggleSort PROVE SameFound(table, table') /\ table'.page = table.page
    BY <1>4 DEF ToggleSort
  <1>5. ASSUME NEW name \in Name, ToggleMenu(name) PROVE SameFound(table, table') /\ table'.page = table.page
    BY <1>5 DEF ToggleMenu
  <1>6. ASSUME HandleDocumentClick PROVE SameFound(table, table') /\ table'.page = table.page
    BY <1>6 DEF HandleDocumentClick
  <1> QED BY <1>1, <1>2, <1>3, <1>4, <1>5, <1>6 DEF InTable, TableStep

\* So is an answer.
LEMMA AnsweredStep == ASSUME TableOK(table), Answered PROVE TableStep
PROOF
  <1> USE DEF TableOK, Table
  <1>1. ASSUME NEW rows, Answer(rows)
        PROVE  table'.page = table.page /\ table'.query = table.query /\ table'.kind = table.kind
    BY <1>1 DEF Answer
  <1>2. ASSUME FailPipelines
        PROVE  table'.page = table.page /\ table'.query = table.query /\ table'.kind = table.kind
    BY <1>2 DEF FailPipelines
  <1> QED BY <1>1, <1>2 DEF Answered, AnswerPipelines, AnswerPVCs, AnswerSecrets, TableStep

\* So is whatever happens.
LEMMA EachTableStep == ASSUME IInv, [Next]_vars PROVE TableStep
PROOF
  <1>0. TableOK(table) /\ table \in Table  BY DEF IInv, RestOK, TableOK
  <1>1. \A kind : NewTable(kind).page = 1  BY DEF NewTable
  <1>2. CASE Navigate  BY <1>1, <1>2 DEF Navigate, TableFor, TableStep
  <1>3. CASE AnswerTable  BY <1>0, <1>3, AnsweredStep DEF AnswerTable
  <1>4. CASE UseTable  BY <1>0, <1>4, InTableStep DEF UseTable
  <1>5. CASE UseLinks
    <2>1. ASSUME NEW i, CopyPipeline(i) PROVE TableStep
      BY <1>0, <2>1, ClosedMenu DEF CopyPipeline, TableStep
    <2>2. CASE table' = table  BY <2>2 DEF TableStep
    <2> QED BY <1>5, <2>1, <2>2
         DEF UseLinks, HandleNavClick, NewPipeline, BackToPipelines, DeletePipeline, Await,
             NavigateToPipeline, SavePipeline, NavigateOnAnswer
  <1>6. CASE UseBrowser
    <2>1. CASE Fresh  BY <1>1, <2>1 DEF Fresh, TableStep
    <2>2. CASE table' = table  BY <2>2 DEF TableStep
    <2> QED BY <1>6, <2>1, <2>2 DEF UseBrowser, Traverse, Open, Restart
  <1>7. CASE UNCHANGED vars  BY <1>7 DEF vars, TableStep
  <1> QED BY <1>2, <1>3, <1>4, <1>5, <1>6, <1>7 DEF Next

\* pipeline-list.ts:449-458: searching, sorting and turning pages leave no
\* table past its only page; an answer does only if fewer rows are found.
THEOREM OnlyFewerRowsStrand == ASSUME FilterKeepsRows PROVE Spec => OnlyAnswersStrand
PROOF
  <1> DEFINE Fewer == Stranded(table') /\ ~ Stranded(table) =>
                        table'.query = table.query /\ Len(Filtered(table')) < Len(Filtered(table))
  <1>1. IInv /\ IInv' /\ [Next]_vars => Fewer
    <2> SUFFICES ASSUME IInv, IInv', [Next]_vars, Stranded(table'), ~ Stranded(table)
                 PROVE  table'.query = table.query /\ Len(Filtered(table')) < Len(Filtered(table))
      OBVIOUS
    <2>0. /\ table \in Table /\ table' \in Table /\ TableStep
          /\ Total(table) \in Nat /\ Total(table') \in Nat
      BY EachTableStep, FilteredRows, PageCount DEF IInv, RestOK, TableOK, Total, HasRows
    <2>1. table' # table /\ table'.page # 1  BY FirstPageNotStranded
    <2>2. SameFound(table, table') => Total(table') = Total(table)  BY <2>0, SameRows
    <2>3. /\ ~ (SameFound(table, table') /\ Total(table) > 1)
          /\ ~ (SameFound(table, table') /\ table'.page = table.page)
      BY <2>0, <2>2 DEF Stranded
    <2>4. table'.page = table.page /\ table'.query = table.query
      BY <2>0, <2>1, <2>3 DEF TableStep
    <2>5. Total(table') <= 1 /\ ~ (Total(table) <= 1)  BY <2>4 DEF Stranded
    <2>6. Len(Filtered(table')) \in Nat /\ Len(Filtered(table)) \in Nat
      BY <2>0, FilteredRows DEF HasRows
    <2> QED BY <2>4, <2>5, <2>6, FewerPages DEF Total
  <1> QED BY InvHolds, <1>1, PTL DEF Spec, OnlyAnswersStrand
=============================================================================
