------------------------------ MODULE Navigation -----------------------------
(***************************************************************************)
(* The router and the shell with the pages, of which the tables of the     *)
(* lists are looked at: what the user does on them, the links that lead    *)
(* from one to another, and the answers that navigate when they come, from *)
(* whatever page there is by then.                                         *)
(***************************************************************************)
EXTENDS AppRouter, PagedTable

CONSTANTS
  NameOf,                  \* the name with a place in the alphabet
  Budgets                  \* how much the user does of each kind

VARIABLES
  awaited,                 \* where answers still to come will lead
  moves                    \* what is left of the budget

vars == <<router, table, awaited, moves>>

MoveKind == {"visit", "answer", "click"}

SideLinks == {<<"pipelines">>, <<"storage">>, <<"secrets">>}

ASSUME NameOfAssumption == NameOf \in [Name -> STRING]
ASSUME LinkAssumption   == SideLinks \cup {<<"builder">>} \subseteq Path
ASSUME BudgetAssumption == Budgets \subseteq [MoveKind -> Nat]

Spend(kind) == moves[kind] > 0 /\ moves' = [moves EXCEPT ![kind] = @ - 1]

----------------------------------------------------------------------------
\* Links.

Detail    == {path \in Path : Len(path) = 3 /\ path[1] = "pipelines"}

\* Which link of the sidebar is highlighted.
IsActive(link) == Len(link) <= Len(currentPath) /\ SubSeq(currentPath, 1, Len(link)) = link

Follow(path) == Idle /\ Spend("visit") /\ Go(path)

HandleNavClick(link) == Follow(link) /\ UNCHANGED <<table, awaited>>

\* A row of the list, by mouse or key.
NavigateToPipeline(path) ==
  /\ table.kind = "pipeline-list"
  /\ \E i \in DOMAIN RowsShown(table) :
       path = <<"pipelines", RowsShown(table)[i].namespace, NameOf[RowsShown(table)[i].name]>>
  /\ Follow(path) /\ UNCHANGED <<table, awaited>>

NewPipeline ==
  /\ table.kind = "pipeline-list" /\ table.shown = "rows"
  /\ Follow(<<"builder">>) /\ UNCHANGED <<table, awaited>>

\* From the menu of a row.
CopyPipeline(i) ==
  /\ table.kind = "pipeline-list" /\ i \in MenusShown(table)
  /\ Follow(<<"builder">>)
  /\ table' = ClickClosesMenu(table) /\ UNCHANGED awaited

BackToPipelines ==
  /\ outlet.component = "pipeline-detail"
  /\ Follow(<<"pipelines">>) /\ UNCHANGED <<table, awaited>>

\* A pipeline that is saved is shown, one that is deleted on its page is
\* not: the answer leads there when it comes.
Await(path) == Idle /\ Spend("answer") /\ awaited' = awaited \cup {path} /\ UNCHANGED <<router, table>>

SavePipeline(path) == outlet.component = "pipeline-canvas" /\ path \in Detail /\ Await(path)
DeletePipeline     == outlet.component = "pipeline-detail" /\ Await(<<"pipelines">>)

NavigateOnAnswer(path) ==
  /\ Idle /\ path \in awaited
  /\ awaited' = awaited \ {path} /\ Go(path) /\ UNCHANGED <<table, moves>>

----------------------------------------------------------------------------
\* The router: the element that is rendered starts afresh.

TableFor(component) == NewTable(IF component \in ListKind THEN component ELSE "none")

Navigate ==
  /\ NavigateStep
  /\ table' = IF pending' = NoPath THEN TableFor(outlet'.component) ELSE table
  /\ UNCHANGED <<awaited, moves>>

\* Back and forward; a link to a part of the page is an entry, too.
Traverse(n) == PopState(n) /\ Spend("visit") /\ UNCHANGED <<table, awaited>>

\* The document goes, and with it what waits for answers.
Fresh == table' = NewTable("none") /\ awaited' = {}

\* The link of an empty list is inside a component, too.
Open(path)   == LoadNew(path) /\ Spend("visit") /\ Fresh
Restart(n)   == Reload(n) /\ Spend("visit") /\ Fresh

----------------------------------------------------------------------------
Init ==
  /\ RouterInit
  /\ table = NewTable("none") /\ awaited = {} /\ moves \in Budgets

AnswerTable ==
  /\ Idle /\ table.kind \in ListKind /\ Spend("answer")
  /\ Answered /\ UNCHANGED <<router, awaited>>

UseTable ==
  /\ Idle /\ Spend("click")
  /\ InTable /\ UNCHANGED <<router, awaited>>

UseLinks ==
  \/ \E link \in SideLinks : HandleNavClick(link)
  \/ NewPipeline \/ BackToPipelines \/ DeletePipeline
  \/ \E i \in DOMAIN RowsShown(table) : CopyPipeline(i)
  \/ \E path \in Detail : NavigateToPipeline(path) \/ SavePipeline(path)
  \/ \E path \in awaited : NavigateOnAnswer(path)

UseBrowser ==
  \/ \E n \in DOMAIN history : Traverse(n) \/ Restart(n)
  \/ \E path \in Path : Open(path)

Next == Navigate \/ AnswerTable \/ UseTable \/ UseLinks \/ UseBrowser

Spec == Init /\ [][Next]_vars
=============================================================================
