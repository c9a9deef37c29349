------------------------------ MODULE PagedTable -----------------------------
(***************************************************************************)
(* The tables of the lists of pipelines, claims and secrets: what the rows *)
(* of the last answer are searched for, sorted by and cut into, the bar    *)
(* that leads from one page to another, and the menu of a row.  The three  *)
(* lists have a copy each of most of it.                                   *)
(*                                                                         *)
(* A name is its place in the alphabet.  A list is answered when it has    *)
(* been asked for, again and again; what it brings may be anything.        *)
(***************************************************************************)
EXTENDS Integers, Sequences, FiniteSets, TLC

CONSTANTS
  Namespace, Name,
  Query, Matched,          \* what is typed to search for, and the names it is found in
  Answers,                 \* what each of the lists may bring
  PageSize,                \* 10 in the code
  NoMenu

ListKind  == {"pipeline-list", "pvc-list", "secret-list"}
Row       == [namespace : Namespace, name : Name, phase : STRING, created : Nat]
Column    == {"name", "status", "created"}

ASSUME NameAssumption     == Name \subseteq Nat /\ NoMenu \notin Name
ASSUME QueryAssumption    == "" \in Query /\ Matched \in [Query -> SUBSET Name] /\ Matched[""] = Name
ASSUME AnswersAssumption  == Answers \in [ListKind -> SUBSET Seq(Row)]
ASSUME PageSizeAssumption == PageSize \in Nat \ {0}

VARIABLE table

Table == [kind : ListKind \cup {"none"}, items : Seq(Row), shown : {"spinner", "error", "rows"},
          query : Query, column : Column, ascending : BOOLEAN, page : Nat, menu : Name \cup {NoMenu}]

\* Mutant: pages are counted from zero.
NewTableAtZero(kind) ==
  [kind |-> kind, items |-> <<>>, shown |-> "spinner", query |-> "",
   column |-> "name", ascending |-> TRUE, page |-> 0, menu |-> NoMenu]

\* The newest pipelines come first; claims and secrets by their name.
NewTable(kind) ==
  [kind |-> kind, items |-> <<>>, shown |-> "spinner", query |-> "",
   column |-> IF kind = "pipeline-list" THEN "created" ELSE "name",
   ascending |-> kind # "pipeline-list", page |-> 1, menu |-> NoMenu]

----------------------------------------------------------------------------
\* Which rows, and in which order.

Found(t) == SelectSeq(t.items, LAMBDA row : row.name \in Matched[t.query])

PhaseOrder == <<"Failed", "Pending", "Running", "Succeeded", "Suspended">>
PhasePlace(phase) == CHOOSE p \in DOMAIN PhaseOrder :
                       PhaseOrder[p] = IF phase = "" THEN "Pending" ELSE phase

SortKey(row, column) ==
  CASE column = "name"    -> row.name
    [] column = "status"  -> PhasePlace(row.phase)
    [] column = "created" -> row.created

\* Rows that compare equal stay in the order of the answer.
Sorted(rows, column, ascending) ==
  LET Key(i)       == SortKey(rows[i], column)
      Before(i, j) == \/ IF ascending THEN Key(i) < Key(j) ELSE Key(i) > Key(j)
                      \/ Key(i) = Key(j) /\ i < j
      order        == SortSeq([i \in DOMAIN rows |-> i], Before)
  IN  [p \in DOMAIN rows |-> rows[order[p]]]

filteredPipelines(t) == Sorted(Found(t), t.column, t.ascending)
filteredPVCs(t)      == Sorted(Found(t), "name", t.ascending)
filteredSecrets(t)   == Sorted(Found(t), "name", t.ascending)

Filtered(t) ==
  CASE t.kind = "pipeline-list" -> filteredPipelines(t)
    [] t.kind = "pvc-list"      -> filteredPVCs(t)
    [] t.kind = "secret-list"   -> filteredSecrets(t)
    [] OTHER                    -> <<>>

----------------------------------------------------------------------------
\* Pages.

TotalPages(count) == (count + PageSize - 1) \div PageSize

LowerOf(a, b)  == IF a < b THEN a ELSE b
HigherOf(a, b) == IF a > b THEN a ELSE b

\* Mutant: the end of a slice is taken for its last row.
RowsButLast(rows, page) == SubSeq(rows, (page - 1) * PageSize + 1, LowerOf(page * PageSize - 1, Len(rows)))

RowsOfPage(rows, page) == SubSeq(rows, (page - 1) * PageSize + 1, LowerOf(page * PageSize, Len(rows)))

\* The bar: page numbers, and 0 for an ellipsis.
Ellipsis     == 0
Span(lo, hi) == [n \in 1..(hi - lo + 1) |-> lo + n - 1]
If(test, item) == IF test THEN <<item>> ELSE <<>>

\* Mutant: one page on the left is hidden without an ellipsis.
RangeLateEllipsis(total, current) ==
  IF total <= 7 THEN Span(1, total)
  ELSE << 1 >> \o If(current > 4, Ellipsis)
       \o Span(HigherOf(2, current - 1), LowerOf(total - 1, current + 1))
       \o If(current < total - 2, Ellipsis) \o <<total>>

PaginationRange(total, current) ==
  IF total <= 7 THEN Span(1, total)
  ELSE << 1 >> \o If(current > 3, Ellipsis)
       \o Span(HigherOf(2, current - 1), LowerOf(total - 1, current + 1))
       \o If(current < total - 2, Ellipsis) \o <<total>>

\* Where its buttons lead: the arrows, unless disabled, and the numbers.
Buttons(total, current) ==
  LET bar == PaginationRange(total, current)
  IN  ({bar[i] : i \in DOMAIN bar} \ {Ellipsis})
      \cup (IF current # 1 THEN {current - 1} ELSE {})
      \cup (IF current # total THEN {current + 1} ELSE {})

\* Mutant: the last page is taken for one too many.
ReachedButLast(total, current) == Buttons(total, current) \cap 1..(total - 1)

\* goToPage ignores a page that is not there.
Reached(total, current) == Buttons(total, current) \cap 1..total

----------------------------------------------------------------------------
\* What each list renders: the bar is there when there is something to turn.

HasTable(t) == t.shown = "rows" /\ Filtered(t) # <<>>
Total(t)    == TotalPages(Len(Filtered(t)))
HasBar(t)   == HasTable(t) /\ Total(t) > 1

RowsShown(t) == IF HasTable(t) THEN RowsOfPage(Filtered(t), t.page) ELSE <<>>

\* The rows whose menu is open: they are found by their name alone.
MenusShown(t) == {i \in DOMAIN RowsShown(t) : t.menu = RowsShown(t)[i].name}

ClickClosesMenu(t) == [t EXCEPT !.menu = NoMenu]

----------------------------------------------------------------------------
\* The last answer, also of one that was asked for before.  A list of
\* claims or of secrets has no error: one that fails is empty.
Answer(rows) == table' = [table EXCEPT !.items = rows, !.shown = "rows"]

AnswerPipelines(rows) == table.kind = "pipeline-list" /\ Answer(rows)
AnswerPVCs(rows)      == table.kind = "pvc-list" /\ Answer(rows)
AnswerSecrets(rows)   == table.kind = "secret-list" /\ Answer(rows)
FailPipelines         == table.kind = "pipeline-list" /\ table' = [table EXCEPT !.shown = "error"]

\* Mutant: the page stays.
SearchOnPage(query) ==
  /\ table.shown = "rows" /\ query # table.query
  /\ table' = ClickClosesMenu([table EXCEPT !.query = query])

\* The header with the search field is there without rows too.
HandleSearchInput(query) ==
  /\ table.shown = "rows" /\ query # table.query
  /\ table' = ClickClosesMenu([table EXCEPT !.query = query, !.page = 1])

GoToPage(page) ==
  /\ HasBar(table) /\ page \in Reached(Total(table), table.page)
  /\ table' = ClickClosesMenu([table EXCEPT !.page = page])

\* The other column starts downwards when it is the date.
ToggleSortColumn(column) ==
  /\ table.kind = "pipeline-list" /\ HasTable(table)
  /\ table' = ClickClosesMenu(
       IF column = table.column THEN [table EXCEPT !.ascending = ~ @]
       ELSE [table EXCEPT !.column = column, !.ascending = column # "created"])

ToggleSort ==
  /\ table.kind \in {"pvc-list", "secret-list"} /\ HasTable(table)
  /\ table' = [table EXCEPT !.ascending = ~ @]

\* The button of a row; a click anywhere else closes the menu.
ToggleMenu(name) ==
  /\ table.kind = "pipeline-list"
  /\ \E i \in DOMAIN RowsShown(table) : RowsShown(table)[i].name = name
  /\ table' = [table EXCEPT !.menu = IF @ = name THEN NoMenu ELSE name]

HandleDocumentClick ==
  table.menu # NoMenu /\ table' = ClickClosesMenu(table)

Answered ==
  \/ \E rows \in Answers[table.kind] : AnswerPipelines(rows) \/ AnswerPVCs(rows) \/ AnswerSecrets(rows)
  \/ FailPipelines

InTable ==
  \/ \E query \in Query : HandleSearchInput(query)
  \/ \E page \in Reached(Total(table), table.page) : GoToPage(page)
  \/ \E column \in Column : ToggleSortColumn(column)
  \/ ToggleSort
  \/ \E name \in Name : ToggleMenu(name)
  \/ HandleDocumentClick
=============================================================================
