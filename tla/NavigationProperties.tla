------------------------ MODULE NavigationProperties -------------------------
(***************************************************************************)
(* What the router and the tables promise.                                 *)
(***************************************************************************)
EXTENDS Navigation

\* The variables have their types, the place in the history is one, and the
\* page of a table is never the one before the first.
TypeOK ==
  /\ history \in Seq(Path) /\ at \in DOMAIN history
  /\ pending \in Path \cup {NoPath}
  /\ outlet \in [component : Pages, params : [Param -> Segment]]
  /\ currentPath \in Path
  /\ table \in Table /\ table.page >= 1
  /\ awaited \subseteq Path
  /\ moves \in [MoveKind -> Nat]

----------------------------------------------------------------------------
\* router.ts:107-187, app-shell.ts:172-185: once the calls of navigate have
\* returned, the outlet has the component and the parameters of the path the
\* browser shows, and it is the path by which the shell highlights its
\* links: whatever redirects, unknown paths, moves in the history, reloads
\* and late answers led there.
OutletIsLocation ==
  Idle => /\ IsRoute(Location) /\ ~ IsRedirect(Location)
          /\ outlet = Element(Location)
          /\ currentPath = Location

\* How many more calls of go a path leads to.
Distance(path) == IF ~ IsRoute(path) THEN 2 ELSE IF IsRedirect(path) THEN 1 ELSE 0

\* router.ts:103-134: navigate and go call one another: each call is for a
\* path that is nearer to a component, so that they return.
CallsComeNearer ==
  [][~ Idle /\ pending' # NoPath => Distance(pending') < Distance(pending)]_vars

----------------------------------------------------------------------------
\* The pages are the rows, each of them in its place on one of them, and
\* none of the pages is empty or too long.
Covers(rows) ==
  LET Page(p) == RowsOfPage(rows, p)
      total   == TotalPages(Len(rows))
  IN  /\ \A p \in 1..total : Len(Page(p)) \in 1..PageSize
      /\ \A i \in DOMAIN rows :
           \E p \in 1..total : /\ i - (p - 1) * PageSize \in DOMAIN Page(p)
                               /\ Page(p)[i - (p - 1) * PageSize] = rows[i]

\* pipeline-list.ts:541-549, pvc-list.ts:561-569, secret-list.ts:720-728: the
\* pages of each table cover the rows that were found, whatever was
\* searched for and sorted by.
PagesCover == Covers(Filtered(table))

\* What a bar must be for a table of that many pages, at one of them, or
\* at one that is no more: page numbers in increasing order, from the first
\* to the last, with the neighbours of the current one, and an ellipsis
\* between two numbers just when there are pages between them.
IsBar(bar, total, current) ==
  LET Shown == {bar[i] : i \in DOMAIN bar}
  IN  /\ {1, total} \cup ({current - 1, current, current + 1} \cap 1..total) \subseteq Shown
      /\ Shown \subseteq 0..total /\ bar[1] = 1 /\ bar[Len(bar)] = total
      /\ \A i \in 1..(Len(bar) - 1) :
           IF bar[i] = Ellipsis THEN bar[i - 1] + 1 < bar[i + 1]
           ELSE bar[i + 1] = Ellipsis \/ bar[i + 1] = bar[i] + 1

\* pipeline-list.ts:551-569, pvc-list.ts:571-589, secret-list.ts:730-748: the
\* bar hides no page without saying so, and none of the pages next to the
\* current one, also when the rows of the current page have vanished.
BarComplete == HasBar(table) => IsBar(PaginationRange(Total(table), table.page), Total(table), table.page)

----------------------------------------------------------------------------
\* All the rows fit on one page by now and another one is shown: there is
\* no bar to leave it by, and of the rows, if there are any, none is seen.
Stranded(t) == Total(t) <= 1 /\ t.page > 1

\* What a set of pages leads to by the buttons, without leaving it.
Closed(pages, total) == \A p \in pages : Reached(total, p) \subseteq pages

\* Each list, pipeline-list.ts:571-575 and 756-798: the user can turn to each
\* page of the table by the buttons of the bar, also from a page that is no
\* more, unless the table is stranded.
RowsWithinReach ==
  LET total == Total(table)
  IN  HasTable(table) /\ ~ Stranded(table) =>
        \A pages \in SUBSET ((1..total) \cup {table.page}) :
          table.page \in pages /\ Closed(pages, total) => 1..total \subseteq pages

\* Each list, pipeline-list.ts:449-458 and 571-589: a table is stranded only
\* by rows that are no more among those searched for: searching, sorting and
\* turning pages never do it, nor do answers that bring as many.
OnlyAnswersStrand ==
  [][Stranded(table') /\ ~ Stranded(table) =>
       table'.query = table.query /\ Len(Filtered(table')) < Len(Filtered(table))]_vars
=============================================================================
