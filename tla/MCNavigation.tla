---------------------------- MODULE MCNavigation -----------------------------
(***************************************************************************)
(* Small instances of Navigation: tables of up to nine pages of two rows,  *)
(* so that the bar has its ellipses.                                       *)
(***************************************************************************)
EXTENDS NavigationProperties

\* A component with and without parameters, the redirect, and paths that no
\* route matches: an unknown one, and one whose name is empty.
Paths == {<<>>, <<"pipelines">>, <<"builder">>, <<"storage">>, <<"secrets">>,
          <<"pipelines", "team", "p">>, <<"builder", "team", "p">>,
          <<"settings">>, <<"pipelines", "team", "">>}

Segments == {"", "pipelines", "builder", "storage", "secrets", "settings", "team", "p"}

Names == 1..17
Named == [n \in Names |-> "p"]

Searches  == {"", "q"}
FoundRows == [q \in Searches |-> IF q = "" THEN Names ELSE {1, 3, 5, 8, 13}]

MCRow(name, phase, created) == [namespace |-> "team", name |-> name, phase |-> phase, created |-> created]

\* Rows whose phases and dates are not in the order of their names, some of
\* them alike.
Many(n) == [i \in 1..n |-> MCRow(i, IF i % 3 = 0 THEN "" ELSE IF i % 3 = 1 THEN "Running" ELSE "Failed", (i * 5) % 7)]

Some(lengths) == {Many(n) : n \in lengths}
Bring == [kind \in ListKind |-> IF kind = "pipeline-list" THEN Some({0, 1, 4, 17}) ELSE Some({1, 6, 16})]

Budget(v, a, c) == [k \in MoveKind |-> CASE k = "visit" -> v [] k = "answer" -> a [] k = "click" -> c]

\* Pages opened while answers come; rows searched for, sorted and turned.
Scenarios == {Budget(3, 1, 0), Budget(1, 2, 3), Budget(0, 2, 5), Budget(0, 3, 1)}
=============================================================================
