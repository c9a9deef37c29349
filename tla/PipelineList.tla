---------------------------- MODULE PipelineList ----------------------------
(***************************************************************************)
(* The list of pipelines (pipeline-list.ts): it asks for the pipelines of  *)
(* its namespace when it is opened, every five seconds, when the namespace *)
(* is changed and after a deletion, without waiting for earlier answers,   *)
(* and shows the answer that came last.                                    *)
(*                                                                         *)
(* A list reads the server when it is asked for: one that the server reads *)
(* later is as good as one asked for later, in another place of the queue. *)
(***************************************************************************)
EXTENDS MonitorShell

VARIABLES
  list,                    \* namespace, pipelines, loading and error
  listCalls                \* the lists asked for, in the order of asking

ListPage == [namespace : Namespace, pipelines : [Key -> Stage], loading : BOOLEAN, error : BOOLEAN]

\* The pipelines of a namespace, as the server has them.
ListPipelines(ns) == [k \in Key |-> IF k[1] = ns THEN server[k] ELSE Gone]

\* Mutant: the page is opened without a namespace.
NewListUnset == [namespace |-> "", pipelines |-> [k \in Key |-> Gone], loading |-> TRUE, error |-> FALSE]

\* A new component; it does not know what is chosen in the sidebar.
NewList == [namespace |-> "default", pipelines |-> [k \in Key |-> Gone], loading |-> TRUE, error |-> FALSE]

Asked(ns) == Append(listCalls, ListPipelines(ns))

OnList == page = "pipeline-list"

----------------------------------------------------------------------------
\* By the timer, or by the button Retry.
PollList ==
  /\ OnList /\ Len(listCalls) < MaxCalls
  /\ listCalls' = Asked(list.namespace)
  /\ UNCHANGED <<ground, list>>

\* Mutants: there is no "finally"; an error is never taken back.
LoadedButSpinning(pipelines)  == [list EXCEPT !.pipelines = pipelines, !.error = FALSE]
Loaded(pipelines) == [list EXCEPT !.pipelines = pipelines, !.loading = FALSE, !.error = FALSE]

\* The answers may come in any order.
AnswerList(i) ==
  /\ list' = Loaded(listCalls[i])
  /\ listCalls' = Without(listCalls, i)
  /\ UNCHANGED ground

FailList(i) ==
  /\ Spend("failure")
  /\ list' = [list EXCEPT !.loading = FALSE, !.error = TRUE]
  /\ listCalls' = Without(listCalls, i)
  /\ UNCHANGED <<cluster, shell, page, deletes>>

\* The list is told of a namespace chosen in the sidebar; so are the lists
\* of earlier visits, which nobody sees.
HandleNamespaceChange(ns) ==
  IF OnList THEN /\ list' = [list EXCEPT !.namespace = ns]
                 /\ listCalls' = Asked(ns)
  ELSE UNCHANGED <<list, listCalls>>

\* A row of the list is on the page.
RowShown(k) == OnList /\ ~ list.loading /\ ~ list.error /\ list.pipelines[k] # Gone

DeleteFromList(k) ==
  /\ RowShown(k) /\ AskDelete(k, "list")
  /\ UNCHANGED <<list, listCalls>>

\* The answer to a deletion; the list is asked for again.
ReloadAfterDelete(d) ==
  /\ d \in deletes /\ d.taken /\ d.from \in {"list", "nowhere"}
  /\ deletes' = deletes \ {d}
  /\ IF d.from = "list" THEN listCalls' = Asked(list.namespace) ELSE UNCHANGED listCalls
  /\ UNCHANGED <<cluster, shell, page, events, list>>

ListStep ==
  \/ PollList
  \/ \E i \in DOMAIN listCalls : AnswerList(i) \/ FailList(i)
  \/ \E k \in Key : DeleteFromList(k)
  \/ \E d \in deletes : ReloadAfterDelete(d)
=============================================================================
