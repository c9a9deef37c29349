--------------------------- MODULE PipelineDetail ---------------------------
(***************************************************************************)
(* The page of one pipeline (pipeline-detail.ts) with the drawer for one   *)
(* of its steps (step-detail.ts).  The page polls the pipeline and lays    *)
(* out its graph; the drawer polls the logs of the step's job and asks for *)
(* its events once.  None of them waits for earlier answers.               *)
(*                                                                         *)
(* What a handler leaves is rendered before the next one runs, so that     *)
(* rendering, with what it changes, is part of each action: the cached     *)
(* step and status, and the drawer, which comes, goes, and asks for logs   *)
(* when it finds another job.                                              *)
(***************************************************************************)
EXTENDS MonitorShell

VARIABLES
  detail,                  \* pipeline, graph (as the stages they show), loading, error, selected step
  gets, layouts,           \* pipelines asked for; layouts under way
  cached,                  \* what the drawer was last given
  drawer,                  \* the step-detail element, if it is there
  logCalls, eventCalls     \* what it has asked for

asks == <<gets, layouts, logCalls, eventCalls>>

DetailPage == [key : Key \cup {None}, pipeline : Stage, graph : Stage, loading : BOOLEAN, error : BOOLEAN,
               selected : StepName \cup {None}]
Cached     == [name : StepName \cup {None}, status : StatusView]
Drawer     == [open : BOOLEAN, job : StepName \cup {None}, logs : Text \cup {NoPod}, loading : BOOLEAN,
               error : BOOLEAN, initial : BOOLEAN, tab : {"logs", "other"}, events : StepName \cup {None}]

LogRequest == [job : StepName, logs : Text \cup {NoPod}]

NewDetail(k) ==
  [key |-> k, pipeline |-> Gone, graph |-> Gone, loading |-> TRUE, error |-> FALSE, selected |-> None]
NoStatus  == [phase |-> "", jobName |-> FALSE, ended |-> FALSE, active |-> FALSE]
NotCached == [name |-> None, status |-> NoStatus]
NewDrawer == [open |-> TRUE, job |-> None, logs |-> NoPod, loading |-> FALSE, error |-> FALSE,
              initial |-> TRUE, tab |-> "logs", events |-> None]
NoDrawer  == [NewDrawer EXCEPT !.open = FALSE]

OnDetail == page = "pipeline-detail"

StatusOf(stage, step) == IF stage = Gone THEN NoStatus ELSE Stages[stage][step].status
LogsOf(stage, step)   == IF stage = Gone THEN NoPod ELSE Stages[stage][step].logs

\* The fields that count as a change of the status.
KeyFields(status) == <<status.phase, status.jobName, status.ended>>
HasStatusChanged(old, new) == KeyFields(old) # KeyFields(new)

\* The job of a step has the name of the pipeline and the step.
JobOf(step, status) == IF status.jobName THEN step ELSE None

----------------------------------------------------------------------------
\* Rendering.

\* Mutant: the step is not looked at.
StepChangedNever(d) == cached.name = None

StepChanged(d) == cached.name # d.selected

DrawerShown(d) == ~ d.loading /\ ~ d.error /\ d.pipeline # Gone /\ d.selected # None

CachedFor(d) ==
  LET status == StatusOf(d.pipeline, d.selected)
  IN  IF StepChanged(d) \/ HasStatusChanged(cached.status, status)
      THEN [name |-> d.selected, status |-> status] ELSE cached

LogCall(job) == [job |-> job, logs |-> LogsOf(server[detail.key], job)]

\* What loadLogs does before it waits.
LogsAsked(e) == IF e.initial THEN [e EXCEPT !.loading = TRUE, !.error = FALSE] ELSE e

\* The drawer once it has been given the cached step: asks for the logs and
\* the events of a job it did not show before.
Updated(e, c) ==
  LET job == JobOf(c.name, c.status)
      new == [e EXCEPT !.job = job, !.initial = TRUE]
  IN  IF job = e.job THEN /\ drawer' = e /\ UNCHANGED <<logCalls, eventCalls>>
      ELSE IF job = None THEN /\ drawer' = new /\ UNCHANGED <<logCalls, eventCalls>>
      ELSE /\ drawer' = LogsAsked(new)
           /\ logCalls' = Append(logCalls, LogCall(job))
           /\ eventCalls' = eventCalls \cup {job}

Render(d) ==
  /\ detail' = d
  /\ IF DrawerShown(d)
     THEN /\ cached' = CachedFor(d)
          /\ Updated(IF drawer.open THEN drawer ELSE NewDrawer, cached')
     ELSE /\ drawer' = NoDrawer /\ logCalls' = <<>> /\ eventCalls' = {}
          /\ UNCHANGED cached

----------------------------------------------------------------------------
\* loadPipeline, by the timer or the button Refresh.
PollPipeline ==
  /\ OnDetail /\ Len(gets) + Len(layouts) < MaxCalls
  /\ gets' = Append(gets, server[detail.key])
  /\ UNCHANGED <<ground, detail, layouts, cached, drawer, logCalls, eventCalls>>

\* The pipeline is shown at once, but for the first one; its graph when it
\* has been laid out.
AnswerPipeline(i) ==
  /\ gets[i] # Gone
  /\ gets' = Without(gets, i) /\ layouts' = Append(layouts, gets[i])
  /\ Render([detail EXCEPT !.pipeline = gets[i], !.error = FALSE])
  /\ UNCHANGED ground

NotLoaded == [detail EXCEPT !.error = TRUE, !.loading = FALSE]

FailPipeline(i) ==
  /\ \/ gets[i] = Gone /\ UNCHANGED ground
     \/ Spend("failure") /\ UNCHANGED <<cluster, shell, page, deletes>>
  /\ gets' = Without(gets, i)
  /\ Render(NotLoaded)
  /\ UNCHANGED layouts

\* Mutant: a graph that is there is not laid out again.
LaidOutOnce(stage) == [detail EXCEPT !.graph = IF @ = Gone THEN stage ELSE @, !.loading = FALSE]

LaidOut(stage) == [detail EXCEPT !.graph = stage, !.loading = FALSE]

FinishLayout(i) ==
  /\ layouts' = Without(layouts, i)
  /\ Render(LaidOut(layouts[i]))
  /\ UNCHANGED <<ground, gets>>

\* The page shows the pipeline, with its buttons.
PipelineShown == OnDetail /\ ~ detail.loading /\ ~ detail.error /\ detail.pipeline # Gone

SetSelected(step) ==
  /\ Spend("select")
  /\ Render([detail EXCEPT !.selected = step])
  /\ UNCHANGED <<cluster, shell, page, deletes, gets, layouts>>

SelectStep(step) == PipelineShown /\ step # detail.selected /\ SetSelected(step)
CloseDrawer      == PipelineShown /\ detail.selected # None /\ SetSelected(None)

DeletePipeline ==
  /\ PipelineShown /\ AskDelete(detail.key, "detail")
  /\ UNCHANGED <<detail, cached, drawer, asks>>

----------------------------------------------------------------------------
\* The drawer.

ActiveTab(tab) ==
  /\ drawer.open /\ tab # drawer.tab /\ Spend("select")
  /\ drawer' = [drawer EXCEPT !.tab = tab]
  /\ UNCHANGED <<cluster, shell, page, deletes, detail, cached, asks>>

\* By the timer, while the tab is open, or by the button Refresh.
LoadLogs ==
  /\ drawer.open /\ drawer.job # None /\ Len(logCalls) < MaxCalls
  /\ drawer' = LogsAsked(drawer)
  /\ logCalls' = Append(logCalls, LogCall(drawer.job))
  /\ UNCHANGED <<ground, detail, cached, gets, layouts, eventCalls>>

PollLogs == drawer.tab = "logs" /\ LoadLogs

Settled(e) == [e EXCEPT !.loading = FALSE, !.initial = FALSE]

\* Logs that are as before leave an error as it is, as does a job that has
\* no pod; a pod that has written nothing counts as none.
WithLogs(e, new) ==
  [e EXCEPT !.logs = new, !.error = @ /\ (new = NoPod \/ new = e.logs)]

AnswerLogs(i) ==
  /\ drawer' = Settled(WithLogs(drawer, logCalls[i].logs))
  /\ logCalls' = Without(logCalls, i)
  /\ UNCHANGED <<ground, detail, cached, gets, layouts, eventCalls>>

FailLogs(i) ==
  /\ Spend("failure")
  /\ drawer' = Settled([drawer EXCEPT !.error = TRUE])
  /\ logCalls' = Without(logCalls, i)
  /\ UNCHANGED <<cluster, shell, page, deletes, detail, cached, gets, layouts, eventCalls>>

\* The events of a job; an error is only logged.
AnswerEvents(job) ==
  /\ job \in eventCalls
  /\ eventCalls' = eventCalls \ {job}
  /\ \/ drawer' = [drawer EXCEPT !.events = job] /\ UNCHANGED events
     \/ UNCHANGED drawer /\ Spend("failure")
  /\ UNCHANGED <<cluster, shell, page, deletes, detail, cached, gets, layouts, logCalls>>

DrawerStep ==
  \/ \E tab \in {"logs", "other"} : ActiveTab(tab)
  \/ LoadLogs
  \/ \E i \in DOMAIN logCalls : AnswerLogs(i) \/ FailLogs(i)
  \/ \E job \in eventCalls : AnswerEvents(job)

DetailStep ==
  \/ PollPipeline
  \/ \E i \in DOMAIN gets : AnswerPipeline(i) \/ FailPipeline(i)
  \/ \E i \in DOMAIN layouts : FinishLayout(i)
  \/ \E step \in StepName : SelectStep(step)
  \/ CloseDrawer \/ DeletePipeline
  \/ DrawerStep
=============================================================================
