# jobrunner: a verification project

jobrunner runs pipelines on Kubernetes. A `Pipeline` object lists steps; an
operator written in Go (`internal/controller`) creates one `Job` per step when
its turn has come, follows the jobs, and keeps the phases of the steps and of
the pipeline in the object's status. A web UI (`ui/`) builds pipelines and
watches them through the Kubernetes API.

This directory holds TLA+ models of that code, the TLC configurations that
check them on small instances, and proofs of some of what the checks show,
for instances of every size. `PROJECT.json` is the index: which definition
stands for which lines of the source, what each run checks, and for every
property a change of the code that breaks it.

    tlc -config Scheduling.cfg MCPipelineController.tla
    tlc -config PodTemplate.cfg MCPodTemplate.tla
    tlapm PipelineControllerProofs.tla
    tlc -config Builder.cfg MCPipelineBuilder.tla
    tlapm PipelineLifecycleProofs.tla
    tlapm PodTemplateProofs.tla
    tlapm PipelineBuilderProofs.tla
    tlc -config Monitor.cfg MCPipelineMonitor.tla
    tlapm PipelineMonitorProofs.tla
    tlapm StorageListProofs.tla
    tlc -config Navigation.cfg MCNavigation.tla
    tlapm NavigationProofs.tla
    tlc -config ScriptArgument.cfg MCStepEditor

## Inventory

| Part | State it keeps | Operations | Talks to | What is hard | What makes it correct |
|---|---|---|---|---|---|
| Reconcile loop (`pipeline_controller.go`, `pipeline_reconciler.go`) | none of its own between passes | `Reconcile`: finalizer, first phase, statuses, jobs' outcomes, pipeline phase, starting steps, deletion | API server (writes with a resource version), informer caches (reads), work queue | stale reads, refused writes, passes cut short between two calls, deletion in the middle of a pass | every accepted write is right for the object as stored; nothing is started for what is gone; every pipeline ends |
| Dependency rules (`pipeline_dependencies.go`) | none | `areDependenciesSatisfied`, `hasPendingFailureHandlers` | the loop | combinations of condition, operator, skipped, missing and suspended steps | a step runs only if its rule holds, and is skipped only if it cannot |
| Status (`pipeline_status.go`) | `status.steps`, `status.phase`, `status.conditions` | `updateStepStatuses`, `determineStepPhase`, `updatePipelinePhase`, `updateConditions` | job cache | jobs that vanish, old copies of jobs, order of phase and start | finished is final; the phase of the pipeline follows from those of the steps |
| Job creation (`pipeline_jobs.go`) | jobs in the cluster | `startReadySteps`, `createJobForStep`, defaults of the pod template, shared volume | API server | creation and status update are two calls | a step gets at most one job; a job's outcome is recorded |
| API types (`api/v1`) | - | defaults of `runIf`, accessors | all | - | defaults as documented |
| UI client (`ui/src/lib/k8s-client.ts`) | an abort controller per watch or stream | requests, `watchPipelines`, `streamPodLogs`, secrets | API server through the development server or a proxy | reconnects, chunk boundaries, replacing a secret without its version | no event lost over a reconnect; no edit lost |
| UI builder (`components/builder`) | the pipeline, canvas steps, selected step, view, known names | add, remove, rename, reorder, edit, change view, save | client, session storage | names that repeat or dangle, names loaded after the user typed one, the two views | what is saved is what is shown; steps have names of their own |
| UI monitors (`components/monitor`) | last answer, error, page, selection, logs | polls every 3 to 10 s, delete, copy, select | client, router, `namespace-change` events | overlapping requests that answer out of order, listeners that outlive the page | what is shown belongs to what is selected and does not go back |
| UI storage (`components/storage`) | lists, the edited secret | create, edit, delete | client | a dialog closed after an `await`, stale copies | a visit's saves do not overlap, and each ends; lists settle |
| UI router and shell (`lib/router.ts`, `main.ts`, `app-shell.ts`) | current component and parameters, the shell's path | `navigate`, `go`, back and forward, links | the browser's history | redirects, unknown paths, answers that navigate late | outlet, shell and location agree; navigation returns |
| UI tables (in the three lists) | query, sort, page, open menu | search, sort, turn, poll | the lists | pages that are no more, ellipses, slices | every row is on one page, and can be reached |
| UI graph (`lib/graph-layout.ts`) | none | `pipelineToGraph`, `layoutGraph` | ELK | rules of its own beside the operator's, layouts that finish in another order | arrows tell what the operator does |
| Manager, generated code, development server | - | wiring, copying, forwarding | - | - | not modelled |

The list of hazards, each at its line, is in `PROJECT.json` under `hazards`.

## Plan

1. **Done.** The operator: `PipelineTypes`, `PipelineDependencies`,
   `PipelineState` (pure decisions), `PipelineController` (the loop in its
   environment), `PipelineLifecycle` (what it promises), their properties,
   runs and first proofs.
2. **Done.** `PodTemplate`: the defaults applied to a step's job, with the
   shared volume, against what the documentation says of the job; theorems that
   a step's own settings are kept and that every mount resolves.
3. **Done.** `PipelineBuilder`: canvas, step editor, YAML view, name loading,
   save, against a server that others use too; theorems that what is saved is
   what is shown and that known names fit the namespace. `GraphLayout`: the graph of
   what was saved, beside the operator's rules; theorem that its arrows tell the truth.
   `StepEditor`: how a text becomes the arguments of a container.
4. **Done.** `MonitorShell`, `PipelineList`, `PipelineDetail`, `PipelineMonitor`:
   the list, the page of a pipeline with its drawer, menu and router, against a
   cluster that others change; theorems that no spinner is left behind and that
   the drawer follows the selection.
5. **Done.** `StorageList`: the pages of claims and of secrets with their dialogs,
   beside the monitor's pages; theorem that saves do not overlap.
6. **Done.** `AppRouter`, `PagedTable`, `Navigation`: the router with the history,
   the shell and the tables of the lists; theorems that the router arrives and
   returns, that the pages and the bar of a table of any size are complete, and that the
   user can turn to each of them.
7. Proofs, in this order: the finalizer theorems and type correctness (done);
   `PhaseSound` and `ReadyAgrees` (done); the safety properties of the builder, of
   the monitor and of navigation (done); `AtMostOnce`, `OutcomesReal`, the refinement of
   `PipelineLifecycle` and the rules of the scheduling, `TerminalIsFinal` (done).
   Then the tables and the defaults of the pod template (done). With them each invariant
   and each action property of the runs is a theorem. Left: the facts on `SelectSeq` that
   `FilterKeepsSteps` and `FilterKeepsRows` assume.

## The modules

`PipelineTypes` has the API types: a step is a name, a `runIf` and whether its
job starts suspended; a status is a name, a phase and whether a job's name has
been recorded. `StepName` is a constant.

`PipelineDependencies` is `pipeline_dependencies.go`: the verdict on a pending
step is `ready`, `skip` or `wait`, or `panic` where the Go code dereferences a
status that is not there. Names are looked up as `getStepStatus` does, so that
two steps of one name share the first status.

`PipelineState` has the pure decisions of a pass: the phase of a step from its
job, the phase of the pipeline from its steps, the Ready condition.

`PipelineController` puts them into the loop. Its state:

| Variable | In the code or the cluster |
|---|---|
| `server` | the `Pipeline` stored by the API server, with resource version, finalizer and deletion mark |
| `cache` | the informer's copy of it, which `r.Get` reads |
| `jobs`, `jobCache` | the jobs and the informer's copies of them |
| `pc`, `local`, `cursor`, `doomed` | where the pass is, its `pipeline` variable, the index of `startReadySteps`, the rest of `jobList` |
| `created` | how many jobs were ever created for each step (a history variable) |
| `faults` | how many outside events of each kind there have been |

Each API call of a pass is one action, named for the function that makes it
(`InitializeStepStatuses`, `UpdateStepStatuses`, `UpdatePipelinePhase`,
`SkipStep`, `CreateJobForStep`, `MarkRunning`, `DeleteJob`, ...); between two of them
anything else may happen. An update is taken if the object still has the
resource version of `local`, and refused otherwise, which ends the pass as the
returned error does. A create is refused if the name is taken. A pass on an
object that needs nothing is left out, since it changes nothing.

The environment: the job controller (`JobStarts`, `JobFinishes`, `JobSuspends`,
`JobResumes`), the garbage collector, the informers (`SyncPipeline`, `SyncJob`),
users (`TouchPipeline`, `EditSpec`, `DeletePipeline`, `SuspendJob`, `ResumeJob`,
`RemoveJob`, which is the TTL controller's, too), and `Interrupt`, which stands for
a crash and restart of the operator, a lost lease, and a call that fails
without effect.

`PipelineLifecycle` is the abstract specification: a scheduler that sees the
whole pipeline and changes it in one step, without copies, versions or passes.
`PipelineControllerProperties` states the properties and the refinement
(`ImplementsLifecycle`, with `spec`, `phase` and `steps` read off `server`).
`MCPipelineController` has the instances, `PipelineControllerProofs` and
`PipelineLifecycleProofs` the proofs; `CommonLemmas` is for facts about no module.

`PodTemplate` is the part of `pipeline_jobs.go` that makes a step's job: one
operator per Go function, from the step's job spec and the pipeline's settings
to the spec of the job. The fields of a pod are grouped by how they are merged:
`Whole` values (affinity, scheduler, ...), maps merged `Keyed` by key (labels,
node selector, ...), lists appended (`Listed`). Its only action creates the job.
`PodTemplateProperties` says what the job should be, as the cluster reads it,
`MCPodTemplate` has the inputs and `PodTemplateProofs` the proofs.

`PipelineBuilder` is the page on which pipelines are made, with the requests it
has under way and the names there are on the server.

| Variable | In the code or the cluster |
|---|---|
| `shell` | the value of the sidebar's namespace menu |
| `visit`, `visits` | which `pipeline-canvas` element is on the page (0: another page) |
| `pipeline`, `canvas` | `this.pipeline`, `this.canvasSteps` without coordinates |
| `drawer`, `drag` | `selectedStep`, `showStepEditor`, `showGlobalSettings`; `draggedStepIndex` plus one, 0 for null |
| `crashed` | an undefined card has been put on the canvas, and rendering throws from then on |
| `view` | `viewMode`, what the `rh-switch` shows, and `yamlContent` parsed: `yamlError` is set when that is `Broken` |
| `known`, `listedIn` | `existingPipelineNames` and the namespace they were listed in (history) |
| `missed` | the namespaces whose list has failed since the last answer (history); a failed list leaves `known` and `listedIn` as they are |
| `form` | whether `nameError` and `error` are set, `saving` |
| `byHand` | whether name and namespace were set by the user since the last answer, or the name came with a copy whose list failed (history) |
| `lists`, `creates` | requests of this visit for names; requests of any visit to create |
| `server` | the names of the pipelines in each namespace |

A handler runs up to its first `await` without interruption and is one action;
what follows the `await` is another (`AnswerList` and `FailList` after
`listPipelines`, `AnswerStored` and `AnswerRefused` after `createPipeline`). The
server reads its list when it answers. A new visit has a new component, so the
requests for names of the old one are dropped; its requests to create are not,
as the server stores what it is sent and `navigate` is global. The API server,
other users, the network and the switch element are modelled from how the page
uses them. `PipelineBuilderProperties`, `MCPipelineBuilder` and
`PipelineBuilderProofs` are as above.

`GraphLayout` extends `PipelineDependencies` by `pipelineToGraph` and the arrows that
the page of a pipeline draws of it. It has no state: `GraphTells` takes each
pipeline the builder has had stored, any phases of its steps, and compares what
the arrows into a step say with the verdict the operator comes to. The
operator of an edge (`and`, `or`) is not drawn and left out.

`StepEditor` looks into the job specs that `PipelineBuilder` takes as a whole: the command
and the arguments of each card's container, and the code editor of the drawer, which is
one and the same while the drawer is open, whatever step it shows. `doc` is its
document, `bound` what the template gave it last; Lit gives it another value only if
that differs from the last, so that the document may have blank lines the arguments
have not. A change, the rendering of the page and `CodeEditor.updated` come
before the next event and are one action. What CodeMirror and Lit do is modelled from how the editor uses them.

The monitor is one system in five modules: `MonitorShell` has the cluster as the
UI sees it, the menu, the outlet and the requests to delete; `PipelineList` and
`PipelineDetail` extend it by a page each, `StorageList` by the pages of claims and of secrets, which
work alike; `PipelineMonitor` puts them side by side and adds the router.

| Variable | In the code or the cluster |
|---|---|
| `server`, `terminating` | how far each pipeline has come (0: there is none), and those that wait for their finalizer |
| `shell` | the value of the sidebar's namespace menu |
| `page` | `AppRouter.currentComponent` |
| `deletes` | calls of `deletePipeline` under way, with the page that awaits each |
| `list`, `listCalls` | fields of the `pipeline-list` element; its calls of `listPipelines` |
| `detail`, `gets`, `layouts` | fields of the `pipeline-detail` element; its calls of `getPipeline` and `layoutGraph` |
| `cached` | `cachedStepName` and `cachedStatus` |
| `drawer`, `logCalls`, `eventCalls` | fields of the `step-detail` element, and its calls of `loadLogs` and `loadEvents` |
| `stored` | the claims and secrets of each name, the data of a secret as pairs |
| `storage`, `listings` | fields of the `pvc-list` or `secret-list` element; its calls of `listPVCs` or `listSecrets`, and which save ends with each |
| `dialog` | `showCreateModal`, `showViewModal`, `showEditModal`, of which one is set at most, with what is filled in |
| `busy` | `creating` and `editing` |
| `writes` | calls that create, update and delete, whether the server has taken them, and whether their page is still there |

What a handler does up to its `await` is one action (`PollList`, `PollPipeline`,
`LoadLogs`, `AskDelete`), what follows is another (`AnswerList`, `FailList`,
`AnswerPipeline`, `FinishLayout`, ...). A sequence of requests can be answered
in any order. Rendering follows each handler before the next one runs, and
changes state here: `Render` renews the cache, makes or removes the drawer, and
`Updated` asks for the logs of a job the drawer did not have. `Progress`,
`Vanish`, `OtherDeletes`, `OtherCreates`, `TakeDelete` are the cluster and other users.
On the pages of storage a dialog covers the page but can be closed at any time, by its
cross or a click beside it, and the save it sent goes on (`Create`, `SaveEdit`; `TakeWrite`,
`OtherStores` are the server and other users; `AnswerWrite`, `FailWrite` what follows the `await`).
`PipelineMonitorProperties`, `MCPipelineMonitor`, `PipelineMonitorProofs` and `StorageListProofs` are as above.

Navigation is a system in three modules: `AppRouter` has the router and what the shell
shows of it, `PagedTable` the table that the three lists have a copy of each, and
`Navigation` the links, the history and the late answers that move from one page to another.

| Variable | In the code or the browser |
|---|---|
| `history`, `at` | the browser's session history and the entry it is at |
| `pending` | the argument of a call of `navigate` that has not returned, or `NoPath` |
| `outlet` | the element in the outlet and the parameters set on it |
| `currentPath` | the field of `app-shell` by which it highlights its links |
| `table` | of the list on the page: the answer, query, sort, `currentPage`, the open menu |
| `awaited` | where answers still to come will navigate |
| `moves` | what is left of the bounds |

`navigate` and `go` call one another and nothing comes between: each call is a
step (`NavigateStep`), and what the user does waits until none is pending (`Idle`). `Go`
is `go` up to the call of `navigate`; `PopState` and `LoadNew` are what the browser does on
back, forward and a new document. Rendering another element starts its table afresh.
`NavigationProperties`, `MCNavigation` and `NavigationProofs` are as above.

### What is abstracted

- In the loop, job templates, pod templates, volumes, times and wording are left out. Of a
  job, the operator reads the first condition that is true among Complete,
  Failed and Suspended, and whether pods are active; `Job` has just those.
- The cache is read in the step of the write that follows the read. This loses
  nothing: only the reconciler reads the caches, and a cache that moves between
  the read and the write is the same as one that moves after both.
- A cache jumps to the newest version; a backlog of events that is delivered
  one by one passes through older versions, which the cache could have shown
  while it was at them.
- The list `runIf.steps` is a set; a name listed twice is counted twice on both
  sides of the comparison at `pipeline_dependencies.go:187`.
- In the builder, images, scripts, variables and all settings but the namespace
  are opaque contents that an edit replaces; a text in the YAML view is the
  pipeline it parses to; in `StepEditor`, spaces within a line, the language of the highlighting and the history of undoing are left out. The numbered names tried for a pipeline are a constant
  sequence (`Candidate`); an answer that would need a longer one does not come.
- In the monitor, a pipeline goes through a fixed sequence of `Stages`, which give
  the status and the logs of each step. Requests read the server when they are made; one that
  is read later is like one made later in another place of the queue. `listPods`
  and `getPodLogs` read at one time, and a pod that has written nothing counts
  as none. Tabs of the page are left out there, and the tables are in `PagedTable`.
- In navigation, a path is the sequence of its segments; queries and fragments are left out. A name
  is its place in the alphabet, and what a query finds is a constant (`Matched`). A table's answers
  are any of a set, as the monitor's modules say which come. `localeCompare` is the order of names.
- Of a claim only its name counts; of a secret, its data. All secrets are Opaque, the type that can be
  edited. Names are well-formed or empty, which is refused like a malformed one; keys are typed with and without blanks around
  them. Values that `btoa` cannot encode, revealing, and the storage classes are left out. Two
  requests to delete the same thing that the server has yet to take count as one. A storage list read
  when it is asked for is, again, like one read later in another place of the queue.
- In `PodTemplate`, a map's key is present or not: a key with the empty string is
  left out (an own label set to "" counts as present in the code and is kept).
  A nil pod template is one whose fields are all absent and an
  empty `defaultResources` is none: the code treats them alike, but for a
  container with only claims, which loses them to an empty `defaultResources`.
- A deleted job is gone at once, and so is a pipeline without its finalizer:
  no other finalizers, and no foreign job with the same name.
- `shouldSkipStep` always answers false and has no definition.
- One pass at a time: one worker, one leader, and the work queue never hands
  out a key twice at a time (`pipeline_controller.go:102-108`).

## The runs

The names `a`, `b`, `c` are steps. They are not interchangeable, because the
specs name them, so there is no symmetry set. `MaxFaults` bounds how often each
kind of outside event happens: once each, in the kinds a run lists. One of each
is enough for the races looked for here: each is between one event and one
pass, or between two events of different kinds and two passes. Three steps are
needed for a handler that watches two others; two are enough elsewhere, for a
predecessor and a successor.

| Run | Instance | Shows |
|---|---|---|
| `Scheduling` | 3 names, 7 specs, with steps waiting for each other and a dangling name; a conflicting edit, an interrupted pass | `SequentialAfterSuccess`, `RulesObeyed`, `PhaseSound`, `ReadyAgrees`, `TerminalIsFinal`, `ImplementsLifecycle`: stale copies, conflicts and a lost second write never make a step run early or be skipped wrongly, or the pipeline's phase, condition and completion time differ |
| `Deletion` | 2 names, 2 specs, one with twins; deletion, the spec replaced, a job that vanishes, an interrupted pass | `JobsImplyFinalizer`, `NoJobForTheGone`, and that deletion completes, although passes may panic; no second job but for one that vanished (`AtMostOnce`); no step recorded as ended but as its job did (`OutcomesReal`) |
| `Progress` | 3 names, 8 specs: 5 left to themselves, 2 with a step that starts suspended, 1 whose job is suspended while it runs; anyone may resume, or not | the loop still implements the scheduler; a pipeline leaves the phase Suspended once its jobs are resumed (`ResumeDetected`), ends if they are resumed for good (`Completes`), and every outcome is recorded (`OutcomeRecorded`) |
| `Builder` | 2 namespaces, 2 cards, a copy, 3 texts of which one does not parse and one has a step for the failure of either of two others; one visit of 5 gestures; one of 4 with a failed request and another user; two visits with 4 gestures and a failure | `InSync`, `SavedAsShown`: cards, text and pipeline agree in both views and when saved; `NamesFit`: answers in any order leave name, namespace and known names that fit, unless the list of the namespace failed; `NoSecondPipeline`, `SaveEnds`; `GraphTells`: the graph of each pipeline that was stored tells when the operator will run its steps |
| `PodTemplate` | 2 keys; each kind of field set or not, in the step and in the pipeline, beside a plain rest; 2 containers | `OwnSettingsKept`: what a step sets is in effect in its job, but for a variable the template sets too and claims without limits; `DefaultsReachEveryContainer`: where it is silent, every field of the template is in effect; `MountsResolve` |
| `Monitor` | a pipeline in each of 2 namespaces, or one; 2 steps, 3 stages; 2 polls of a kind overlap; budgets for steps looked at while they progress with a failing request, for more of them, for pipelines that go and come back, for pages opened while requests fail; a secret with one of 3 keys and 2 values, and dialogs filled in while a request fails, another user or the menu comes between, or the page is left | `NoIdleSpinner`, `DrawerCurrent`; `OneSaveAtATime`; `PagesSettle`: once nothing changes any more, lists, page and graph come to be what the server has, without an error, and so do the logs, though an error raised once they are there is shown instead of them for good; `SavingEnds` |
| `Navigation` | 9 paths, of which one redirects and two match no route; tables of up to 9 pages of 2 rows; 3 visits of links, history and reloads with a late answer; searches, sorts and turns among 2 answers, a turn among 3 | `OutletIsLocation`, `CallsComeNearer`: whenever the router rests, outlet, shell and browser agree; `PagesCover`, `BarComplete`, `RowsWithinReach`, `OnlyAnswersStrand`: no row is lost by the pages, each page can be turned to, and only an answer in which fewer rows are found leaves the user on a page that is no more without a way off it |

The kinds of fields are merged independently of each other, so that `PodTemplate`
varies one at a time; within a kind all combinations of own and default occur.

In `Builder`, five gestures are what the longest stories need: add two cards,
rename or remove one, change the view or a setting, and save. `Budgets` bounds
visits, gestures, failed requests and pipelines of others.

In `Monitor`, an answer that comes late needs two requests of a kind, which
`MaxCalls` allows; a third is like the second. Two steps and one change of each
are what it takes to show one step's answers under another's name, and one failure
what it takes to show an error over logs that came before or after it. Two dialogs are what a
save left behind and another one need.

In `Navigation`, the bar has its ellipses from eight pages on, so that nine pages have each
shape of it; the theorem is for any number. A redirect after an unknown path after a step back is three visits.

Deadlock is not checked: the user of the builder may stop, and when a pipeline has ended, or is gone, nothing is left
to do and the system stops.

### What the code does otherwise than it says

Five runs end in a counterexample to what the code, its labels or the documentation say.

- `SuspendedPredecessor`: a suspended step does not hold back the next one
  (`pipeline_dependencies.go:65` has no case for it, and the loop does start
  steps while the pipeline is Suspended), so a manual gate gates only itself.
- `LostOutcome`: an operator interrupted between `Create` and the status update
  never gets past AlreadyExists again: the step stays Pending.
- `StepNames`: the builder names a card after the number of cards
  (`pipeline-canvas.ts:595`), so that add, add, remove the first, add makes two
  `step-2`, which are saved; for the operator they share a job.
- `ListOfNamespace`: a list that is opened starts with the namespace `default`
  (`pipeline-list.ts:21`), whatever the sidebar says, and follows later choices only.
- `ScriptArgument` (2 cards, 4 commands, 5 texts, 4 changes): a text written while the step has no command, or
  one without `-c`, is cut into an argument for each line, and stays so when the command becomes `sh -c`
  (`step-editor.ts:467`). The editor then calls it one argument; the shell runs its first line.

The same models show more of the kind, for which no run is kept.

- With `operator: or` a step waits until every step it names is over
  (`pipeline_dependencies.go:117`), not until the first match, which
  `docs/conditional-execution.md:43` promises.
- The phase turns Failed before the pass has looked at the steps it could start.
  In `a; b if a fails; c if a and b fail`, `c` and `b` are handlers and are waited for;
  but in a fork, a step that waits for a success of its own is lost when another step fails first.
- A job that expires before its outcome was read leaves its step Running for
  ever (`Completes` with a `RemoveJob`).
- A step whose `runIf` names a suspended step is skipped for good
  (`RulesObeyed` with the specs of `Progress`; the cause is that of
  `SuspendedPredecessor`).
- When a job vanishes, a pass on an old copy of the pipeline creates it a second
  time, which is why `AtMostOnce` allows one more for each, and a finished step
  may be recorded as Running again (`ImplementsLifecycle` in the instance of `Deletion`).
- Where nothing can run any more (twins, whose second status stays Pending; a
  `runIf` that names no step), the pipeline keeps the phase it had, be it
  Suspended (`ResumeDetected` with `Twins` or `Dangling` among the specs).
- The list of jobs to delete comes from the cache and may miss the newest one,
  which is left to the garbage collector (`pipeline_reconciler.go:41`).
- The Ready condition is recomputed on every pass and written only when the
  phase changes (`pipeline_reconciler.go:223`), so the suspended steps it lists
  may be out of date.

Of the builder, the model shows besides:

- A change of the namespace before there is a card, or a late first answer,
  replaces a name the user has typed, although the comment at
  `pipeline-canvas.ts:457` speaks of a default name only. When a copy's answer arrives,
  cards added meanwhile are replaced.
- After two quick changes of the namespace the answers may come in the other order; name,
  namespace and known names then all fit each other and the older choice.
- When the list of a namespace fails, the names known stay those of the namespace listed before
  (`pipeline-canvas.ts:562`). A name typed then is checked against them and may be called one that "already
  exists in this namespace" (`pipeline-canvas.ts:574`), where it does not; one that does exist there is found out by the server only.
  `NamesFit` makes an exception of this case, and of a namespace that is set by hand or with a text, for which no list is asked for.
- The answer to a save navigates wherever the user is by then
  (`pipeline-canvas.ts:837`), and a new pipeline begun there is lost.
- Renaming a step in the editor keeps the old name selected, so that the editor
  loses its step with the first key (`pipeline-canvas.ts:1152`); renaming or removing
  leaves the `runIf` of other steps naming what is no more, for which the operator waits for ever.
- When a text does not parse, the page stays in the YAML view but the switch has
  turned; turning it again writes the text anew and the edit is lost.
- A copy whose answer arrives while a card is dragged may leave the index of the
  drag behind the last card; the next `handleDragOver` inserts an undefined one.
- A space behind `sh -c` in the command field is an empty word of the command (`step-editor.ts:471`): the
  command does not end in `-c` any more, and the shell is given an empty script.
- The language chosen for the code editor lasts until the next key: every change makes the step another
  object, upon which the language is guessed anew (`step-editor.ts:381`) and the editor made anew, without focus and history.
- Where it was not, undoing after another step was selected brings back the text of the step before, which
  becomes the script of the one that is shown (`code-editor.ts:269`).
- Blank lines typed between arguments go with the next word, as the text is what the arguments give joined (`step-editor.ts:513`).
- A backoff limit of 0 cannot be entered and becomes 6 (`parseInt(...) || 6` in `step-editor.ts`).
- The name field is shown in the YAML view and has no effect there; `nameError`
  stays when a generated name replaces the one it was about.

Of the monitor:

- An answer that comes after a younger one shows an older state, another
  namespace's list, or an error that is over, until the next poll. `PagesSettle`
  says only that this does not last.
- The drawer's status is renewed when the phase, the job, or how it ended changes
  (`pipeline-detail.ts:707`), "key fields that would affect the UI"; the start time affects the
  duration and is not among them, so that a dash may stay until the job ends.
- Logs of the previous step stay in the drawer when the next one has no job, and
  late logs come up under the next one's heading; with a job, the next poll replaces them.
  Late events are never replaced (`step-detail.ts:335` runs once for each job).
- An error of the logs that is raised once the drawer has the latest logs stays: each later answer has the same logs, and only
  logs that differ clear it (`step-detail.ts:310`, "Clear error on successful update"). It is shown instead of the logs
  (`step-detail.ts:476`) until the drawer finds another job. One failed poll after a job's end is enough. An error over a job without pods stays likewise. `PagesSettle`
  says that the drawer *has* the logs in the end, and that an error from before they came goes; not that they are shown.
- The answer to a deletion on the page of a pipeline goes to the list from
  wherever the user is (`pipeline-detail.ts:508`).
- The listeners of lists that are gone stay (`pipeline-list.ts:428`), and each loads
  a list nobody sees at every choice of a namespace.
- The answer to a save closes the dialog of its kind that is open by then, with what was
  typed into it, even if it is for another secret (`secret-list.ts:956`); a save that fails shows its error there.
- A secret is replaced as a whole, without its resource version
  (`k8s-client.ts:529`), by the pairs the dialog was opened with: what others stored since is lost.
- A list of claims or secrets that could not be read is shown as an empty one
  (`k8s-client.ts:364`, `k8s-client.ts:463`), so that the pages' own error is never shown.
- The pages of storage start with the namespace `default`, as the list of pipelines does.
- An arrow comes from the previous step only, although a step without `runIf` waits for all that are before it
  (`graph-layout.ts:61`); a `runIf` that names a step that is no more has no arrow for it, and the step never runs.
  All arrows of a `runIf` look alike, whether all of them have to arrive or one. `GraphTells` asks no more of them.
- Two steps of one name are two nodes of one id for the layout
  (`graph-layout.ts:83`), which refuses them: the page then shows an error.

Of navigation:

- The page of a table is set by clicks and searches only. When an answer brings fewer rows, it may be
  a page that is no more; it shows no rows (`pipeline-list.ts:545`), and if all rows fit on one page, there is
  no bar to leave it by (`Stranded`).
- `/` redirects by a new entry of the history, so that going back from `/pipelines` leads
  to `/` and from there to `/pipelines` again.
- `/builder/:namespace/:name` is a route (`main.ts`), and opens an empty builder.
- The router takes clicks on links from `document`; the links of an empty list are inside a component,
  whose shadow root hides them, and load the page anew, with the sidebar's namespace lost.
- The link that skips to the content changes the location's fragment, upon which the router renders the page
  anew, with everything typed in it lost.
- A name with a dot in it, in a path that is opened, is taken for a file by the server.
- The open menu of a row is known by the pipeline's name (`pipeline-list.ts:598`): after a change of the namespace
  it may be open on a row of the same name, and its Delete deletes that one.

So does the reading of `pipeline_jobs.go` that `PodTemplate` rests on:

- A variable that both a step and the pod template set has the template's value,
  as template variables are appended and the last one of a name counts
  (`pipeline_jobs.go:250`), although steps "can override pod template defaults"
  (`docs/pod-templates.md:216`).
- A container that sets claims, and neither limits nor requests, has all its resources replaced by the default ones
  (`pipeline_jobs.go:258`), although these are for "containers without explicit resources" (`docs/pod-templates.md:79`).
- `OwnSettingsKept` leaves these two out: it asks that an own variable is in effect where the template has none of its name,
  and that own resources are kept where limits or requests are among them, or the pipeline has no default. It does not ask where in a list
  the own entries stand, so that it would hold of a template whose variables came first.
- Init containers get neither defaults nor the shared volume.
- A shared volume named like a volume of the step gives the job two volumes of one
  name, which the API server refuses.

### Fairness

`FairSpec` assumes weak fairness of the reconciler's steps (a pass that has
begun goes on, and the requeue after ten seconds, the retries after an error
and the watches start another as long as there is something to do), of each
informer (a watch delivers), and of the job controller and the garbage collector
for each job (a pod that runs ends). Nothing is assumed of users, of the TTL
controller or of failures. `Interrupt` is bounded, as an operator that crashes
in every pass makes no progress.

In the builder, `FairSpec` assumes that the server takes up each request to create and
that its answer arrives, as long as the connection holds (`LoseCreate` ends the
request too): `fetch` settles either way. Nothing is assumed of the user.

In the monitor, `FairSpec` assumes that the timers of the open page and drawer go off, and that the
request asked for first is answered or fails, sooner or later, as is the layout: a
promise settles, and `setInterval` fires while the page is there. Failures are
bounded by the budget: a server that always fails shows errors only. A request to create
and one to edit end each, whatever becomes of the other. Nothing is
assumed of the operator, of users, or of requests to delete.

## What is proved

`PipelineControllerProofs`, for every finite set of names, every set of
non-empty specs and every number of outside events of every kind:

- `TypeCorrect`: `Spec => []TypeOK`. The lemmas say what each helper returns;
  one step per action.
- `FinalizerGuardsJobs`: `Spec => []JobsImplyFinalizer`,
- `NothingForTheGone`: `Spec => NoJobForTheGone`,
- `RunsAtMostOnce`: `Spec => []AtMostOnce`, and
- `OutcomesAreReal`: `Spec => []OutcomesReal`.

The second and the third rest on `DeletionInv`. `JobsImplyFinalizer` alone is not inductive: a pass creates jobs on
the strength of the finalizer in its copy. So the invariant says what the
copies say of the object (`FinalizerKnown`: a finalizer once read is there as
long as the object), that a copy at the server's version is the object
(`CopiesTrail`), and that of a gone object the cache shows one on its way out
or without a finalizer, so that no pass that could still create a job is under way or
can begin (`GoneForGood`). That the finalizer is removed only by a pass whose copy is
marked as deleted, while the cache can no longer show an older one, is what the
ordering of `local.rv`, `cache.rv` and `server.rv` is for. The proof treats all
status writes alike (`StatusWrite`), and all steps that change only the pass
(`QuietStep`).

`RunsAtMostOnce` and `OutcomesAreReal` need to know what a pass works on. `CopyInv` says it: a copy at
the resource version of the object, which a write needs, agrees with it in all a write carries over, but for a job
that was created and not yet recorded (`AsStored`); a status names its job from the moment it is recorded
(`JobsRecorded`); and each step of a pass finds what the one before it left (`PassOrder`). Once a pass
deletes jobs, or the object is gone, no job is created any more; until then a job that was created is there, or a
user removed it (`OnceInv`). This is what makes the refusal of a name that is taken enough: neither
the copy of the pipeline nor that of the jobs says whether a job was created. `OutcomeInv` says of the three copies of a status
(`Backed`) that a job it names was created and that an outcome it records is that of its job, and of the copy of a job
that an outcome, once seen, is final. `OutcomesReal` follows from the two together: the job
is still there.

`PipelineLifecycleProofs`:

- `ReadyAlwaysAgrees`: `Spec => []ReadyAgrees`,
- `TerminalPipelineIsOver`: `Spec => TerminalIsFinal`, and, if no spec is edited (`NoEdits`),
- `PhasesAreSound`: `Spec => []PhaseSound`, and, if moreover no job is removed (`NoRemovals`),
- `OperatorIsScheduler`: `Spec => ImplementsLifecycle`, and, if moreover no two steps of a spec have one name (`UniqueNames`),
- `ConditionsHold`: `Spec => []RunIfHolds`, and, if moreover no job is ever suspended (`NoSuspensions`),
- `RulesAreObeyed`: `Spec => []RulesObeyed`, and
- `SequenceIsKept`: `Spec => []SequentialAfterSuccess`.

The hypotheses are conditions on `MaxFaults` and `Specs`, and each is needed. An edit changes
the rules by which steps have already run, and a handler added to a pipeline that has failed is one that may still run.
A job that was removed is created again by a pass that reads an old copy, and the outcome of the second may not be that of the first.
Of two steps of one name the second is judged by the status of the first, and the run `StepNames` shows
that the builder makes such steps. The run `SuspendedPredecessor` shows what a suspended step lets through.
The instance of `Scheduling` satisfies all of them.

A phase is computed from a copy, and is right for that copy (`NewPhaseFits`). A pass writes the status
only of a pipeline that was not over when it was read (`StartingIsOpen`), and by `CopyInv` is not over now, so that a
terminal phase stays as it was written (`TerminalKept`), together with the steps it was computed from
(`TerminalBegins`). With a spec that is the same in all copies (`OneSpec`), `PhaseSound` follows.
`ReadyInv` says of the copies, too, that their condition fits their phase, since a pass may write one
that it recomputed in memory with a later change, and that a pass goes on only with a phase that is not terminal, so that a
completion time is never set twice.

For the refinement, `Alike` says on what the decisions of a pass depend: the spec, and the names and phases of the statuses.
A copy at the object's version is alike to the object (`ViewAlike`), so that `AreDependenciesSatisfied` and `NextPipelinePhase`
give the same for both, and `ServerMoves` finds the step of `PipelineLifecycle` for each write that is accepted. That a
refreshed status is one the abstract step may become (`RefreshSucceeds`) is where `OutcomeInv` is needed: a finished step is
looked up again, and must not change. `SchedulerInv` collects what is needed for that, with `NamesFit`, that statuses belong to the
steps of the spec in their order.

A rule is decided on a copy that may be old, and a job is created without a resource version, so that the
refinement does not say when jobs are created. But what is recorded only moves on: a list of statuses keeps its names, and
a step that is over keeps its phase (`Follows`); every copy is followed by what is stored (`TrailInv`). A verdict rests on
steps that are over (`ConditionalVerdict`, `SequentialVerdict`), and so is as right of the object as of the copy.
That is why `RunIfHolds`, `SkipJustified` and `SequentialAfterSuccess` are inductive with `SchedulerInv` (`RulesInv`).

`TerminalPipelineIsOver` is about the passes that began on a copy from before the pipeline's end. As to its status, `TerminalKept`
is enough. For its jobs, `SettledInv` says that such a pass, whose copy may still show steps that run or wait, cannot come to start one:
a copy that is not over has no statuses, or is one that a refresh turns into the final list (`SeenAs`), since the jobs are all there
and their outcomes are in the cache; the phase is then computed anew from the final list and is terminal, which ends the pass.
`SupportInv` says that the cache was not further behind when the last write was made.

`PodTemplateProofs`, for every set of keys, values, pipelines and steps:

- `OwnSettingsWin`: `Spec => []OwnSettingsKept`,
- `DefaultsReach`: `Spec => []DefaultsReachEveryContainer`, and
- `MountsAlwaysResolve`: `Spec => []MountsResolve`.

They follow from the invariant that a created job is `JobForStep` of its inputs.
Each function of the chain has a lemma that says which fields it keeps and
what it makes of the others, and the lemmas are composed stage by stage. For
`DefaultsReach`, `EffectiveOfConcat` says how the kubelet reads the template's variables
behind the step's own: the value of a name is that of its last place (`LastExists`), which
is in the template's list when the step's has none. `EffectiveOfOwn` is its counterpart for
`OwnSettingsWin`: a name the template's list does not have keeps its place in the step's. That two lists in a row have the
entries of both (`ConcatHas`) gives the rest, and resources with nothing set are replaced, if only by
as empty ones (`DefaultResourcesFill`). In
`MountsResolve` the step's mounts must resolve by themselves, as the API server
would demand of the step's job without a shared volume.

`PipelineBuilderProofs`, for every set of names, copies, texts and namespaces and
any number of visits and gestures:

- `CanvasIsPipeline`: `Spec => []InSync`,
- `NamesAreOfNamespace`: `Spec => []NamesOfNamespace`,
- `GeneratedNamesAreFree`: `Spec => []GeneratedNameFree`, together `NamesAlwaysFit`: `Spec => []NamesFit`,
- `OnePipelinePerSave`: `Spec => []NoSecondPipeline`,
- `SavesWhatIsShown`: `Spec => SavedAsShown`, and, assuming `FilterKeepsSteps`,
- `BuilderTypeOK`: `Spec => []TypeOK`, and
- `GraphAlwaysTells`: `Spec => []GraphTells`.

There are two inductive invariants. `WorkInv` says of the pipeline, the text and
the requests for names what the first three need: above all that a request
asks for the namespace its answer will leave in the pipeline (`Sound`), which
is why the order of the answers does not matter; and that, while the namespace is not the user's, its names are known, or
its list has failed, or is due, or a copy is that brings another (`NamesDue`). A failed list is the step that needs this: it leaves the
known names alone, and the other requests as they were (`OthersStay`). `SavesInv` says that a visit
has at most one request to create, that `saving` is set as long as there is one,
and that no request is of a visit to come. `SavesWhatIsShown` uses both.
`GraphAlwaysTells` follows from the types: the lemmas say, of any sequence of steps with names of
their own and any phases, which arrows lead to a step (`ArrowsAreEdges`) and what the operator makes of
them (`SequentialTells`, `ConditionalTells`). `FilterKeepsSteps` says that a sequence of cards
without those of a name is one: `SelectSeq` is defined by recursion, of which the provers know nothing.

`PipelineMonitorProofs` and `StorageListProofs`, for any pipelines, stages, texts, claims, secrets
and budgets and any number of overlapping requests:

- `DrawerFollowsSelection`: `Spec => []DrawerCurrent`,
- `MonitorTypes`: `Spec => []TypeOK`,
- `SpinnerHasRequest`: `Spec => []NoIdleSpinner`, and
- `SavesDoNotOverlap`: `Spec => []OneSaveAtATime`.

The inductive invariant `PagesInv` adds what ties the parts of the pipelines' pages together: requests
are there only for the page that is open, the drawer only on a page that shows its
pipeline with a step selected, and a page that is not open waits for no answer
to a deletion. `RenderSound` is the centre: from whatever the cache and the drawer were,
rendering makes them fit the page. Every handler of the page ends with it.
`StorageInv` says that dialogs and awaited requests are of a page of storage, and of saves (`SavesApart`)
that each is one request or, after its answer, one list, that an operation has one of the two at most, and that it is
busy while it has. Without the lists this is not inductive: the end of one ends the disabling of
the button, and there must be no younger save by then.

`NavigationProofs`, for any paths, rows, searches, page sizes and budgets:

- `NavigationTypeOK`: `Spec => []TypeOK`,
- `RouterArrives`: `Spec => []OutletIsLocation`,
- `RouterReturns`: `Spec => CallsComeNearer`, and, assuming `FilterKeepsRows`,
- `BarsAreComplete`: `Spec => []BarComplete`, from `BarIsComplete`, which says what
  `PaginationRange` returns for any total and any page,
- `PagesAlwaysCover`: `Spec => []PagesCover`,
- `EachPageWithinReach`: `Spec => []RowsWithinReach`, and
- `OnlyFewerRowsStrand`: `Spec => OnlyAnswersStrand`.

The router's invariant says that while a call is pending the browser is already where it leads, and that the path a
redirect leads to has a component. The bar is cut into its parts, first page, ellipsis, span, ellipsis, last page, whose
lengths `LongBarOf` adds up. `PageCount` is what the division makes of a number of rows: enough pages, none of
them empty. From it `PagesCoverRows` finds the page of each row, for sequences of anything, and `FewerPages` that fewer
pages need fewer rows. The arrows lead from each page to its neighbours, and the bar, complete also at a page that is no
more, leads from there to the first: a set of pages that the buttons do not leave has no least page missing above one it
has, and no last one below (`NeighboursReachAll`). `TableStep` is what the actions have in common for a table: only an
answer changes its rows and leaves its page. `FilterKeepsRows` says that what is found of the rows of a table is a
sequence of rows, and is assumed for the reason that `FilterKeepsSteps` is.

The assumptions are those of the modules: `StepNameAssumption` (finitely many
names), `SpecsAssumption` (specs are non-empty sequences of steps, as the schema
demands), `FaultsAssumption`; `ValueAssumption` (the names the code itself uses
are values, the empty string is not), `InputsAssumption` (inputs have their types);
`NamesAssumption` and `TextsAssumption` (names and texts have their types),
`CopiesAssumption` (a stored pipeline has a step, as the schema demands), `BoundsAssumption`;
`KeyAssumption` (the namespace `default` is one), `StagesAssumption`, `StoredAssumption`, `BudgetAssumption`;
`TypedAssumption` (the empty pair is one, and what is typed can be trimmed), `PairsAssumption`, `ThingsAssumption`;
`PathAssumption` (the root and what it redirects to are paths), `LinkAssumption` (so are the links), `NameAssumption`,
`QueryAssumption`, `AnswersAssumption`, `PageSizeAssumption`, `NameOfAssumption`.

## What is only checked

Liveness under fairness (`Completes`, `OutcomeRecorded`, `ResumeDetected`, `DeletionCompletes`, `SaveEnds`,
`PagesSettle`, `SavingEnds`) is out of the proof system's reach, and checked on the instances above. So are
the properties of the runs that end in a violation, which no theorem could state. Everything else that a run checks
is a theorem, of which those named above assume `FilterKeepsSteps` or `FilterKeepsRows`: the recursion behind
`SelectSeq` is TLC's part.

## What is not modelled

The parts listed as `not_modelled` in `PROJECT.json`: the client's watches and its stream of logs, which have no callers, like `wouldCreateCycle`; where ELK places the nodes; of the builder, the lists of secrets and claims that its drawers load; the manager's wiring and the development server,
which only pass things on; generated code.
