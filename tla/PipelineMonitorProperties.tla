---------------------- MODULE PipelineMonitorProperties ----------------------
(***************************************************************************)
(* What the monitor promises.                                              *)
(***************************************************************************)
EXTENDS PipelineMonitor

TypeOK ==
  /\ server \in [Key -> Stage] /\ terminating \subseteq Key
  /\ shell \in Namespace /\ page \in Pages /\ deletes \subseteq Deletion
  /\ events \in [EventKind -> Nat]
  /\ list \in ListPage /\ listCalls \in Seq([Key -> Stage])
  /\ detail \in DetailPage /\ gets \in Seq(Stage) /\ layouts \in Seq(Stage)
  /\ cached \in Cached /\ drawer \in Drawer
  /\ logCalls \in Seq(LogRequest) /\ eventCalls \subseteq StepName
  /\ stored \in [StorageKind -> [Key -> Thing]] /\ storage \in StoragePage
  /\ listings \in Seq(Listing) /\ dialog \in Dialog
  /\ busy \in [{"create", "edit"} -> BOOLEAN] /\ writes \subseteq Write

----------------------------------------------------------------------------
\* A spinner means that something is under way: none stays for good, however
\* answers overtake each other, fail, or find another step selected.
NoIdleSpinner ==
  /\ OnList /\ list.loading => listCalls # <<>>
  /\ OnDetail /\ detail.loading => gets # <<>> \/ layouts # <<>>
  /\ drawer.open /\ drawer.loading => logCalls # <<>>
  /\ OnStorage /\ storage.loading => listings # <<>>

\* The drawer has the status of the step that is selected as the pipeline
\* beside it shows it, and follows that step's job, although it is given the
\* cached one (renderStepDetails).
DrawerCurrent ==
  drawer.open =>
    LET status == StatusOf(detail.pipeline, detail.selected)
    IN  /\ cached.name = detail.selected
        /\ ~ HasStatusChanged(cached.status, status)
        /\ drawer.job = JobOf(detail.selected, status)

\* A visit has one save of a kind under way at most, although dialogs are
\* closed and opened meanwhile: saves cannot overtake each other, and the
\* later of two is the one that stays (createSecret, saveEditSecret,
\* createPVC).
OneSaveAtATime ==
  \A v, w \in writes : v.here /\ w.here /\ v.op = w.op /\ v.op # "delete" => v = w

\* The list comes to show what there is, once nothing changes any more,
\* whatever answers came late or failed: the namespace it was told last, the
\* pipelines of that namespace, and no error (loadPipelines).
ListSettles ==
  <>[]OnList => <>[](/\ list.pipelines = ListPipelines(list.namespace)
                     /\ ~ list.loading /\ ~ list.error)

\* So does the page of a pipeline: its status and the graph beside it are
\* those of the server, or the page says that there is no such pipeline.
DetailSettles ==
  <>[]OnDetail => <>[](/\ OnDetail /\ ~ detail.loading
                       /\ IF server[detail.key] = Gone THEN detail.error
                          ELSE /\ ~ detail.error /\ detail.pipeline = server[detail.key]
                               /\ detail.graph = detail.pipeline)

\* The drawer is on the logs of a job, and these are all there are.
WatchesLogs(logs) ==
  /\ drawer.open /\ drawer.job # None /\ drawer.tab = "logs"
  /\ LogsOf(server[detail.key], drawer.job) = logs

\* The drawer comes to have the logs of the job it is on, if there are any,
\* even if it was moved from step to step while others were under way, and
\* an error from before they came goes ("Clear error on successful update",
\* step-detail.ts:312).  It does not always come to show them: an error
\* that is raised once it has them is cleared by no later poll, as they do
\* not change any more (step-detail.ts:310-316), and is shown in their
\* place (step-detail.ts:476).
LogsSettle ==
  \A logs \in Text :
    /\ <>[]WatchesLogs(logs) => <>[](drawer.logs = logs /\ ~ drawer.loading)
    /\ WatchesLogs(logs) /\ drawer.error /\ drawer.logs # logs
         ~> ~ WatchesLogs(logs) \/ ~ drawer.error

\* The pages of storage come to show what there is, though a list that fails
\* is shown as empty (loadSecrets, loadPVCs).
StorageSettles ==
  <>[]OnStorage => <>[](OnStorage /\ storage.items = ListThings(page, storage.namespace) /\ ~ storage.loading)

\* What a page has comes to be what the server has, in spite of answers
\* that overtake one another or fail and of late ones from before the user
\* went elsewhere, and no error covers it, but for that of LogsSettle (the
\* polls of pipeline-list.ts:436, pipeline-detail.ts:467,
\* step-detail.ts:305, pvc-list.ts:480 and secret-list.ts:619).
PagesSettle == ListSettles /\ DetailSettles /\ LogsSettle /\ StorageSettles

\* The button that saves is enabled again, whatever became of the request,
\* the dialog and the list read after it (the "finally" of createSecret,
\* saveEditSecret and createPVC).
SavingEnds == \A op \in {"create", "edit"} : busy[op] ~> ~ busy[op]

\* "Lists all pipelines in the selected namespace" (docs/ui.md:49).
ListOfNamespace == <>[]OnList => <>[](list.pipelines = ListPipelines(shell))
=============================================================================
