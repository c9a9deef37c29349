CONSTANTS
  StepName <- StepNames
  PipelineName <- Names
  Namespace <- Namespaces
  Content <- Edits
  Unset = Unset
  Broken = Broken
  None = None
  ValidPipelineName <- ValidNames
  ValidStepName <- ValidSteps
  Candidate <- Tried
  StepNumbered <- Numbered
  Copies <- TheCopy
  Texts <- AllTexts
  TypedName <- Typed
  TypedStepName <- TypedSteps
  Stored <- Taken
  MaxSteps = 2
  Budgets <- Some

SPECIFICATION FairSpec

INVARIANTS
  TypeOK
  InSync
  NoSecondPipeline
  NamesFit
  GraphTells

PROPERTIES
  SavedAsShown
  SaveEnds

\* The user may stop.
CHECK_DEADLOCK FALSE
