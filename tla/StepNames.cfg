CONSTANTS
  StepName <- StepNames
  PipelineName <- Names
  Namespace <- Namespaces
  Content <- Plain
  Unset = Unset
  Broken = Broken
  None = None
  ValidPipelineName <- ValidNames
  ValidStepName <- ValidSteps
  Candidate <- Tried
  StepNumbered <- Numbered
  Copies <- NoCopies
  Texts <- NoTexts
  TypedName <- Typed
  TypedStepName <- NoNames
  Stored <- Taken
  MaxSteps = 2
  Budgets <- Five

SPECIFICATION Spec

INVARIANT
  StepNamesUnique

CHECK_DEADLOCK FALSE
