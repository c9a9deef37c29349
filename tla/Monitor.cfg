CONSTANTS
  StepName <- Steps
  Namespace <- Namespaces
  Key <- Keys
  Stages <- Chain
  Text <- Texts
  NoPod = NoPod
  None = None
  Stored <- TwoOrOne
  MaxCalls = 2
  Budgets <- Some
  Typed <- Typing
  Value <- Values
  Trim <- Trimmed
  MaxPairs = 2
  Things <- OneSecret
  Foreign <- Replacements

SPECIFICATION FairSpec

INVARIANTS
  TypeOK
  NoIdleSpinner
  DrawerCurrent
  OneSaveAtATime

PROPERTIES
  PagesSettle
  SavingEnds

\* The user may stop.
CHECK_DEADLOCK FALSE
