CONSTANTS
  NoPath = NoPath
  NoMenu = NoMenu
  Segment <- Segments
  Path <- Paths
  Namespace = {"team"}
  Name <- Names
  Query <- Searches
  Matched <- FoundRows
  Answers <- Bring
  PageSize = 2
  NameOf <- Named
  Budgets <- Scenarios

SPECIFICATION Spec

INVARIANTS
  TypeOK
  OutletIsLocation
  PagesCover
  BarComplete
  RowsWithinReach

PROPERTIES
  CallsComeNearer
  OnlyAnswersStrand

\* The user may stop.
CHECK_DEADLOCK FALSE
