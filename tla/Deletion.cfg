CONSTANTS
  a = a
  b = b
  c = c
  StepName <- AB
  Specs <- Edited
  MaxFaults <- Editing

SPECIFICATION FairSpec

INVARIANTS
  AtMostOnce
  OutcomesReal
  JobsImplyFinalizer

PROPERTIES
  NoJobForTheGone
  DeletionCompletes

\* A pipeline ends, and then the operator has nothing left to do.
CHECK_DEADLOCK FALSE
