CONSTANTS
  a = a
  b = b
  c = c
  StepName <- AB
  Specs <- Specs2
  MaxFaults <- Interrupted

SPECIFICATION FairSpec

PROPERTIES
  OutcomeRecorded

\* A pipeline ends, and then the operator has nothing left to do.
CHECK_DEADLOCK FALSE
