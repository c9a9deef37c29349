CONSTANTS
  a = a
  b = b
  c = c
  StepName <- AB
  Specs <- Suspending
  MaxFaults <- Undisturbed

SPECIFICATION Spec

INVARIANTS
  SequentialAfterSuccess

\* A pipeline ends, and then the operator has nothing left to do.
CHECK_DEADLOCK FALSE
