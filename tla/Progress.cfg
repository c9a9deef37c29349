CONSTANTS
  a = a
  b = b
  c = c
  StepName <- ABC
  Specs <- Progressing
  MaxFaults <- Pausing

SPECIFICATION FairSpec

PROPERTIES
  ImplementsLifecycle
  ResumeDetected
  Completes
  OutcomeRecorded

\* A pipeline ends, and then the operator has nothing left to do.
CHECK_DEADLOCK FALSE
