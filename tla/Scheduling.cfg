CONSTANTS
  a = a
  b = b
  c = c
  StepName <- ABC
  Specs <- Admitted
  MaxFaults <- Scheduling

SPECIFICATION Spec

INVARIANTS
  TypeOK
  ReadyAgrees
  SequentialAfterSuccess
  RulesObeyed
  PhaseSound

PROPERTIES
  TerminalIsFinal
  ImplementsLifecycle

\* A pipeline ends, and then the operator has nothing left to do.
CHECK_DEADLOCK FALSE
