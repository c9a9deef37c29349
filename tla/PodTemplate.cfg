CONSTANTS
  Key <- Keys
  Value <- Values
  Pipelines <- AllPipelines
  Steps <- AllSteps

SPECIFICATION Spec

INVARIANTS
  OwnSettingsKept
  DefaultsReachEveryContainer
  MountsResolve

\* Each behaviour creates one job and stops.
CHECK_DEADLOCK FALSE
