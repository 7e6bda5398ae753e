SPECIFICATION FairSpec
CONSTANTS
  e1 = e1
  e2 = e2
  None = None
  Executions = {e1, e2}
  MaxFailures = 2
  MaxCrashes = 1
INVARIANTS
  VerdictIsThePrograms
  CleanedUp
PROPERTIES
  EveryExecutionEnds
\* The runner rests when every request of the instance is answered.
CHECK_DEADLOCK FALSE
