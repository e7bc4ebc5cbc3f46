CONSTANTS
  NCores = 4
  e1 = e1
  e2 = e2
  Entries <- MCEntries
  SliceInsns = 3
  Reset = Reset
  Running = Running
SPECIFICATION SchedSpec
INVARIANTS
  SchedTypeOK
  MappingExclusive
  StartsWhereTold
  FairTurns
PROPERTIES
  QuitEndsSlices
  RunnableRuns
  QuitStops
CHECK_DEADLOCK FALSE
