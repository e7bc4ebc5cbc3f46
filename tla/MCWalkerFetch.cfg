CONSTANTS
  NCores = 2
  DRAM_SIZE = 6
  E = 2
  Page = 2
  Memories <- MCMemories
  Garbage <- MCGarbage
  Ttbrs <- MCTtbrs
  Checks <- MCChecks
SPECIFICATION WalkSpec
INVARIANT
  FetchReported
CHECK_DEADLOCK FALSE
