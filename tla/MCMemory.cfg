CONSTANTS
  NCores = 2
  e1 = e1
  e2 = e2
  Entries <- MCEntries
  SliceInsns = 2
  Reset = Reset
  Running = Running
  DRAM_SIZE = 1048576
  FileSizes <- MCFileSizes
  E = 2
  Page = 2
  Memories <- MCMemories
  Garbage <- MCGarbage
  Ttbrs <- MCTtbrs
  Checks <- MCChecks
SPECIFICATION MemSpec
INVARIANTS
  MemTypeOK
  MapsAreBacked
  MapIsWhole
  ImagesInPlace
  TablesAsGuestSees
  PageIsFound
PROPERTIES
  EmulatorExits
  WalkEnds
CHECK_DEADLOCK FALSE
