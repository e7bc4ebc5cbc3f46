CONSTANTS
  NCores = 2
  e1 = e1
  Entries <- MCEntries
  SliceInsns = 9
  Reset = Reset
  Running = Running
  SgirWords <- MCWords
  MaxSent = 3
  Attentive = TRUE
SPECIFICATION EmuSpec
INVARIANTS
  NothingMissed
PROPERTY
  EverySgiAcked
CHECK_DEADLOCK FALSE
