CONSTANTS
  NCores = 2
  e1 = e1
  Entries <- MCEntries
  SliceInsns = 3
  Reset = Reset
  Running = Running
  SgirWords <- MCWords
  MaxSent = 2
  Attentive = FALSE
SPECIFICATION EmuSpec
INVARIANTS
  EmuTypeOK
  AckedInOrder
PROPERTY
  EverySgiShown
CHECK_DEADLOCK FALSE
