CONSTANTS
  NCores = 2
  Addrs <- MCAddrs
  Values = {0, 3}
  Width = 2
  MaxWrites = 2
  Uarts = {1, 4}
  SentWords <- MCWords
  MaxSent = 4
  Second = 3
  Wrap = 5
  Delays = {1, 3}
  Gap = 2
  Shifts <- MCShifts
SPECIFICATION DevSpec
INVARIANTS
  DevTypeOK
  OutputExact
PROPERTIES
  RegistersSeparate
  WritesReadBack
  DriverGetsThrough
  NeverEarly
  DelayEnds
CHECK_DEADLOCK FALSE
