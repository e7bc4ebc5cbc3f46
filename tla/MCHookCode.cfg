CONSTANTS
  NCores = 3
  Addrs <- MCAddrs
  Insn <- MCInsn
  Succ <- MCSuccWfes
  Starts <- MCStarts
  SliceInsns = 3
  NoAddr = NoAddr
SPECIFICATION HookSpec
INVARIANTS
  HookTypeOK
  OwnHangIsReal
PROPERTIES
  WfeEndsSlice
  SpinIsCaught
  CoresProgress
CHECK_DEADLOCK FALSE
