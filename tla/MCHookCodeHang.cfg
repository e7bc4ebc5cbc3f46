CONSTANTS
  NCores = 2
  Addrs <- MCAddrs
  Insn <- MCInsn
  Succ <- MCSuccNoSpin
  Starts <- MCStarts
  SliceInsns = 3
  NoAddr = NoAddr
SPECIFICATION HookSafety
INVARIANT
  HangIsReal
CHECK_DEADLOCK FALSE
