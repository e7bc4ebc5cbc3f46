CONSTANTS
  NCores = 2
  GuestRegs <- MCGuestRegs
  GuestPcs <- MCGuestPcs
  RegAddrs <- MCRegAddrs
  RandomWords <- MCRandomWords
  Width = 64
SPECIFICATION ExSpec
INVARIANTS
  BootRegisters
PROPERTY
  CallerResumes
CHECK_DEADLOCK FALSE
