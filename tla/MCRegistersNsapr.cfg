CONSTANTS
  NCores = 2
  Addrs <- MCNsaprAddrs
  Values = {0, 3}
  Width = 2
  MaxWrites = 2
SPECIFICATION RegSpec
PROPERTY
  RegistersSeparate
CHECK_DEADLOCK FALSE
