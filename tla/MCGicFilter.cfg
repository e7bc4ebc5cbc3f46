CONSTANTS
  NCores = 2
  SgirWords <- MCFilterWords
  MaxSent = 3
SPECIFICATION GicSafety
PROPERTY
  FilterHonoured
