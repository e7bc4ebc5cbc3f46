CONSTANTS
  NCores = 2
  SgirWords <- MCWords
  MaxSent = 3
SPECIFICATION GicSpec
INVARIANTS
  GicTypeOK
  QueueIsUnsentTail
  IarNamesLastHanded
  NoIrqStorm
PROPERTIES
  MailboxKept
  GoesQuiet
