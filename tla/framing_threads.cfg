SPECIFICATION Spec
CONSTANTS
  Thread = {t1, t2}
  Base = 2
  HeaderLen = 2
  Payload <- TextPayloads
  Encrypted = FALSE
  Room = 4
  MaxFrames = 1
CHECK_DEADLOCK FALSE
INVARIANT ReceivesPayloads
