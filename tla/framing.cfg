SPECIFICATION FairSpec
CONSTANTS
  Thread = {t1}
  Base = 2
  HeaderLen = 2
  Payload <- Payloads
  Encrypted = TRUE
  Room = 3
  MaxFrames = 3
CHECK_DEADLOCK FALSE
INVARIANTS TypeOK ReceivedIsPrefix
PROPERTIES FramesArrive ReaderEnds
