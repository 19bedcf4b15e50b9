SPECIFICATION FairSpec
CONSTANTS
  Conn = {c1, c2}
  MaxStray = 1
CHECK_DEADLOCK FALSE
INVARIANTS TypeOK OnlyOwner HelloNext
PROPERTIES ChannelSpec HandshakeEnds
