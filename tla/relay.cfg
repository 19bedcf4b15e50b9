SPECIFICATION Spec
CONSTANTS
  c1 = c1
  User = {ada, bob, cyd}
  Conn = {c1, c2, c3}
  NoConn = NoConn
  Room = 2
  MaxFd = 2
  MaxSends <- OneEach
SYMMETRY Symmetry
CHECK_DEADLOCK FALSE
INVARIANTS TypeOK ReachesReceiver KeysMatchSockets InMeansNamed
