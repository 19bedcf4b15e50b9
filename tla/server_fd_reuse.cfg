SPECIFICATION Spec
CONSTANTS
  User = {ada, bob, cyd}
  Conn = {c1, c2, c3}
  NoConn = NoConn
  MaxFd = 2
  MaxSends = 1
SYMMETRY Symmetry
CHECK_DEADLOCK FALSE
INVARIANT ReachesReceiver
