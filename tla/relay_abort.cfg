SPECIFICATION Spec
CONSTANTS
  c1 = c1
  User = {ada, bob}
  Conn = {c1, c2}
  NoConn = NoConn
  Room = 1
  MaxFd = 2
  MaxSends <- OneEach
SYMMETRY Symmetry
CHECK_DEADLOCK FALSE
INVARIANT KeepsRouting
