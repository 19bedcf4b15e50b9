SPECIFICATION Spec
CONSTANTS
  ada = ada
  bob = bob
  cyd = cyd
  User = {ada, bob}
  Rank <- MCRank
  Initiates <- BobAsks
  Talks <- BothWays
  Orderly = FALSE
  SlowTick = TRUE
  Room = 1
  MaxPairs = 3
  MaxChats = 1
  MaxExits = 0
INVARIANT FingerprintsMatch
