SPECIFICATION Spec
CONSTANTS
  ada = ada
  bob = bob
  cyd = cyd
  User = {ada, bob}
  Rank <- MCRank
  Initiates <- BothWays
  Talks <- AdaTalks
  Orderly = FALSE
  SlowTick = FALSE
  Room = 2
  MaxPairs = 2
  MaxChats = 2
  MaxExits = 1
INVARIANTS TypeOK KeyOwnership ShownInOrder
