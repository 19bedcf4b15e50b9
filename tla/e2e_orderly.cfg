SPECIFICATION FairSpec
CONSTANTS
  ada = ada
  bob = bob
  cyd = cyd
  User = {ada, bob, cyd}
  Rank <- MCRank
  Initiates <- BothAskAda
  Talks <- CydToAdaToBob
  Orderly = TRUE
  SlowTick = TRUE
  Room = 1
  MaxPairs = 3
  MaxChats = 1
  MaxExits = 0
INVARIANTS FingerprintsMatch AckAnswersPending
PROPERTIES NoRollback ExchangeCompletes LineArrives RotationSpec
