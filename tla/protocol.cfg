SPECIFICATION Spec
CONSTANTS
  SEPARATOR = SEPARATOR
  DH_Prime = 11
  DH_base = 2
  PrivateBits = 2
  Name <- PlainNames
  Text <- Texts
  MaxInits = 2
INVARIANTS TypeOK LineShown OpaqueToServer FingerprintsMatch WhoShowsOnline
