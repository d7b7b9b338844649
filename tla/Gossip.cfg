CONSTANTS
  n1 = n1
  n2 = n2
  n3 = n3
  Node = {n1, n2, n3}
  Seeds <- OneSeed
  None = None
  Stored <- OldTables
  Earlier <- OldGenerations
  MaxGeneration <- Rounds
  MaxPosts = 1
  Silent <- SilentRows

SPECIFICATION Spec

INVARIANTS
  TypeOK
  NoForgedGeneration
  SelfOnlyByFingerprint
PROPERTIES
  RowsGoBackByLostUpdate
  DeathEnds
