CONSTANTS
  Width = 3
  Modulus <- Cubic
  KeyLength = 1
  MaxShares = 7
  Layout <- Layouts
  MaxGiven = 3
  None = None

SPECIFICATION Spec

INVARIANTS
  TypeOK
  EnoughSharesGiveTheKey
  FewerSharesTellNothing
