CONSTANTS
  d1 = d1
  d2 = d2
  d3 = d3
  d4 = d4
  Daid = {d1, d2, d3, d4}
  Root = d1
  Restricted = Restricted
  Unavailable = Unavailable
  Links <- SomeLinks
  MaxDepth = 2
  MaxNodes = 3

SPECIFICATION Spec

INVARIANTS
  TypeOK
  TruncationIsReported
  CompleteMeansAll
PROPERTY Terminates
