CONSTANTS
  h1 = h1
  h2 = h2
  k1 = k1
  a1 = a1
  a2 = a2
  NoKey = NoKey
  Bad = Bad
  None = None
  Handler = {h1, h2}
  ImportKey = {k1}
  AssetKey = {a1, a2}
  Content <- Contents
  MaxJobs = 3
  MaxOthers = 1

SYMMETRY Symmetry

SPECIFICATION Spec

INVARIANTS
  TypeOK
  OncePerKey
  RecordsHaveJobs
  ReportIsTrue
PROPERTY DeduplicationHolds
