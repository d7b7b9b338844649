CONSTANTS
  h1 = h1
  h2 = h2
  r1 = r1
  r2 = r2
  c1 = c1
  NoDocument = NoDocument
  NoRequest = NoRequest
  Handler = {h1, h2}
  Relationship = {r1, r2}
  Content = {c1}
  Proposal <- SomeProposals
  MaxWrites = 4
  MaxBatch = 2

SYMMETRY Symmetry

SPECIFICATION Spec

INVARIANTS
  TypeOK
  AuditTrail
  AcceptedOnce
  LegalLifecycle
  DocumentsAreStored
  FilesSentAsGranted
  HistoryShowsForks
  NoLossWithoutFork
  ConsentKeptWithoutFork
PROPERTY VersionTreeSpec

