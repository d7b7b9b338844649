CONSTANTS
  h1 = h1
  h2 = h2
  r1 = r1
  c1 = c1
  NoDocument = NoDocument
  NoRequest = NoRequest
  Handler = {h1, h2}
  Relationship = {r1}
  Content = {c1}
  Proposal <- SomeProposals
  MaxWrites = 4
  MaxBatch = 1

SPECIFICATION Spec

INVARIANT RestrictedDocumentsNeedKey
