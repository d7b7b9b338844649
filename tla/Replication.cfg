CONSTANTS
  p1 = p1
  t1 = t1
  t2 = t2
  None = None
  Peer = {p1}
  Policy <- Policies
  Task = {t1, t2}
  MaxDocuments = 3

SYMMETRY Symmetry

SPECIFICATION Spec

INVARIANTS
  TypeOK
  GrantRespected
  ColumnsAgreeWithoutFork
  SucceededMeansHeld
