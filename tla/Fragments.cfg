CONSTANTS
  a = a
  p = p
  u1 = u1
  u2 = u2
  c1 = c1
  c2 = c2
  None = None
  Node = {a, p}
  Uploader = {a}
  Content = {c1, c2}
  Upload = {u1, u2}
  Layout <- Layouts
  Capacity <- RoomForOne
  OptIn = {p}

SYMMETRY Symmetry

SPECIFICATION Spec

INVARIANTS
  TypeOK
  WholeUnlessReuploaded
  PlacedMeansRecoverable
  CapacityOvershoot
PROPERTY RemovalIsFinal
