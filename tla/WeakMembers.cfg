SPECIFICATION Spec
CONSTANTS
  k1 = k1
  k2 = k2
  m1 = m1
  m2 = m2
  m3 = m3
  Keys = {k1, k2}
  Tuples <- Nested
  Members = {m1, m2, m3}
  None = None
  MaxDepth = 3
SYMMETRY MemberSymmetry
INVARIANTS
  TypeOK
  Canonical
  EveryRouteIsOfUse
