SPECIFICATION Spec
CONSTANTS
  k = k
  p = p
  q = q
  r = r
  Atoms = {k}
  Selectors = {p, q, r}
  Values = {0, 1}
  Error = Error
  None = None
  MaxReads = 2
  Programs <- ThreePrograms
INVARIANTS
  TypeOK
  ServesRecomputed
  GlitchFree
  EvaluatesOnce
  ReachesChanged
  RecordedAcyclic
