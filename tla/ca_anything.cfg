SPECIFICATION Spec
CONSTANTS
  r1 = r1
  r2 = r2
  f1 = f1
  x = x
  s1 = s1
  s2 = s2
  a1 = a1
  a2 = a2
  Repos = {r1, r2}
  Files = {f1}
  Refs = {x}
  Shas = {s1, s2}
  Immutable = {}
  Appliers = {a1, a2}
  Mutable = Mutable
  Unused = Unused
  None = None
  Limit <- Everything
  Together <- PairsAndCrash
INVARIANT TypeOK
INVARIANT ReviewedShas
INVARIANT QuietDiffAsReviewed
INVARIANT PRsRecorded
PROPERTY ImplementsFixFlow
SYMMETRY Symmetry
CHECK_DEADLOCK FALSE
