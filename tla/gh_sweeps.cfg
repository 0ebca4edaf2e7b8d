SPECIFICATION Spec
CONSTANTS
  s1 = s1
  s2 = s2
  r1 = r1
  r2 = r2
  r3 = r3
  i1 = i1
  Sweeps = {s1, s2}
  Tasks <- SharedRepo
  Inst <- OneInst
  Slots = 2
  Floor = 2
  CacheCap = 2
  MaxBytes = 2
  MaxPages = 2
  MaxRuns = 3
  PageSize = 1
  Life = 2
  Skew = 1
  JwtLife = 2
  Early <- TwoPages
  Budget = 4
  Keeps = {s1}
  MaxTime = 2
  Limit <- Once
  None = None
INVARIANTS TokenDiscipline CacheBounded Complete FailuresStayLocal
CHECK_DEADLOCK FALSE
