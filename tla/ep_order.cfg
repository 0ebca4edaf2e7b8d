SPECIFICATION Spec
CONSTANTS
  r1 = r1
  j1 = j1
  q1 = q1
  q2 = q2
  w1 = w1
  w2 = w2
  Runs = {r1}
  Jobs = {j1}
  RunOf <- OnlyRun
  RunVers = 2
  JobVers = 2
  Timeline <- FailingTimeline
  JobTimeline <- JobStates
  LegacyRuns = {}
  Requests = {q1, q2}
  Workers = {w1, w2}
  MaxSends = 1
  MaxCrashes = 0
  None = None
SYMMETRY Slots
PROPERTIES RowsNeverRegress
CHECK_DEADLOCK FALSE
