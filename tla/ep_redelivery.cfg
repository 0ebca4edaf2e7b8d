SPECIFICATION FairSpec
CONSTANTS
  r1 = r1
  q1 = q1
  q2 = q2
  w1 = w1
  w2 = w2
  Runs = {r1}
  Jobs = {}
  RunOf <- OnlyRun
  RunVers = 2
  JobVers = 0
  Timeline <- SameSecondFailing
  JobTimeline <- NoJobStates
  LegacyRuns = {r1}
  Requests = {q1, q2}
  Workers = {w1, w2}
  MaxSends = 2
  MaxCrashes = 1
  None = None
INVARIANTS TypeOK AckedNotLost AlertAtMostOnce
PROPERTIES Converges
CHECK_DEADLOCK FALSE
