SPECIFICATION FairSpec
CONSTANTS
  p1 = p1
  p2 = p2
  r1 = r1
  t1 = t1
  t2 = t2
  Requests = {p1, p2}
  Repos = {r1}
  OfflineRepos = {r1}
  Tokens = {t1, t2}
  Settings <- OpenOrNot
  PoolSize = 2
  TTL = 1
  BuildTime = 1
  MaxTime = 2
  Total = 3
  MaxFaults = 1
  None = None
  Gone = Gone
INVARIANTS TypeOK WaitsEnd TrailTellsState ActorsAccountedFor ServedFresh
PROPERTIES EveryRequestAnswered
CHECK_DEADLOCK FALSE
