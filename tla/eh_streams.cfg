SPECIFICATION FairSpec
CONSTANTS
  c1 = c1
  c2 = c2
  c3 = c3
  Streams = {c1, c2, c3}
  Cap = 2
  QueueSize = 1
  Events = 2
  None = None
  Limit = 1
INVARIANTS ReaderWhileNeeded CapCountsStreams HearsAll
PROPERTIES DashboardsConverge ImplementsBroadcast
CHECK_DEADLOCK FALSE
