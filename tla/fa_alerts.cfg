SPECIFICATION FairSpec
CONSTANTS
  f1 = f1
  a1 = a1
  a2 = a2
  x1 = x1
  None = None
  Gone = Gone
  Files = {f1}
  Descriptors <- OldAndNew
  Feed <- TheFeed
  Catalogue <- Revised
  UrgentDays = 0
  LastDay = 2
  PageCap = 1
  MaxJobs = 2
  Total = 2
  Channels = {1, 2}
  EventSets <- Subscriptions
  Auditors = {a1, a2}
  Findings = {x1}
INVARIANTS AlertOnce HeardByAll
PROPERTIES AlertsCome
CHECK_DEADLOCK FALSE
