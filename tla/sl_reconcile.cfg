SPECIFICATION LeaseSpec
CONSTANTS
  w1 = w1
  w2 = w2
  s1 = s1
  s2 = s2
  Workers = {w1, w2}
  Slots = {s1, s2}
  Skew <- OneAhead
  MaxSkew = 1
  TTL = 6
  Heartbeat = 2
  Jitter = 1
  JobTimeout = 30
  Period = 10
  MaxQueued = 2
  MaxCrashes = 1
  MaxErrors = 1
  GapCap = 28
  Nobody = Nobody
SYMMETRY SlotSymmetry
INVARIANTS LeaseTypeOK LiveHolderNeverLapses GapBounded
PROPERTIES ImplementsSingleFlight
