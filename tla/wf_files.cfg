SPECIFICATION StudySpec
CONSTANTS
  None = None
  r1 = r1
  r2 = r2
  Broken = Broken
  Actions <- MCActions
  Tags <- MCTags
  Branches <- MCBranches
  Shas <- MCShas
  Unknown = {"stable"}
  Deprecated <- MCDeprecated
  Immutable <- MCImmutable
  CommitOf <- MCCommitOf
  OldRunner = "old"
  NewRunner = "new"
  BumpTo <- MCBumpTo
  Repos = {r1, r2}
  Paths = {"workflows/ci.yml", "workflows/lint.yml"}
  Names = {"ci.yml", "lint.yml"}
  Basename <- MCBasename
  Texts <- MCTexts
  Written <- MCWritten
  Requests = {q1, q2}
  MaxRequests = 0
  MaxPushes = 1
  MaxFaults = 0
INVARIANTS FixesClose DriftIsDistance SimulationHolds
CHECK_DEADLOCK FALSE
