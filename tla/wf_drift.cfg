SPECIFICATION MCSpec
CONSTANTS
  None = None
  r1 = r1
  r2 = r2
  Broken = Broken
  Actions <- MCActions
  Tags <- MCTags
  Branches <- MCBranches
  Shas <- MCShas
  Unknown = {"stable"}
  Deprecated <- MCDeprecated
  Immutable <- MCImmutable
  CommitOf <- MCCommitOf
  OldRunner = "old"
  NewRunner = "new"
  BumpTo <- MCBumpTo
  Repos = {r1}
  Paths = {"workflows/ci.yml", "workflows/lint.yml"}
  Names = {"ci.yml", "lint.yml"}
  Basename <- MCBasename
  Texts <- MCTexts
  Written <- MCWritten
  Requests = {q1, q2}
  MaxRequests = 2
  MaxPushes = 1
  MaxFaults = 1
INVARIANTS TypeOK
PROPERTIES DriftConverges
CHECK_DEADLOCK FALSE
