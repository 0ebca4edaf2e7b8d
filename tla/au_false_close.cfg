SPECIFICATION Spec
CONSTANTS
  f1 = f1
  f2 = f2
  unpinned = unpinned
  dangling = dangling
  z1 = z1
  zizmor = zizmor
  a1 = a1
  a2 = a2
  Files = {f1, f2}
  Flaws = {unpinned, dangling}
  FileOf <- CallerAndCallee
  Needs <- OnSecond
  Exempt = {}
  High = {unpinned}
  Closable = {unpinned}
  Reports = {}
  Tools = {zizmor}
  ToolOf <- OneTool
  Audits = {a1}
  None = None
  Limit <- Failing
INVARIANTS VerifiedIsProof
CHECK_DEADLOCK FALSE
