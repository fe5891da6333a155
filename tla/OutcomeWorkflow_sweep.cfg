\* One crash, after which the stores of this ticket disagree.
SPECIFICATION WorkflowSpec
CONSTANTS
  p1 = p1  p2 = p2  m = m  v = v  r1 = r1  r2 = r2  r3 = r3  t1 = t1
  Procs = {p1}  Nobody = Nobody  None = None
  Mergers = {p1}  Refreshers = {p1}  Operators = {p1}
  Brings = {"original", "live", "recurrence"}  RiskLists <- OneRiskList
  Expected = "resolved"  RequiresLive = TRUE  Tested = TRUE
  MergeCommit = m
  Commits = {m, v}  NoCommit = NoCommit
  Receipts = {r1, r2, r3}
  Executed <- ExecutedDef
  Times = {t1}
  Refused = Refused
  Start = None
  Ops <- OpsDef
  MaxCrashes = 1
  WriteMayFail = FALSE
  RollbackMayFail = FALSE
INVARIANTS SweepGoesOn
