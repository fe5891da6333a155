\* Two processes; one crash, and every write and every rollback may fail.
SPECIFICATION Spec
CONSTANTS
  p1 = p1  p2 = p2  m = m  v = v  r1 = r1  r2 = r2  t1 = t1
  Procs = {p1, p2}  Nobody = Nobody  None = None
  Commits = {m, v}
  NoCommit = NoCommit
  Receipts = {r1, r2}
  Executed <- ExecutedDef
  Times = {t1}
  Refused = Refused
  Start <- StartDef
  Ops <- OpsDef
  MaxCrashes = 1
  WriteMayFail = TRUE
  RollbackMayFail = TRUE
INVARIANTS Agreement
PROPERTIES ImplementsStore DivergedFrozen
