\* One record, two commits, one receipt on each, every operation in every order.
SPECIFICATION LifecycleSpec
CONSTANTS
  m = m  v = v  r1 = r1  r2 = r2  t1 = t1
  Commits = {m, v}
  NoCommit = NoCommit
  Receipts = {r1, r2}
  Executed <- ExecutedDef
  Times = {t1}
  Refused = Refused
  Updates <- UpdatesDef
INVARIANTS ProofIsCurrent LedgerFollowsTicket
PROPERTIES ClosedStaysClosed RetryPreserves
CHECK_DEADLOCK FALSE
