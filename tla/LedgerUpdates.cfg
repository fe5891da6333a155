\* Two writers, two updates each, with crashes, slow holders, denied unlinks
\* and failing writes.
SPECIFICATION Spec
CONSTANTS
  p1 = p1  p2 = p2
  Procs = {p1, p2}
  Absent = Absent  Orphan = Orphan  Torn = Torn
  MaxCrashes = 2
  SlowHolder = TRUE
  UnlinkMayFail = TRUE
  MaxUpdates = 2
  WriteMayFail = TRUE
INVARIANTS TypeOK NoLostUpdate
PROPERTIES ImplementsStore NeverResets
CHECK_DEADLOCK FALSE
