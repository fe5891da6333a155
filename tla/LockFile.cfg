\* Three processes, two crashes; holders and unlinks are as they should be.
SPECIFICATION FairSpec
CONSTANTS
  p1 = p1  p2 = p2  p3 = p3
  Procs = {p1, p2, p3}
  Absent = Absent  Orphan = Orphan
  MaxCrashes = 2
  SlowHolder = FALSE
  UnlinkMayFail = FALSE
INVARIANTS MutualExclusion HolderOwnsFile
PROPERTIES RequestTerminates OrphanReclaimed
