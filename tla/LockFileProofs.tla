--------------------------- MODULE LockFileProofs ---------------------------
(***************************************************************************)
(* Proofs about the ledger's lock file, for any number of processes.       *)
(***************************************************************************)
EXTENDS LockFile, TLAPS

(* MutualExclusion is not inductive: what makes it so is that the file on  *)
(* disk names the one process past os.open, and that no waiter is about to *)
(* delete it.                                                              *)
Excluding ==
  /\ ~aged
  /\ \A p \in Procs : pc[p] # "unlink"
  /\ \A p \in Procs : pc[p] \in {"write", "held"} => file = p

ExclusionInv == TypeOK /\ (~everStale => Excluding)

(* The variables keep their types in every behaviour of the lock protocol, *)
(* whatever crashes, delays and denied unlinks occur (ledger.py:134-168).  *)
THEOREM TypeCorrect == Spec => []TypeOK
<1>1. Init => TypeOK
  <2> SUFFICES ASSUME Init PROVE TypeOK
    OBVIOUS
  <2>1. file \in Procs \cup {Absent, Orphan}
    BY DEF Init
  <2>2. aged \in BOOLEAN
    BY DEF Init
  <2>3. pc \in [Procs -> Places]
    BY DEF Init, Places
  <2>4. crashes \in 0..MaxCrashes
    BY LockAssumption DEF LockAssumption, Init
  <2>5. everStale \in BOOLEAN
    BY DEF Init
  <2> QED
    BY <2>1, <2>2, <2>3, <2>4, <2>5 DEF TypeOK
<1>2. TypeOK /\ [Next]_vars => TypeOK'
  <2> SUFFICES ASSUME TypeOK, [Next]_vars
               PROVE  TypeOK'
    OBVIOUS
  <2> USE LockAssumption DEF LockAssumption, TypeOK, Places, Goto, Abandoned, Unlink
  <2>1. ASSUME NEW p \in Procs, Request(p) PROVE TypeOK'
    BY <2>1 DEF Request
  <2>2. ASSUME NEW p \in Procs, Step(p) PROVE TypeOK'
    <3>1. CASE Create(p)        BY <3>1 DEF Create
    <3>2. CASE Contend(p)       BY <3>2 DEF Contend
    <3>3. CASE Poll(p)          BY <3>3 DEF Poll
    <3>4. CASE GiveUp(p)        BY <3>4 DEF GiveUp
    <3>5. CASE SeeStale(p)      BY <3>5 DEF SeeStale
    <3>6. CASE UnlinkStale(p)   BY <3>6 DEF UnlinkStale
    <3>7. CASE WriteIdentity(p) BY <3>7 DEF WriteIdentity
    <3>8. CASE WriteFails(p)    BY <3>8 DEF WriteFails
    <3>9. CASE Release(p)       BY <3>9 DEF Release
    <3> QED
      BY <2>2, <3>1, <3>2, <3>3, <3>4, <3>5, <3>6, <3>7, <3>8, <3>9 DEF Step
  <2>3. ASSUME NEW p \in Procs, Crash(p) PROVE TypeOK'
    BY <2>3 DEF Crash
  <2>4. CASE Age
    BY <2>4 DEF Age
  <2>5. CASE UNCHANGED vars
    BY <2>5 DEF vars
  <2> QED
    BY <2>1, <2>2, <2>3, <2>4, <2>5 DEF Next
<1> QED
  BY <1>1, <1>2, PTL DEF Spec

(* The file names the only process that may be inside, as long as nothing  *)
(* has been stale.                                                         *)
LEMMA ExclusionInductive == Spec => []ExclusionInv
<1>1. Init /\ TypeOK => ExclusionInv
  BY DEF Init, ExclusionInv, Excluding
<1>2. ExclusionInv /\ TypeOK' /\ [Next]_vars => ExclusionInv'
  <2> SUFFICES ASSUME TypeOK, Excluding, TypeOK', [Next]_vars, ~everStale, ~everStale'
               PROVE  Excluding'
    <3>1. everStale => everStale' \/ ~[Next]_vars
      BY DEF Next, Step, vars, Request, Create, Contend, Poll, GiveUp, SeeStale,
             UnlinkStale, WriteIdentity, WriteFails, Release, Crash, Age
    <3> QED
      BY <3>1 DEF ExclusionInv
  <2> USE LockAssumption DEF LockAssumption, TypeOK, Places, Excluding, Goto,
          Abandoned, Unlink, LooksStale
  <2>1. ASSUME NEW p \in Procs, Request(p) PROVE Excluding'
    BY <2>1 DEF Request
  <2>2. ASSUME NEW p \in Procs, Step(p) PROVE Excluding'
    <3>1. CASE Create(p)        BY <3>1 DEF Create
    <3>2. CASE Contend(p)       BY <3>2 DEF Contend
    <3>3. CASE Poll(p)          BY <3>3 DEF Poll
    <3>4. CASE GiveUp(p)        BY <3>4 DEF GiveUp
    <3>5. CASE SeeStale(p)      BY <3>5 DEF SeeStale
    <3>6. CASE UnlinkStale(p)   BY <3>6 DEF UnlinkStale
    <3>7. CASE WriteIdentity(p) BY <3>7 DEF WriteIdentity
    <3>8. CASE WriteFails(p)    BY <3>8 DEF WriteFails
    <3>9. CASE Release(p)       BY <3>9 DEF Release
    <3> QED
      BY <2>2, <3>1, <3>2, <3>3, <3>4, <3>5, <3>6, <3>7, <3>8, <3>9 DEF Step
  <2>3. ASSUME NEW p \in Procs, Crash(p) PROVE Excluding'
    BY <2>3 DEF Crash
  <2>4. CASE Age
    BY <2>4 DEF Age
  <2>5. CASE UNCHANGED vars
    BY <2>5 DEF vars
  <2> QED
    BY <2>1, <2>2, <2>3, <2>4, <2>5 DEF Next
<1> QED
  BY <1>1, <1>2, TypeCorrect, PTL DEF Spec

(* Until a lock file becomes stale, two processes are never inside the     *)
(* ledger's critical section together, whatever crashes and whatever       *)
(* unlink fails (ledger.py:134-182).                                       *)
THEOREM Exclusion == Spec => []MutualExclusion
<1>1. ExclusionInv => MutualExclusion
  BY DEF ExclusionInv, Excluding, MutualExclusion
<1> QED
  BY <1>1, ExclusionInductive, PTL

(* In the same circumstances the file on disk is always the holder's own:  *)
(* the unlink in its `finally` deletes nobody else's lock.                 *)
THEOREM Ownership == Spec => []HolderOwnsFile
<1>1. ExclusionInv => HolderOwnsFile
  BY DEF ExclusionInv, Excluding, HolderOwnsFile
<1> QED
  BY <1>1, ExclusionInductive, PTL
=============================================================================
