------------------------- MODULE LedgerUpdatesProofs -------------------------
(***************************************************************************)
(* Proofs about the updates of the ledger document, for any number of      *)
(* processes and updates, with crashes and failing writes.                 *)
(***************************************************************************)
EXTENDS LedgerUpdates, TLAPS

(* What the lock gives: the file on disk names the one process past        *)
(* os.open, and no waiter is about to delete it (see LockFileProofs).      *)
Excluding ==
  /\ ~aged
  /\ \A p \in Procs : pc[p] # "unlink"
  /\ \A p \in Procs : pc[p] \in {"write", "held"} => file = p

(* A process asks for the lock only for an update it has not made yet, and *)
(* is between _acquire_lock and its `finally` while it holds the lock.     *)
Placed ==
  /\ \A p \in Procs : step[p] # "out" <=> pc[p] = "held"
  /\ \A p \in Procs : pc[p] # "idle" => done[p] < MaxUpdates

(* What a process inside knows of the document on disk.                    *)
Knows(p) ==
  /\ step[p] = "truncate" => ledger # Torn /\ ledger = copy[p]
  /\ step[p] = "fill" =>
       ledger = Torn /\ \A q \in Procs : copy[p][q] >= done[q]
  /\ step[p] = "return" => ledger # Torn /\ ledger[p] = done[p] + 1

UpdatesInv ==
  /\ TypeOK
  /\ Placed
  /\ ~everStale => Excluding /\ UpdatesPreserved /\ \A p \in Procs : Knows(p)

(* A new ledger directory: no lock file, an empty document, nobody inside. *)
LEMMA TypeInit == Init => TypeOK
<1> SUFFICES ASSUME Init PROVE TypeOK
  OBVIOUS
<1>1. Empty \in Docs
  BY UpdatesAssumption DEF UpdatesAssumption, Empty, Docs
<1>2. Lock!TypeOK
  <2>1. file \in Procs \cup {Absent, Orphan} /\ aged \in BOOLEAN /\ everStale \in BOOLEAN
    BY DEF Init, Lock!Init
  <2>2. pc \in [Procs -> Lock!Places]
    BY DEF Init, Lock!Init, Lock!Places
  <2>3. crashes \in 0..MaxCrashes
    BY UpdatesAssumption DEF UpdatesAssumption, Init, Lock!Init
  <2> QED
    BY <2>1, <2>2, <2>3 DEF Lock!TypeOK
<1>3. step \in [Procs -> {"out", "load", "truncate", "fill", "return", "raise"}]
  BY DEF Init
<1> QED
  BY <1>1, <1>2, <1>3 DEF Init, TypeOK

(* Each update a process makes is one that it may still make.              *)
LEMMA UpdatedTyped ==
  ASSUME TypeOK, NEW p \in Procs, done[p] < MaxUpdates
  PROVE  Updated(p) \in Docs /\ Updated(p) # Torn
BY UpdatesAssumption DEF UpdatesAssumption, TypeOK, Docs, Updated

(* There, nothing has been updated and nothing is known.                   *)
LEMMA InitInv == Init => UpdatesInv
<1> SUFFICES ASSUME Init PROVE UpdatesInv
  OBVIOUS
<1> QED
  BY TypeInit DEF Init, Lock!Init, UpdatesInv, Placed, Excluding, Knows, UpdatesPreserved, Empty

(* The steps of the lock protocol that p takes outside its update.         *)
LEMMA LockSteps ==
  ASSUME UpdatesInv, NEW p \in Procs, Request(p) \/ Wait(p)
  PROVE  UpdatesInv'
<1> DEFINE Locked == /\ Lock!TypeOK
                     /\ Placed
                     /\ ~everStale => Excluding
<1>1. UNCHANGED <<ledger, copy, step, done, everStale>>
  BY DEF Request, Wait, Lock!Request, Lock!Create, Lock!Contend, Lock!Poll, Lock!GiveUp,
         Lock!SeeStale, Lock!UnlinkStale, Lock!WriteFails
<1>2. (UpdatesPreserved => UpdatesPreserved') /\ \A q \in Procs : Knows(q) => Knows(q)'
  BY <1>1 DEF UpdatesPreserved, Knows
<1>3. Locked
  BY DEF UpdatesInv, TypeOK
<1>4. Locked'
  <2> USE UpdatesAssumption, <1>1, <1>3
      DEF UpdatesAssumption, Lock!TypeOK, Lock!Places, Placed, Excluding,
          Lock!Goto, Lock!Abandoned, Lock!Unlink, Lock!LooksStale
  <2>1. CASE Request(p)
    <3>1. Lock!TypeOK'   BY <2>1 DEF Request, Lock!Request
    <3>2. Placed'        BY <2>1 DEF Request, Lock!Request
    <3>3. ~everStale' => Excluding'
      BY <2>1 DEF Request, Lock!Request
    <3> QED
      BY <3>1, <3>2, <3>3
  <2>2. CASE Lock!Create(p)
    <3>1. Lock!TypeOK'   BY <2>2 DEF Lock!Create
    <3>2. Placed'        BY <2>2 DEF Lock!Create
    <3>3. ~everStale' => Excluding'
      BY <2>2 DEF Lock!Create
    <3> QED
      BY <3>1, <3>2, <3>3
  <2>3. CASE Lock!Contend(p)      BY <2>3 DEF Lock!Contend
  <2>4. CASE Lock!Poll(p)         BY <2>4 DEF Lock!Poll
  <2>5. CASE Lock!GiveUp(p)       BY <2>5 DEF Lock!GiveUp
  <2>6. CASE Lock!SeeStale(p)
    <3>1. Lock!TypeOK'   BY <2>6 DEF Lock!SeeStale
    <3>2. Placed'        BY <2>6 DEF Lock!SeeStale
    <3>3. everStale      BY <2>6 DEF Lock!SeeStale
    <3> QED
      BY <3>1, <3>2, <3>3
  <2>7. CASE Lock!UnlinkStale(p)
    <3>1. Lock!TypeOK'   BY <2>7 DEF Lock!UnlinkStale
    <3>2. Placed'        BY <2>7 DEF Lock!UnlinkStale
    <3>3. everStale      BY <2>7 DEF Lock!UnlinkStale
    <3> QED
      BY <3>1, <3>2, <3>3
  <2>8. CASE Lock!WriteFails(p)
    <3>1. Lock!TypeOK'   BY <2>8 DEF Lock!WriteFails
    <3>2. Placed'        BY <2>8 DEF Lock!WriteFails
    <3>3. ~everStale' => Excluding'
      BY <2>8 DEF Lock!WriteFails
    <3> QED
      BY <3>1, <3>2, <3>3
  <2> QED
    BY <2>1, <2>2, <2>3, <2>4, <2>5, <2>6, <2>7, <2>8 DEF Wait
<1>5. TypeOK'
  BY <1>1, <1>4 DEF UpdatesInv, TypeOK
<1> QED
  BY <1>1, <1>2, <1>4, <1>5 DEF UpdatesInv

(* The steps of p's update under the lock.                                 *)
LEMMA UpdateSteps ==
  ASSUME UpdatesInv, NEW p \in Procs,
         \/ Enter(p) \/ Load(p) \/ LoadRaises(p) \/ Truncate(p) \/ Fill(p) \/ FillRaises(p)
         \/ Return(p) \/ Raise(p)
  PROVE  UpdatesInv'
<1> USE UpdatesAssumption
    DEF UpdatesAssumption, UpdatesInv, TypeOK, Lock!TypeOK, Lock!Places, Placed, Excluding,
        Knows, UpdatesPreserved, Docs, Move, Lock!Goto, Lock!Abandoned, Lock!Unlink
<1>1. CASE Enter(p)       BY <1>1 DEF Enter, Lock!WriteIdentity
<1>2. CASE Load(p)        BY <1>2 DEF Load
<1>3. CASE LoadRaises(p)  BY <1>3 DEF LoadRaises
<1>4. CASE Truncate(p)
  <2>1. TypeOK'           BY <1>4 DEF Truncate
  <2>2. Placed'           BY <1>4 DEF Truncate
  <2>3. ASSUME ~everStale PROVE Excluding' /\ UpdatesPreserved'
    BY <1>4, <2>3 DEF Truncate
  <2>4. ASSUME ~everStale PROVE Knows(p)'
    BY <1>4, <2>4 DEF Truncate
  <2>5. ASSUME ~everStale, NEW q \in Procs, q # p PROVE Knows(q)'
    BY <1>4, <2>5 DEF Truncate
  <2> QED
    BY <1>4, <2>1, <2>2, <2>3, <2>4, <2>5 DEF Truncate
<1>5. CASE Fill(p)
  <2>1. Updated(p) \in Docs /\ Updated(p) # Torn
    BY <1>5, UpdatedTyped DEF Fill
  <2>2. TypeOK'           BY <1>5, <2>1 DEF Fill
  <2>3. Placed'           BY <1>5 DEF Fill
  <2>4. ASSUME ~everStale
        PROVE  Excluding' /\ UpdatesPreserved' /\ \A q \in Procs : Knows(q)'
    <3>1. ledger' = Updated(p)
      BY <1>5, <2>4 DEF Fill
    <3>2. \A q \in Procs : Updated(p)[q] = IF q = p THEN done[p] + 1 ELSE copy[p][q]
      BY DEF Updated
    <3>3. \A q \in Procs : copy[p][q] >= done[q]
      BY <1>5, <2>4 DEF Fill
    <3>4. Excluding'      BY <1>5, <2>4 DEF Fill
    <3>5. UpdatesPreserved'
      BY <1>5, <3>1, <3>2, <3>3 DEF Fill
    <3>6. Knows(p)'
      BY <1>5, <2>1, <3>1, <3>2 DEF Fill
    <3>7. ASSUME NEW q \in Procs, q # p PROVE Knows(q)'
      BY <1>5, <2>4, <3>7 DEF Fill
    <3> QED
      BY <3>4, <3>5, <3>6, <3>7
  <2> QED
    BY <1>5, <2>2, <2>3, <2>4 DEF Fill
<1>6. CASE FillRaises(p)
  <2>1. TypeOK'           BY <1>6 DEF FillRaises
  <2>2. Placed'           BY <1>6 DEF FillRaises
  <2>3. ASSUME ~everStale PROVE Excluding' /\ UpdatesPreserved'
    BY <1>6, <2>3 DEF FillRaises
  <2>4. ASSUME ~everStale, NEW q \in Procs PROVE Knows(q)'
    BY <1>6, <2>4 DEF FillRaises
  <2> QED
    BY <1>6, <2>1, <2>2, <2>3, <2>4 DEF FillRaises
<1>7. CASE Return(p)
  <2>1. Lock!TypeOK'      BY <1>7 DEF Return, Lock!Release
  <2>2. TypeOK'
    <3>1. done[p] \in 0..MaxUpdates /\ done[p] < MaxUpdates
      BY <1>7 DEF Return, Lock!Release
    <3>2. done' \in Docs
      BY ONLY UpdatesAssumption, <3>1, <1>7, UpdatesInv DEF UpdatesInv, TypeOK, Docs, Return, UpdatesAssumption
    <3>3. step' \in [Procs -> {"out", "load", "truncate", "fill", "return", "raise"}]
      BY <1>7 DEF Return
    <3> QED
      BY <1>7, <2>1, <3>2, <3>3 DEF Return
  <2>3. Placed'           BY <1>7 DEF Return, Lock!Release
  <2>4. ASSUME ~everStale PROVE Excluding'
    BY <1>7, <2>4 DEF Return, Lock!Release
  <2>5. ASSUME ~everStale PROVE UpdatesPreserved' /\ \A q \in Procs : Knows(q)'
    BY <1>7, <2>5 DEF Return, Lock!Release
  <2> QED
    BY <1>7, <2>2, <2>3, <2>4, <2>5 DEF Return, Lock!Release
<1>8. CASE Raise(p)
  <2>1. Lock!TypeOK'      BY <1>8 DEF Raise, Lock!Release
  <2>2. TypeOK'           BY <1>8, <2>1 DEF Raise
  <2>3. Placed'           BY <1>8 DEF Raise, Lock!Release
  <2>4. ASSUME ~everStale PROVE Excluding'
    BY <1>8, <2>4 DEF Raise, Lock!Release
  <2>5. ASSUME ~everStale PROVE UpdatesPreserved' /\ \A q \in Procs : Knows(q)'
    BY <1>8, <2>5 DEF Raise, Lock!Release
  <2> QED
    BY <1>8, <2>2, <2>3, <2>4, <2>5 DEF Raise, Lock!Release
<1> QED
  BY <1>1, <1>2, <1>3, <1>4, <1>5, <1>6, <1>7, <1>8

(* Crashes, and the time that makes a lock file stale.                     *)
LEMMA EnvironmentSteps ==
  ASSUME UpdatesInv, Age \/ (\E p \in Procs : Crash(p)) \/ UNCHANGED vars
  PROVE  UpdatesInv'
<1> USE UpdatesAssumption
    DEF UpdatesAssumption, UpdatesInv, TypeOK, Lock!TypeOK, Lock!Places, Placed, Excluding,
        Knows, UpdatesPreserved, Docs
<1>1. CASE Age
  BY <1>1 DEF Age, Lock!Age
<1>2. ASSUME NEW p \in Procs, Crash(p) PROVE UpdatesInv'
  BY <1>2 DEF Crash, Lock!Crash, Lock!Abandoned
<1>3. CASE UNCHANGED vars
  BY <1>3 DEF vars
<1> QED
  BY <1>1, <1>2, <1>3

(* The strengthened invariant holds in every behaviour: one step per lemma *)
(* above.                                                                  *)
LEMMA UpdatesInvariant == Spec => []UpdatesInv
<1>1. UpdatesInv /\ [Next]_vars => UpdatesInv'
  BY LockSteps, UpdateSteps, EnvironmentSteps DEF Next
<1> QED
  BY <1>1, InitInv, PTL DEF Spec

(* The variables keep their types, whatever crashes and fails.             *)
THEOREM UpdatesTypeCorrect == Spec => []TypeOK
<1>1. UpdatesInv => TypeOK
  BY DEF UpdatesInv
<1> QED
  BY <1>1, UpdatesInvariant, PTL

(* Until a lock file becomes stale, an update that has returned to its     *)
(* caller stays in the ledger, whatever the other processes update, and    *)
(* whoever of them crashes (ledger.py:171-182).                            *)
THEOREM UpdatesKept == Spec => []NoLostUpdate
<1>1. UpdatesInv => NoLostUpdate
  BY DEF UpdatesInv, NoLostUpdate
<1> QED
  BY <1>1, UpdatesInvariant, PTL

(* A document that a crash or a failed write has torn stays torn: no       *)
(* update takes it for an empty ledger (ledger.py:30-45).                  *)
THEOREM TornForGood == Spec => NeverResets
<1>1. ASSUME TypeOK, [Next]_vars, Corrupt PROVE Corrupt'
  <2> USE <1>1 DEF TypeOK, Corrupt, Move
  <2>1. CASE UNCHANGED <<ledger, step>>
    BY <2>1
  <2>2. ASSUME NEW p \in Procs, Request(p) \/ Wait(p) PROVE Corrupt'
    BY <2>1, <2>2 DEF Request, Wait
  <2>3. ASSUME NEW p \in Procs,
               \/ Enter(p) \/ LoadRaises(p) \/ FillRaises(p) \/ Return(p) \/ Raise(p)
               \/ Crash(p)
        PROVE  Corrupt'
    BY <2>3 DEF Enter, LoadRaises, FillRaises, Return, Raise, Crash
  <2>4. ASSUME NEW p \in Procs, Load(p) \/ Truncate(p) \/ Fill(p) PROVE FALSE
    BY <2>4 DEF Load, Truncate, Fill
  <2>5. CASE Age
    BY <2>1, <2>5 DEF Age
  <2> QED
    BY <2>1, <2>2, <2>3, <2>4, <2>5 DEF Next, vars
<1>2. TypeOK /\ [Next]_vars => [Corrupt => Corrupt']_vars
  BY <1>1
<1> QED
  BY <1>2, UpdatesTypeCorrect, PTL DEF Spec, NeverResets

(* The refinement also needs the other side of the count: the document is  *)
(* ahead of an entry's returned updates by one at most, the update of a    *)
(* process that is about to return or that crashed before it could.        *)
Ahead(d) == \A q \in Procs : d[q] <= done[q] + 1

Counted ==
  ~everStale => /\ ledger # Torn => Ahead(ledger)
                /\ \A p \in Procs : step[p] = "fill" => Ahead(copy[p])

(* No step takes the document further ahead; updates are serial, so the    *)
(* one that is written is on top of all the others.                        *)
LEMMA CountedStep ==
  ASSUME UpdatesInv, UpdatesInv', Counted, [Next]_vars
  PROVE  Counted'
<1> SUFFICES ASSUME ~everStale' PROVE Counted'
  BY DEF Counted
<1> USE DEF UpdatesInv, TypeOK, Counted, Ahead, Docs, Move
<1>1. CASE UNCHANGED vars
  BY <1>1 DEF vars
<1>2. ASSUME NEW p \in Procs, Request(p) \/ Wait(p) \/ Enter(p) PROVE Counted'
  <2>1. UNCHANGED <<ledger, copy, done, everStale>> /\ \A q \in Procs : step'[q] = "fill" => step[q] = "fill"
    BY <1>2 DEF Request, Wait, Enter, Lock!Request, Lock!Create, Lock!Contend, Lock!Poll,
                Lock!GiveUp, Lock!SeeStale, Lock!UnlinkStale, Lock!WriteFails, Lock!WriteIdentity
  <2> QED
    BY <2>1
<1>3. ASSUME NEW p \in Procs, Load(p) \/ LoadRaises(p) \/ FillRaises(p) PROVE Counted'
  BY <1>3 DEF Load, LoadRaises, FillRaises
<1>4. ASSUME NEW p \in Procs, Truncate(p) PROVE Counted'
  BY <1>4 DEF Truncate, Knows
<1>5. ASSUME NEW p \in Procs, Fill(p) PROVE Counted'
  <2>1. ~everStale /\ UNCHANGED <<copy, done>> /\ Ahead(copy[p])
    BY <1>5 DEF Fill
  <2>2. \A q \in Procs : step'[q] = "fill" => step[q] = "fill"
    BY <1>5 DEF Fill
  <2>3. ledger' = Updated(p)
    BY <1>5, <2>1 DEF Fill, Knows
  <2>4. Ahead(Updated(p))
    BY <2>1 DEF Updated
  <2> QED
    BY <2>1, <2>2, <2>3, <2>4
<1>6. ASSUME NEW p \in Procs, Return(p) \/ Raise(p) \/ Crash(p) PROVE Counted'
  <2>1. UNCHANGED <<ledger, copy, everStale>> /\ \A q \in Procs : step'[q] = "fill" => step[q] = "fill"
    BY <1>6 DEF Return, Raise, Crash, Lock!Release, Lock!Crash
  <2>2. \A q \in Procs : done'[q] >= done[q]
    BY <1>6 DEF Return, Raise, Crash
  <2> QED
    BY <2>1, <2>2
<1>7. CASE Age
  BY <1>7 DEF Age, Lock!Age
<1> QED
  BY <1>1, <1>2, <1>3, <1>4, <1>5, <1>6, <1>7 DEF Next

(* While p writes, what the lock shows is the document p started from.     *)
LEMMA VisibleInside ==
  ASSUME UpdatesInv, ~everStale, NEW p \in Procs, step[p] = "fill"
  PROVE  Visible = copy[p]
<1>1. \A q \in Procs : step[q] = "fill" => q = p
  BY DEF UpdatesInv, Placed, Excluding
<1>2. (CHOOSE q \in Procs : step[q] = "fill") = p
  BY <1>1
<1> QED
  BY <1>2 DEF Visible

(* While nobody writes, it is the document on disk.                        *)
LEMMA VisibleOutside ==
  ASSUME \A p \in Procs : step[p] # "fill"
  PROVE  Visible = ledger
BY DEF Visible

(* A step that leaves the documents and the writers alone changes nothing. *)
LEMMA VisibleSame ==
  ASSUME UNCHANGED <<ledger, copy>>,
         \A p \in Procs : (step'[p] = "fill") <=> (step[p] = "fill")
  PROVE  Visible' = Visible
<1>1. (CHOOSE p \in Procs : step'[p] = "fill") = (CHOOSE p \in Procs : step[p] = "fill")
  BY Zenon
<1> QED
  BY <1>1 DEF Visible

(* Each step of the updates is a step of the atomic store, or none, until  *)
(* a lock file becomes stale.                                              *)
LEMMA StoreStep ==
  ASSUME UpdatesInv, UpdatesInv', Counted, [Next]_vars, ~everStale'
  PROVE  Store!Next \/ Visible' = Visible
<1>0. ~everStale
  BY DEF Next, vars, Request, Wait, Enter, Load, LoadRaises, Truncate, Fill, FillRaises,
         Return, Raise, Crash, Age, Lock!Request, Lock!Create, Lock!Contend, Lock!Poll,
         Lock!GiveUp, Lock!SeeStale, Lock!UnlinkStale, Lock!WriteIdentity, Lock!WriteFails,
         Lock!Release, Lock!Crash, Lock!Age
<1>1. CASE UNCHANGED vars
  <2>1. Visible' = Visible
    BY <1>1, VisibleSame DEF vars
  <2> QED
    BY <2>1
<1>2. ASSUME NEW p \in Procs,
             \/ Request(p) \/ Wait(p) \/ Enter(p) \/ Load(p) \/ LoadRaises(p)
             \/ Return(p) \/ Raise(p)
      PROVE  Visible' = Visible
  <2>1. CASE Load(p)
    <3>1. \A q \in Procs : step[q] # "fill"
      BY <1>0, <2>1 DEF Load, Move, UpdatesInv, Knows
    <3>2. \A q \in Procs : step'[q] # "fill"
      BY <2>1, <3>1 DEF Load, Move, UpdatesInv, TypeOK
    <3>3. Visible = ledger
      BY <3>1, VisibleOutside
    <3>4. Visible' = ledger'
      BY <3>2 DEF Visible
    <3> QED
      BY <2>1, <3>3, <3>4 DEF Load
  <2>2. CASE ~Load(p)
    <3>1. UNCHANGED <<ledger, copy>>
      BY <1>2, <2>2 DEF Request, Wait, Enter, LoadRaises, Return, Raise
    <3>2. \A q \in Procs : (step'[q] = "fill") <=> (step[q] = "fill")
      BY <1>2, <2>2 DEF Request, Wait, Enter, LoadRaises, Return, Raise, Move, UpdatesInv, TypeOK
    <3> QED
      BY <3>1, <3>2, VisibleSame
  <2> QED
    BY <2>1, <2>2
<1>3. ASSUME NEW p \in Procs, Truncate(p) PROVE Visible' = Visible
  <2>1. \A q \in Procs : step[q] # "fill"
    BY <1>0, <1>3 DEF Truncate, Move, UpdatesInv, Knows
  <2>2. Visible = ledger
    BY <2>1, VisibleOutside
  <2>3. ledger = copy[p] /\ copy' = copy
    BY <1>0, <1>3 DEF Truncate, Move, UpdatesInv, Knows
  <2>4. step'[p] = "fill" /\ \A q \in Procs : step'[q] = "fill" => q = p
    BY <1>3, <2>1 DEF Truncate, Move, UpdatesInv, TypeOK
  <2>5. (CHOOSE q \in Procs : step'[q] = "fill") = p
    BY <2>4
  <2>6. Visible' = copy'[p]
    BY <2>4, <2>5 DEF Visible
  <2> QED
    BY <2>2, <2>3, <2>6
<1>4. ASSUME NEW p \in Procs, Fill(p) PROVE Store!Next \/ Visible' = Visible
  <2>1. Visible = copy[p]
    BY <1>0, <1>4, VisibleInside DEF Fill, Move
  <2>2. \A q \in Procs : step'[q] # "fill"
    BY <1>0, <1>4 DEF Fill, Move, UpdatesInv, TypeOK, Placed, Excluding
  <2>3. Visible' = ledger'
    BY <2>2 DEF Visible
  <2>4. ledger' = [copy[p] EXCEPT ![p] = done[p] + 1]
    BY <1>0, <1>4 DEF Fill, Move, UpdatesInv, Knows, Updated
  <2>5. copy[p] \in Docs /\ copy[p] # Torn
    BY UpdatesAssumption DEF UpdatesInv, TypeOK, UpdatesAssumption, Docs
  <2>6. copy[p][p] \in Nat /\ done[p] \in Nat
    BY <2>5, UpdatesAssumption DEF UpdatesInv, TypeOK, UpdatesAssumption, Docs
  <2>7. copy[p][p] >= done[p] /\ copy[p][p] <= done[p] + 1
    BY <1>0, <1>4 DEF Fill, Move, UpdatesInv, Knows, Counted, Ahead
  <2>8. CASE copy[p][p] = done[p]
    <3>1. Visible' = [Visible EXCEPT ![p] = @ + 1]
      BY <2>1, <2>3, <2>4, <2>8
    <3>2. Store!Apply(p)
      BY <2>1, <2>5, <3>1 DEF Store!Apply
    <3> QED
      BY <3>2 DEF Store!Next
  <2>9. CASE copy[p][p] = done[p] + 1
    <3>1. ledger' = copy[p]
      BY <2>4, <2>5, <2>9 DEF Docs
    <3> QED
      BY <2>1, <2>3, <3>1
  <2> QED
    BY <2>6, <2>7, <2>8, <2>9
<1>5. ASSUME NEW p \in Procs, FillRaises(p) \/ Crash(p) PROVE Store!Next \/ Visible' = Visible
  <2>1. UNCHANGED <<ledger, copy>>
    BY <1>5 DEF FillRaises, Crash
  <2>2. step'[p] # "fill" /\ \A q \in Procs \ {p} : step'[q] = step[q]
    BY <1>5 DEF FillRaises, Crash, Move, UpdatesInv, TypeOK
  <2>3. CASE step[p] = "fill"
    <3>1. ledger = Torn
      BY <1>0, <2>3 DEF UpdatesInv, Knows
    <3>2. \A q \in Procs : step'[q] # "fill"
      BY <1>0, <2>2, <2>3 DEF UpdatesInv, Placed, Excluding
    <3>3. Visible' = Torn
      BY <2>1, <3>1, <3>2 DEF Visible
    <3> QED
      BY <3>3 DEF Store!Next, Store!Lose
  <2>4. CASE step[p] # "fill"
    <3>1. \A q \in Procs : (step'[q] = "fill") <=> (step[q] = "fill")
      BY <2>2, <2>4
    <3> QED
      BY <2>1, <3>1, VisibleSame
  <2> QED
    BY <2>3, <2>4
<1>6. ~Age
  BY DEF Age, Lock!Age
<1> QED
  BY <1>1, <1>2, <1>3, <1>4, <1>5, <1>6 DEF Next

(* Until a lock file becomes stale, the locked updates implement the       *)
(* atomic store, crashes and failing writes included (ledger.py:171-182).  *)
THEOREM UpdatesImplementStore == Spec => ImplementsStore
<1>1. Init => Store!Init
  <2> SUFFICES ASSUME Init PROVE Store!Init
    OBVIOUS
  <2>1. \A p \in Procs : step[p] # "fill"
    BY DEF Init
  <2>2. Visible = Empty
    BY <2>1, VisibleOutside DEF Init
  <2> QED
    BY <2>2 DEF Store!Init, Empty
<1>2. Init => Counted
  BY DEF Init, Counted, Ahead, Empty
<1>3. UpdatesInv /\ UpdatesInv' /\ Counted /\ [Next]_vars => Counted'
  BY CountedStep
<1>4. UpdatesInv /\ UpdatesInv' /\ Counted /\ [Next]_vars
        => [everStale' \/ Store!Next]_Visible
  BY StoreStep
<1> QED
  BY <1>1, <1>2, <1>3, <1>4, UpdatesInvariant, PTL DEF Spec, ImplementsStore
=============================================================================
