---------------------------- MODULE LedgerUpdates ----------------------------
(***************************************************************************)
(* update_ledger_file over the lock file of LockFile: processes that each  *)
(* load the whole ledger document, change their own entry and write the    *)
(* whole document back in place (write_text truncates first, then writes). *)
(*                                                                         *)
(* The document is abstracted to how many updates each process's entry has *)
(* received.  A file that was truncated and not yet written is Torn: a     *)
(* load of it raises.                                                      *)
(***************************************************************************)
EXTENDS Naturals

CONSTANTS
  Procs, Absent, Orphan, MaxCrashes, SlowHolder, UnlinkMayFail,  \* see LockFile
  Torn,          \* the content of a truncated ledger file
  MaxUpdates,    \* bound on the updates of one process
  WriteMayFail   \* may write_text fail after it has truncated (a full disk)?

ASSUME UpdatesAssumption ==
  /\ Absent # Orphan /\ Absent \notin Procs /\ Orphan \notin Procs
  /\ MaxCrashes \in Nat
  /\ Torn \notin [Procs -> Nat]
  /\ MaxUpdates \in Nat
  /\ WriteMayFail \in BOOLEAN

VARIABLES
  file, aged, pc, crashes, everStale,   \* the lock file, see LockFile
  ledger,   \* the document on disk, or Torn
  copy,     \* the document each process has loaded
  step,     \* where each process is between _acquire_lock and its `finally`
  done      \* updates that have returned to their caller

lockVars == <<file, aged, pc, crashes, everStale>>
vars == <<file, aged, pc, crashes, everStale, ledger, copy, step, done>>

Lock == INSTANCE LockFile

Docs == [Procs -> 0..MaxUpdates]
Empty == [p \in Procs |-> 0]

TypeOK ==
  /\ Lock!TypeOK
  /\ ledger \in Docs \cup {Torn}
  /\ copy \in [Procs -> Docs]
  /\ step \in [Procs -> {"out", "load", "truncate", "fill", "return", "raise"}]
  /\ done \in Docs

Init ==
  /\ Lock!Init
  /\ ledger = Empty
  /\ copy = [p \in Procs |-> Empty]
  /\ step = [p \in Procs |-> "out"]
  /\ done = Empty

Move(p, from, to) ==
  /\ step[p] = from
  /\ step' = [step EXCEPT ![p] = to]

Request(p) ==
  /\ done[p] < MaxUpdates
  /\ Lock!Request(p)
  /\ UNCHANGED <<ledger, copy, step, done>>

(* A step of _acquire_lock that does not end with the lock held. *)
Wait(p) ==
  /\ \/ Lock!Create(p) \/ Lock!Contend(p) \/ Lock!Poll(p) \/ Lock!GiveUp(p)
     \/ Lock!SeeStale(p) \/ Lock!UnlinkStale(p) \/ Lock!WriteFails(p)
  /\ UNCHANGED <<ledger, copy, step, done>>

Enter(p) ==
  /\ Lock!WriteIdentity(p)
  /\ Move(p, "out", "load")
  /\ UNCHANGED <<ledger, copy, done>>

(* Faulty variant: the document loaded by the previous update is reused. *)
LoadCached(p) ==
  /\ ledger # Torn
  /\ Move(p, "load", "truncate")
  /\ UNCHANGED <<file, aged, pc, crashes, everStale, ledger, copy, done>>

(* load_ledger: the whole document, or an exception on a torn one. *)
Load(p) ==
  /\ ledger # Torn
  /\ Move(p, "load", "truncate")
  /\ copy' = [copy EXCEPT ![p] = ledger]
  /\ UNCHANGED <<file, aged, pc, crashes, everStale, ledger, done>>

(* Faulty variant: an unreadable ledger is taken for an empty one. *)
LoadEmpty(p) ==
  /\ ledger = Torn
  /\ Move(p, "load", "truncate")
  /\ copy' = [copy EXCEPT ![p] = Empty]
  /\ UNCHANGED <<file, aged, pc, crashes, everStale, ledger, done>>

LoadRaises(p) ==
  /\ ledger = Torn
  /\ Move(p, "load", "raise")
  /\ UNCHANGED <<file, aged, pc, crashes, everStale, ledger, copy, done>>

(* write_ledger: write_text opens the file with truncation ... *)
Truncate(p) ==
  /\ Move(p, "truncate", "fill")
  /\ ledger' = Torn
  /\ UNCHANGED <<file, aged, pc, crashes, everStale, copy, done>>

(* Faulty variants: an update applied twice; one that drops the entries of *)
(* the other processes.                                                    *)
UpdatedTwice(p) == [copy[p] EXCEPT ![p] = done[p] + 2]
UpdatedAlone(p) == [Empty EXCEPT ![p] = done[p] + 1]

Updated(p) == [copy[p] EXCEPT ![p] = done[p] + 1]

(* ... and writes the document.  Over a text that somebody else wrote in   *)
(* the meantime the result is this document, or this document followed by  *)
(* the rest of a longer one, which no longer parses.                       *)
Fill(p) ==
  /\ Move(p, "fill", "return")
  /\ \/ ledger' = Updated(p)
     \/ ledger # Torn /\ ledger' = Torn
  /\ UNCHANGED <<file, aged, pc, crashes, everStale, copy, done>>

FillRaises(p) ==
  /\ WriteMayFail
  /\ Move(p, "fill", "raise")
  /\ UNCHANGED <<file, aged, pc, crashes, everStale, ledger, copy, done>>

Return(p) ==
  /\ Move(p, "return", "out")
  /\ Lock!Release(p)
  /\ done' = [done EXCEPT ![p] = @ + 1]
  /\ UNCHANGED <<ledger, copy>>

(* The exception of a load or of a write passes through the same `finally`. *)
Raise(p) ==
  /\ Move(p, "raise", "out")
  /\ Lock!Release(p)
  /\ UNCHANGED <<ledger, copy, done>>

Crash(p) ==
  /\ Lock!Crash(p)
  /\ step' = [step EXCEPT ![p] = "out"]
  /\ UNCHANGED <<ledger, copy, done>>

Age ==
  /\ Lock!Age
  /\ UNCHANGED <<ledger, copy, step, done>>

Next ==
  \/ \E p \in Procs :
       \/ Request(p) \/ Wait(p) \/ Enter(p)
       \/ Load(p) \/ LoadRaises(p) \/ Truncate(p) \/ Fill(p) \/ FillRaises(p)
       \/ Return(p) \/ Raise(p)
       \/ Crash(p)
  \/ Age

Spec == Init /\ [][Next]_vars

(***************************************************************************)
(* Properties.                                                             *)
(***************************************************************************)

(* An update that returned to its caller is in the document: no other      *)
(* process's load-change-write of the whole document has taken it back     *)
(* (ledger.py:171-182; the test at tests/test_ledger.py:111 exercises it   *)
(* with threads).  It holds until a lock file becomes stale.               *)
UpdatesPreserved ==
  ledger # Torn => \A p \in Procs : ledger[p] >= done[p]

NoLostUpdate == ~everStale => UpdatesPreserved

(* The file is torn and no process is on its way to write it. *)
Corrupt ==
  /\ ledger = Torn
  /\ \A p \in Procs : step[p] \notin {"truncate", "fill"}

(* A document torn by a crash or a failed write stays torn: every later    *)
(* update raises before it writes, so durable corruption is never silently *)
(* replaced by an empty ledger (tests/test_ledger.py:131).                 *)
NeverResets == [][Corrupt => Corrupt']_vars

(* What a process that looks at the ledger through the lock sees: the      *)
(* document that the current writer, if any, started from; Lost, once a    *)
(* write has failed.                                                       *)
Visible ==
  IF \E p \in Procs : step[p] = "fill"
  THEN copy[CHOOSE p \in Procs : step[p] = "fill"]
  ELSE ledger

(* Until a lock file becomes stale, the ledger is the atomic store of      *)
(* LedgerStore: every step leaves it as it is, adds one update to one      *)
(* entry, or loses the document for good.                                  *)
Store == INSTANCE LedgerStore WITH doc <- Visible, Lost <- Torn

ImplementsStore == Store!Init /\ [][everStale' \/ Store!Next]_Visible
=============================================================================
