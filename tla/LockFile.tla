------------------------------ MODULE LockFile ------------------------------
(***************************************************************************)
(* The advisory lock of the implementation ledger: a file created with     *)
(* O_CREAT|O_EXCL next to the ledger (ledger.py, _acquire_lock), polled by *)
(* the processes that find it there, given up after a timeout, deleted as  *)
(* stale when its mtime is old, and deleted by name in the `finally` of    *)
(* every operation that took it.                                           *)
(*                                                                         *)
(* The three system calls a waiter makes (create, stat, unlink) are three  *)
(* steps: the file it deletes need not be the file whose age it read.      *)
(* Time is abstracted to one bit, whether the file's age is beyond         *)
(* _LOCK_STALE_SECONDS, and to a choice of when the waiter's               *)
(* _LOCK_TIMEOUT_SECONDS are over.                                         *)
(***************************************************************************)
EXTENDS Naturals

CONSTANTS
  Procs,          \* processes that use the ledger (a slot runs one process after another)
  Absent,         \* there is no lock file
  Orphan,         \* a lock file whose creator no longer runs
  MaxCrashes,     \* bound on the number of crashes
  SlowHolder,     \* may a running holder keep the lock beyond _LOCK_STALE_SECONDS?
  UnlinkMayFail   \* may unlink raise OSError (a denied or locked directory entry)?

ASSUME LockAssumption ==
  /\ Absent # Orphan
  /\ Absent \notin Procs
  /\ Orphan \notin Procs
  /\ MaxCrashes \in Nat
  /\ SlowHolder \in BOOLEAN
  /\ UnlinkMayFail \in BOOLEAN

VARIABLES
  file,      \* the directory entry: Absent, Orphan, or the process that created it
  aged,      \* the entry's mtime is more than _LOCK_STALE_SECONDS ago
  pc,        \* where each process is in _acquire_lock
  crashes,   \* crashes so far
  everStale  \* has any lock file ever been that old? (history)

vars == <<file, aged, pc, crashes, everStale>>

Places == {"idle", "open", "stat", "unlink", "write", "held"}

TypeOK ==
  /\ file \in Procs \cup {Absent, Orphan}
  /\ aged \in BOOLEAN
  /\ pc \in [Procs -> Places]
  /\ crashes \in 0..MaxCrashes
  /\ everStale \in BOOLEAN

Init ==
  /\ file = Absent
  /\ aged = FALSE
  /\ pc = [p \in Procs |-> "idle"]
  /\ crashes = 0
  /\ everStale = FALSE

Goto(p, from, to) ==
  /\ pc[p] = from
  /\ pc' = [pc EXCEPT ![p] = to]

LooksStale == file # Absent /\ aged

(* What is left behind when p goes away without deleting the file. *)
Abandoned(p) == IF file = p THEN Orphan ELSE file

(* lock_path.unlink(): removes whatever entry has the name; OSError is swallowed. *)
Unlink(p) ==
  \/ /\ file' = Absent
     /\ aged' = FALSE
  \/ /\ UnlinkMayFail
     /\ file' = Abandoned(p)
     /\ UNCHANGED aged

(***************************************************************************)
(* The steps of _acquire_lock and of the release.                          *)
(***************************************************************************)

Request(p) ==
  /\ Goto(p, "idle", "open")
  /\ UNCHANGED <<file, aged, crashes, everStale>>

(* Faulty variant: without O_EXCL the existing file is taken over. *)
CreateWithoutExcl(p) ==
  /\ Goto(p, "open", "write")
  /\ file' = p
  /\ aged' = FALSE
  /\ UNCHANGED <<crashes, everStale>>

(* os.open(..., O_CREAT | O_EXCL) succeeds. *)
Create(p) ==
  /\ Goto(p, "open", "write")
  /\ file = Absent
  /\ file' = p
  /\ aged' = FALSE
  /\ UNCHANGED <<crashes, everStale>>

(* os.open raises FileExistsError. *)
Contend(p) ==
  /\ Goto(p, "open", "stat")
  /\ file # Absent
  /\ UNCHANGED <<file, aged, crashes, everStale>>

(* stat finds a fresh file, or none: sleep and try again. *)
Poll(p) ==
  /\ Goto(p, "stat", "open")
  /\ ~LooksStale
  /\ UNCHANGED <<file, aged, crashes, everStale>>

(* Faulty variants: the `finally` also covers a failed acquisition; the     *)
(* deadline is renewed by every poll.                                      *)
GiveUpReleases(p) ==
  /\ Goto(p, "stat", "idle")
  /\ ~LooksStale
  /\ file' = Absent
  /\ aged' = FALSE
  /\ UNCHANGED <<crashes, everStale>>

GiveUpNever(p) ==
  /\ Goto(p, "stat", "idle")
  /\ FALSE
  /\ UNCHANGED <<file, aged, crashes, everStale>>

(* The same, with the timeout over: TimeoutError. *)
GiveUp(p) ==
  /\ Goto(p, "stat", "idle")
  /\ ~LooksStale
  /\ UNCHANGED <<file, aged, crashes, everStale>>

(* Faulty variant: a stale file is polled like a fresh one. *)
SeeStaleIgnored(p) ==
  /\ Goto(p, "stat", "open")
  /\ LooksStale
  /\ UNCHANGED <<file, aged, crashes, everStale>>

(* stat finds a stale file; the unlink is a later system call. *)
SeeStale(p) ==
  /\ Goto(p, "stat", "unlink")
  /\ LooksStale
  /\ UNCHANGED <<file, aged, crashes, everStale>>

UnlinkStale(p) ==
  /\ Goto(p, "unlink", "open")
  /\ Unlink(p)
  /\ UNCHANGED <<crashes, everStale>>

(* The pid and the time are written into the new file; the lock is held.   *)
WriteIdentity(p) ==
  /\ Goto(p, "write", "held")
  /\ UNCHANGED <<file, aged, crashes, everStale>>

(* That write raises: the file is deleted and the exception propagates. *)
WriteFails(p) ==
  /\ Goto(p, "write", "idle")
  /\ Unlink(p)
  /\ UNCHANGED <<crashes, everStale>>

(* The `finally` of the operation that took the lock. *)
Release(p) ==
  /\ Goto(p, "held", "idle")
  /\ Unlink(p)
  /\ UNCHANGED <<crashes, everStale>>

(* The process dies; its slot is free for another process. *)
Crash(p) ==
  /\ crashes < MaxCrashes
  /\ pc[p] # "idle"
  /\ pc' = [pc EXCEPT ![p] = "idle"]
  /\ file' = Abandoned(p)
  /\ crashes' = crashes + 1
  /\ UNCHANGED <<aged, everStale>>

(* _LOCK_STALE_SECONDS pass since the file was written. *)
Age ==
  /\ ~aged
  /\ \/ file = Orphan
     \/ SlowHolder /\ file # Absent
  /\ aged' = TRUE
  /\ everStale' = TRUE
  /\ UNCHANGED <<file, pc, crashes>>

(* A step of p's own code, other than the decision to ask for the lock. *)
Step(p) ==
  \/ Create(p) \/ Contend(p) \/ Poll(p) \/ GiveUp(p)
  \/ SeeStale(p) \/ UnlinkStale(p)
  \/ WriteIdentity(p) \/ WriteFails(p) \/ Release(p)

Next ==
  \/ \E p \in Procs : Request(p) \/ Step(p) \/ Crash(p)
  \/ Age

Spec == Init /\ [][Next]_vars

(***************************************************************************)
(* Fairness: a running process keeps executing, time passes, a waiter that *)
(* keeps polling runs out of its _LOCK_TIMEOUT_SECONDS, and a denied       *)
(* unlink is transient (a sharing violation).  Asking for the lock is fair *)
(* too: commands keep being issued (tools/continuous_implement_loop.py).   *)
(***************************************************************************)
Fairness ==
  /\ \A p \in Procs :
       /\ WF_vars(Step(p))
       /\ SF_vars(GiveUp(p))
       /\ SF_vars(UnlinkStale(p) /\ file' = Absent)
  /\ WF_vars(Age)

FairSpec ==
  /\ Spec
  /\ Fairness
  /\ \A p \in Procs : WF_vars(Request(p))

(***************************************************************************)
(* Properties.                                                             *)
(***************************************************************************)

(* No two processes are between _acquire_lock and its `finally` at once,   *)
(* whatever crashes and whatever unlink fails, as long as no lock file has *)
(* become stale.  Once one has, two waiters may both decide to delete it,  *)
(* and the second deletes the lock the first has created in the meantime.  *)
MutualExclusion ==
  ~everStale =>
    \A p, q \in Procs : pc[p] = "held" /\ pc[q] = "held" => p = q

(* In the same circumstances a holder's own file is the one that keeps the *)
(* others out: no unlink by name takes away the lock of a process that is  *)
(* still inside.                                                           *)
HolderOwnsFile ==
  ~everStale => \A p \in Procs : pc[p] \in {"write", "held"} => file = p

(* _acquire_lock returns or raises: no waiter polls, or chases stale       *)
(* files, for ever, whatever happened to the holder.                       *)
RequestTerminates ==
  \A p \in Procs : pc[p] = "open" ~> pc[p] \in {"idle", "held"}

(* The lock left by a crashed holder does not block the ledger for ever.   *)
OrphanReclaimed == file = Orphan ~> file # Orphan
=============================================================================
