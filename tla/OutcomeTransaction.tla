------------------------- MODULE OutcomeTransaction -------------------------
(***************************************************************************)
(* The three operations of ledger.py that change an outcome in the ticket  *)
(* and in the ledger: transition_outcome_files,                            *)
(* bind_outcome_verification_amendment_files and                           *)
(* reconcile_terminal_outcome_stale_blockers_files.  Each takes the ledger *)
(* lock, reads both stores, refuses when they disagree, stages and checks  *)
(* both new files, replaces the ledger and then the ticket, puts the       *)
(* ledger back when the second replacement fails, and releases the lock.   *)
(*                                                                         *)
(* The lock excludes (LockFile proves when it does); the lock of a crashed *)
(* process is free again, as it is once it was found stale.  The stores    *)
(* are read and the replacements staged in one step: nobody else writes    *)
(* the ledger under the lock, and staged files are seen by nobody.         *)
(***************************************************************************)
EXTENDS OutcomeRecord

CONSTANTS
  Procs, Nobody,      \* processes; the holder of a free lock
  None,               \* a local variable without a value
  Start,              \* the record both stores hold at first; None, if there is none
  Ops,                \* the operations callers ask for
  MaxCrashes,         \* bound on the number of crashes
  WriteMayFail,       \* may staging or os.replace raise?
  RollbackMayFail     \* may the replacement that undoes the ledger's raise?

ASSUME TransactionAssumption ==
  /\ Nobody \notin Procs
  /\ MaxCrashes \in Nat
  /\ WriteMayFail \in BOOLEAN
  /\ RollbackMayFail \in BOOLEAN

VARIABLES
  ticket, ledger,   \* the outcome in the ticket file and in the ledger
  holder,           \* who has the ledger lock
  pc, op,           \* where each process is, and in which operation
  staged,           \* the record each process has staged
  before,           \* the ledger's record as each process read it (ledger_bytes)
  crashes,
  split             \* has an operation ended between its two replacements? (history)

vars == <<ticket, ledger, holder, pc, op, staged, before, crashes, split>>

Places ==
  {"idle", "wait", "read", "ledger", "ticket", "rollback", "return", "raise"}

TypeOK ==
  /\ ticket \in Record \cup {None}
  /\ ledger \in Record \cup {None}
  /\ holder \in Procs \cup {Nobody}
  /\ pc \in [Procs -> Places]
  /\ op \in [Procs -> Ops \cup {None}]
  /\ staged \in [Procs -> Record \cup {None}]
  /\ before \in [Procs -> Record \cup {None}]
  /\ crashes \in 0..MaxCrashes
  /\ split \in BOOLEAN

Init ==
  /\ ticket = Start
  /\ ledger = Start
  /\ holder = Nobody
  /\ pc = [p \in Procs |-> "idle"]
  /\ op = [p \in Procs |-> None]
  /\ staged = [p \in Procs |-> None]
  /\ before = [p \in Procs |-> None]
  /\ crashes = 0
  /\ split = FALSE

Goto(p, from, to) ==
  /\ pc[p] = from
  /\ pc' = [pc EXCEPT ![p] = to]

(* The ticket is replaced last: what it holds is the committed record. *)
Store == INSTANCE OutcomeStore WITH outcome <- ticket

(* The records the operation wants in the ticket and in the ledger.  An    *)
(* advance goes through update_ledger_doc, which reconciles it with the    *)
(* record it finds there; the others assign the entry.                     *)
ForTicket(o, r) == Store!Result(o, r)
ForLedger(o, r) ==
  IF o.kind = "advance" /\ ForTicket(o, r) # Refused
  THEN Reconcile(r, ForTicket(o, r))
  ELSE ForTicket(o, r)

(* Faulty variant: the stores are not compared. *)
AcceptableAnyway(p) ==
  /\ ticket # None
  /\ ForTicket(op[p], ticket) # Refused
  /\ ForLedger(op[p], ticket) = ForTicket(op[p], ticket)

(* The stores agree, the operation is legal, and what is staged for the    *)
(* ledger is what is staged for the ticket.                                *)
Acceptable(p) ==
  /\ ticket # None
  /\ ticket = ledger
  /\ ForTicket(op[p], ticket) # Refused
  /\ ForLedger(op[p], ticket) = ForTicket(op[p], ticket)

-----------------------------------------------------------------------------

Call(p, o) ==
  /\ Goto(p, "idle", "wait")
  /\ op' = [op EXCEPT ![p] = o]
  /\ UNCHANGED <<ticket, ledger, holder, staged, before, crashes, split>>

Acquire(p) ==
  /\ holder = Nobody
  /\ Goto(p, "wait", "read")
  /\ holder' = p
  /\ UNCHANGED <<ticket, ledger, op, staged, before, crashes, split>>

TimeOut(p) ==
  /\ holder # Nobody
  /\ Goto(p, "wait", "raise")
  /\ UNCHANGED <<ticket, ledger, holder, op, staged, before, crashes, split>>

(* Faulty variant: the updates are staged without the new state. *)
PrepareSameState(p) ==
  /\ Goto(p, "read", "ledger")
  /\ Acceptable(p)
  /\ ForTicket(op[p], ticket) # ticket
  /\ staged' = [staged EXCEPT ![p] = [ForTicket(op[p], ticket) EXCEPT !.state = ticket.state]]
  /\ before' = [before EXCEPT ![p] = ledger]
  /\ UNCHANGED <<ticket, ledger, holder, op, crashes, split>>

Prepare(p) ==
  /\ Goto(p, "read", "ledger")
  /\ Acceptable(p)
  /\ ForTicket(op[p], ticket) # ticket
  /\ staged' = [staged EXCEPT ![p] = ForTicket(op[p], ticket)]
  /\ before' = [before EXCEPT ![p] = ledger]
  /\ UNCHANGED <<ticket, ledger, holder, op, crashes, split>>

(* The operation is refused, or the new files cannot be staged. *)
Refuse(p) ==
  /\ Goto(p, "read", "raise")
  /\ ~Acceptable(p) \/ WriteMayFail
  /\ UNCHANGED <<ticket, ledger, holder, op, staged, before, crashes, split>>

(* The amendment is bound already, or there is no blocker to remove. *)
NothingToDo(p) ==
  /\ Goto(p, "read", "return")
  /\ Acceptable(p)
  /\ ForTicket(op[p], ticket) = ticket
  /\ UNCHANGED <<ticket, ledger, holder, op, staged, before, crashes, split>>

ReplaceLedger(p) ==
  /\ Goto(p, "ledger", "ticket")
  /\ ledger' = staged[p]
  /\ UNCHANGED <<ticket, holder, op, staged, before, crashes, split>>

ReplaceLedgerFails(p) ==
  /\ WriteMayFail
  /\ Goto(p, "ledger", "raise")
  /\ UNCHANGED <<ticket, ledger, holder, op, staged, before, crashes, split>>

ReplaceTicket(p) ==
  /\ Goto(p, "ticket", "return")
  /\ ticket' = staged[p]
  /\ UNCHANGED <<ledger, holder, op, staged, before, crashes, split>>

(* Faulty variant: the ledger is not put back. *)
ReplaceTicketFailsForGood(p) ==
  /\ WriteMayFail
  /\ Goto(p, "ticket", "raise")
  /\ UNCHANGED <<ticket, ledger, holder, op, staged, before, crashes, split>>

ReplaceTicketFails(p) ==
  /\ WriteMayFail
  /\ Goto(p, "ticket", "rollback")
  /\ UNCHANGED <<ticket, ledger, holder, op, staged, before, crashes, split>>

Rollback(p) ==
  /\ Goto(p, "rollback", "raise")
  /\ ledger' = before[p]
  /\ UNCHANGED <<ticket, holder, op, staged, before, crashes, split>>

RollbackFails(p) ==
  /\ RollbackMayFail
  /\ Goto(p, "rollback", "raise")
  /\ split' = TRUE
  /\ UNCHANGED <<ticket, ledger, holder, op, staged, before, crashes>>

(* p is between the two replacements. *)
Halfway(p) == pc[p] \in {"ticket", "rollback"}

(* The end of p's operation, normal or not, of its lock and its locals.    *)
Leave(p) ==
  /\ pc' = [pc EXCEPT ![p] = "idle"]
  /\ holder' = IF holder = p THEN Nobody ELSE holder
  /\ op' = [op EXCEPT ![p] = None]
  /\ staged' = [staged EXCEPT ![p] = None]
  /\ before' = [before EXCEPT ![p] = None]
  /\ UNCHANGED <<ticket, ledger>>

Return(p) ==
  /\ pc[p] = "return"
  /\ Leave(p)
  /\ UNCHANGED <<crashes, split>>

Raise(p) ==
  /\ pc[p] = "raise"
  /\ Leave(p)
  /\ UNCHANGED <<crashes, split>>

Crash(p) ==
  /\ crashes < MaxCrashes
  /\ Leave(p)
  /\ crashes' = crashes + 1
  /\ split' = (split \/ Halfway(p))

(* A step inside p's operation. *)
Inside(p) ==
  \/ Acquire(p) \/ TimeOut(p)
  \/ Prepare(p) \/ Refuse(p) \/ NothingToDo(p)
  \/ ReplaceLedger(p) \/ ReplaceLedgerFails(p)
  \/ ReplaceTicket(p) \/ ReplaceTicketFails(p)
  \/ Rollback(p) \/ RollbackFails(p)

Next ==
  \E p \in Procs :
    \/ \E o \in Ops : Call(p, o)
    \/ Inside(p) \/ Return(p) \/ Raise(p)
    \/ pc[p] # "idle" /\ Crash(p)

Spec == Init /\ [][Next]_vars

-----------------------------------------------------------------------------
(* Properties. *)

(* The stores differ only while the holder of the lock is between its two  *)
(* replacements, where a reader without the lock (the batch runner, the    *)
(* review context) may see it and an operation never, or after a process   *)
(* died there or could not put the ledger back.                            *)
Agreement ==
  ~split => (ticket # ledger => \E p \in Procs : holder = p /\ Halfway(p))

Diverged == ticket # ledger /\ \A p \in Procs : ~Halfway(p)

(* After a crash between the replacements, or a rollback that failed, no   *)
(* operation changes either store any more: the disagreement is refused,   *)
(* never resolved by guessing which record is right (ledger.py:251).       *)
DivergedFrozen == [][Diverged => UNCHANGED <<ticket, ledger>>]_vars

(* The ticket is the one store of OutcomeStore: whatever crashes or fails, *)
(* it changes only by the whole result of an operation on what it held.    *)
ImplementsStore == Store!Spec
=============================================================================
