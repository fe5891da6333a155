----------------------- MODULE OutcomeWorkflowProofs -------------------------
(***************************************************************************)
(* Proofs about the outcome transactions and the commands over them, for   *)
(* any number of processes, any number of crashes and failed writes.       *)
(* Transactions alone keep both stores together; with the review merge,    *)
(* which writes the ticket without the lock, they are kept together as     *)
(* long as nobody is in a transaction while it writes.                     *)
(***************************************************************************)
EXTENDS OutcomeWorkflow, OutcomeLifecycleProofs

Locked == {"read", "ledger", "ticket", "rollback"}

Shape ==
  /\ holder \in Procs \cup {Nobody}
  /\ pc \in [Procs -> Places]
  /\ split \in BOOLEAN
  /\ op = [p \in Procs |-> op[p]]
  /\ staged = [p \in Procs |-> staged[p]]
  /\ before = [p \in Procs |-> before[p]]

(* What p knows of the stores while it has the lock.                       *)
Knows(p) ==
  /\ pc[p] \in Locked => holder = p
  /\ pc[p] \in {"ledger", "ticket"} =>
       staged[p] = ForTicket(op[p], ticket) /\ staged[p] # Refused
  /\ pc[p] = "ledger" => ledger = ticket /\ before[p] = ledger
  /\ pc[p] = "ticket" => ledger = staged[p] /\ before[p] = ticket
  /\ pc[p] = "rollback" => before[p] = ticket

Asked(p) == pc[p] \in {"wait"} \cup Locked => op[p] \in Ops

(* The inductive invariant: a disagreement of the stores has a process in  *)
(* between, and whoever is about to write knows what the stores hold.      *)
TransactionInv ==
  /\ Shape
  /\ \A p \in Procs : Asked(p) /\ Knows(p)
  /\ ~split => (ticket # ledger => \E p \in Procs : Halfway(p))

(* Both stores start with the same record and nobody is in between.        *)
LEMMA InitTransactionInv == Init => TransactionInv
BY TransactionAssumption
   DEF TransactionAssumption, Init, TransactionInv, Shape, Asked, Knows, Halfway, Places, Locked

(* One step of an operation, from its call to its end.                     *)
LEMMA InsideKeepsInv ==
  ASSUME TransactionInv, NEW p \in Procs, Inside(p) \/ \E o \in Ops : Call(p, o)
  PROVE  TransactionInv'
<1> USE TransactionAssumption
    DEF TransactionAssumption, TransactionInv, Shape, Asked, Knows, Halfway, Places, Locked, Goto
<1>1. CASE \E o \in Ops : Call(p, o)  BY <1>1 DEF Call
<1>2. CASE Acquire(p)                 BY <1>2 DEF Acquire
<1>3. CASE TimeOut(p)                 BY <1>3 DEF TimeOut
<1>4. CASE Prepare(p)                 BY <1>4 DEF Prepare, Acceptable
<1>5. CASE Refuse(p)                  BY <1>5 DEF Refuse
<1>6. CASE NothingToDo(p)             BY <1>6 DEF NothingToDo
<1>7. CASE ReplaceLedger(p)           BY <1>7 DEF ReplaceLedger
<1>8. CASE ReplaceLedgerFails(p)      BY <1>8 DEF ReplaceLedgerFails
<1>9. CASE ReplaceTicket(p)           BY <1>9 DEF ReplaceTicket
<1>10. CASE ReplaceTicketFails(p)     BY <1>10 DEF ReplaceTicketFails
<1>11. CASE Rollback(p)               BY <1>11 DEF Rollback
<1>12. CASE RollbackFails(p)          BY <1>12 DEF RollbackFails
<1> QED
  BY <1>1, <1>2, <1>3, <1>4, <1>5, <1>6, <1>7, <1>8, <1>9, <1>10, <1>11, <1>12
     DEF Inside

(* The end of an operation, of its own accord or by a crash.               *)
LEMMA LeaveKeepsInv ==
  ASSUME TransactionInv, NEW p \in Procs,
         Return(p) \/ Raise(p) \/ (pc[p] # "idle" /\ Crash(p))
  PROVE  TransactionInv'
<1> USE TransactionAssumption
    DEF TransactionAssumption, TransactionInv, Shape, Asked, Knows, Halfway, Places, Locked, Leave
<1>1. CASE Return(p)  BY <1>1 DEF Return
<1>2. CASE Raise(p)   BY <1>2 DEF Raise
<1>3. CASE Crash(p)   BY <1>3 DEF Crash
<1> QED
  BY <1>1, <1>2, <1>3

(* The inductive invariant holds in every behaviour.                       *)
LEMMA TransactionInvariant == Spec => []TransactionInv
<1>1. TransactionInv /\ [Next]_vars => TransactionInv'
  <2> SUFFICES ASSUME TransactionInv, [Next]_vars PROVE TransactionInv'
    OBVIOUS
  <2>1. CASE Next
    BY <2>1, InsideKeepsInv, LeaveKeepsInv DEF Next
  <2>2. CASE UNCHANGED vars
    BY <2>2 DEF vars, TransactionInv, Shape, Asked, Knows, Halfway, ForTicket
  <2> QED
    BY <2>1, <2>2
<1> QED
  BY <1>1, InitTransactionInv, PTL DEF Spec

(* The ticket and the ledger hold the same outcome unless the process that *)
(* has the lock is between its two replacements, or one ended there        *)
(* (ledger.py, transition_outcome_files and its two siblings).             *)
THEOREM AgreementHolds == Spec => []Agreement
<1>1. TransactionInv => Agreement
  BY DEF TransactionInv, Agreement, Knows, Halfway, Locked
<1> QED
  BY <1>1, TransactionInvariant, PTL

(* Stores that a crash or a failed rollback left apart are never written   *)
(* by a transaction again: none resolves the disagreement by guessing      *)
(* (ledger.py:251).                                                        *)
THEOREM NoGuess == Spec => DivergedFrozen
<1>1. TransactionInv /\ [Next]_vars => [Diverged => UNCHANGED <<ticket, ledger>>]_vars
  <2> SUFFICES ASSUME TransactionInv, Next, Diverged PROVE UNCHANGED <<ticket, ledger>>
    OBVIOUS
  <2> QED
    BY DEF TransactionInv, Knows, Diverged, Halfway, Next, Inside, Goto, Call, Acquire, TimeOut,
           Prepare, Refuse, NothingToDo, ReplaceLedger, ReplaceLedgerFails, ReplaceTicket,
           ReplaceTicketFails, Rollback, RollbackFails, Return, Raise, Crash, Leave
<1> QED
  BY <1>1, TransactionInvariant, PTL DEF Spec, DivergedFrozen

(* The ticket is an atomic store of the results of operations, whatever    *)
(* crashes and fails on the way (OutcomeStore).                            *)
THEOREM Implementation == Spec => ImplementsStore
<1>1. Init => Store!Init
  BY DEF Init, Store!Init
<1>2. TransactionInv /\ [Next]_vars => [Store!Next]_ticket
  <2> SUFFICES ASSUME TransactionInv, Next, ticket' # ticket PROVE Store!Next
    BY DEF vars
  <2>1. PICK p \in Procs : ReplaceTicket(p)
    BY DEF Next, Inside, Goto, Call, Acquire, TimeOut, Prepare, Refuse, NothingToDo,
           ReplaceLedger, ReplaceLedgerFails, ReplaceTicketFails, Rollback,
           RollbackFails, Return, Raise, Crash, Leave
  <2>2. Store!Apply(op[p]) /\ op[p] \in Ops
    BY <2>1 DEF ReplaceTicket, Goto, TransactionInv, Asked, Knows, Locked, ForTicket, Store!Apply
  <2> QED
    BY <2>2 DEF Store!Next
<1> QED
  BY <1>1, <1>2, TransactionInvariant, PTL DEF Spec, ImplementsStore, Store!Spec

-----------------------------------------------------------------------------
(* What every command leaves behind, however the commands interleave.      *)

(* An outcome that the commands write: sound, never back to planned, and   *)
(* with its tests behind it if the implementation had any.                 *)
Good(r) ==
  /\ Sound(r)
  /\ r.state # "planned"
  /\ Tested => r.state # "implemented"

GoodOrNone(r) == r = None \/ Good(r)

(* What the commands ask of a transaction.                                 *)
Legal(o) ==
  \/ o.kind = "bind" /\ o.commit \in Commits
  \/ /\ o.kind = "advance"
     /\ o.state \in States \ {"planned", "implemented"}
     /\ o.at \in Times
     /\ Typed(o.updates)

WorkflowShape ==
  /\ Shape
  /\ at \in [Procs -> Sites]
  /\ copy = [p \in Procs |-> copy[p]]
  /\ todo = [p \in Procs |-> todo[p]]
  /\ wish = [p \in Procs |-> wish[p]]
  /\ torn \in BOOLEAN

CallSites == {"restoring", "proving", "concluding", "blocking", "advancing"}

(* Where a process is says what it has in hand.                            *)
InHand(p) ==
  /\ pc[p] # "idle" <=> at[p] \in CallSites
  /\ pc[p] \in {"wait"} \cup Locked => Legal(op[p])
  /\ pc[p] \in {"ledger", "ticket"} => Good(staged[p])
  /\ pc[p] \in {"ledger", "ticket", "rollback"} => Good(before[p])
  /\ GoodOrNone(copy[p]) /\ GoodOrNone(wish[p])
  /\ at[p] \in {"role", "advance"} => copy[p] # None
  /\ at[p] \in {"file", "write", "record"} => wish[p] # None

(* A ticket that nobody has written an outcome to.                         *)
Untouched ==
  ticket = None =>
    /\ ledger = None
    /\ \A p \in Procs : copy[p] = None /\ at[p] \in {"out", "merge", "propose", "file", "write"}

CommandInv ==
  /\ WorkflowShape
  /\ GoodOrNone(ticket) /\ GoodOrNone(ledger)
  /\ \A p \in Procs : InHand(p)
  /\ Untouched

-----------------------------------------------------------------------------
(* The stores, while a review merge writes undisturbed.                    *)

Writing(p) == at[p] \in {"write", "record"}

(* While a review merge is between reading the ticket and writing the      *)
(* ledger, nobody is in a transaction or there as well.                    *)
MergesAlone ==
  \A p, q \in Procs : p # q /\ Writing(p) => pc[q] = "idle" /\ ~Writing(q)

(* One command at a time.                                                  *)
Serial == \A p, q \in Procs : at[p] # "out" /\ at[q] # "out" => p = q

Intact == ~split /\ ~torn

(* What a review merge knows of the stores it writes.                      *)
Merging(p) ==
  /\ at[p] = "write" => copy[p] = ticket
  /\ at[p] = "record" /\ Intact =>
       Recorded(ledger, wish[p]) = ticket /\ Recorded(ledger, wish[p]) # Refused

Together ==
  Intact => \/ ticket = ledger
            \/ ledger = None
            \/ \E p \in Procs : Halfway(p) \/ at[p] = "record"

(* Before the ledger has an outcome, every one there is is that of the merge. *)
FirstOnly ==
  ledger = None =>
    /\ ticket \in {None, FreshOutcome}
    /\ \A p \in Procs : copy[p] \in {None, FreshOutcome} /\ wish[p] \in {None, FreshOutcome}

StoresInv ==
  /\ CommandInv
  /\ \A p \in Procs : Knows(p) /\ Merging(p)
  /\ Together
  /\ FirstOnly

-----------------------------------------------------------------------------
(* The receipts, with one command at a time.                               *)

Keeps(o, r) ==
  o.kind = "advance" =>
    \A role \in Roles \cap DOMAIN o.updates : r[role] \subseteq o.updates[role]

(* What one command has read is what the ticket still holds.               *)
UpToDate(p) ==
  /\ at[p] \in {"role", "advance"} => copy[p] = ticket
  /\ at[p] \in {"merge", "propose"} /\ ticket # None => copy[p] = ticket
  /\ at[p] \in {"file", "write"} /\ ticket # None => wish[p] = Reconcile(ticket, FreshOutcome)
  /\ pc[p] \in {"wait", "read", "ledger", "ticket"} => Keeps(op[p], ticket)

SerialInv == StoresInv /\ \A p \in Procs : UpToDate(p)

-----------------------------------------------------------------------------
(* The records the commands compute.                                       *)

(* The fields of a candidate.                                              *)
LEMMA CandidateFields ==
  ASSUME NEW r, NEW target, NEW t, NEW u, MayUpdate(r, u)
  PROVE  LET c == Candidate(r, target, t, u)
         IN /\ c.state = target /\ c.recorded_at = t
            /\ \A f \in IdentityFields \cup {"amendment"} : c[f] = r[f]
            /\ \A f \in FreeFields : c[f] = IF f \in DOMAIN u THEN u[f] ELSE r[f]
BY DEF Candidate, MayUpdate, Fields, FreeFields, ControlledFields, IdentityFields

(* What a review merge proposes is the first record of a life.             *)
LEMMA FreshGood == Good(FreshOutcome) /\ Now \in Times
<1>1. Now \in Times
  BY WorkflowAssumption DEF Now, WorkflowAssumption
<1>2. FreshOutcome \in Record
  BY <1>1, WorkflowAssumption
  DEF FreshOutcome, Record, States, Recurrences, WorkflowAssumption
<1>3. Valid(FreshOutcome)
  BY RecordAssumption, WorkflowAssumption
  DEF FreshOutcome, RecordAssumption, WorkflowAssumption, Valid, AmendmentSound, Amended,
      RelationshipStates, TestVerifiedStates, OriginalScenarioStates, ImplementedStates,
      NeedsOriginal, NeedsLive, NeedsMitigation
<1>4. /\ FreshOutcome.state # "planned"
      /\ Tested => FreshOutcome.state # "implemented"
  BY DEF FreshOutcome
<1> QED
  BY <1>1, <1>2, <1>3, <1>4 DEF Good, Sound

(* A transition to anything but planned or implemented is good.            *)
LEMMA TransitionGood ==
  ASSUME NEW r, Good(r), NEW target \in States \ {"planned", "implemented"},
         NEW t \in Times, NEW u, Typed(u), Transition(r, target, t, u) # Refused
  PROVE  Good(Transition(r, target, t, u))
<1>1. r \in Record
  BY DEF Good, Sound
<1>2. /\ MayUpdate(r, u)
      /\ Transition(r, target, t, u) = Candidate(r, target, t, u)
      /\ Sound(Candidate(r, target, t, u))
  BY <1>1, TransitionSound
<1>3. Candidate(r, target, t, u).state = target
  BY <1>2, CandidateFields
<1> QED
  BY <1>2, <1>3 DEF Good

(* OutcomeStore's operators are those of OutcomeRecord.                    *)
LEMMA SameOperators ==
  /\ \A r, target, t, u : Store!Transition(r, target, t, u) = Transition(r, target, t, u)
  /\ \A r, c : Store!Bind(r, c) = Bind(r, c)
<1> USE DEF Store!OriginalScenarioStates, OriginalScenarioStates,
            Store!TestVerifiedStates, TestVerifiedStates, Store!ImplementedStates, ImplementedStates,
            Store!AmendmentRecordStates, AmendmentRecordStates,
            Store!AmendmentBindableStates, AmendmentBindableStates,
            Store!RelationshipStates, RelationshipStates,
            Store!IdentityFields, IdentityFields, Store!ControlledFields, ControlledFields,
            Store!FreeFields, FreeFields
<1>1. Store!Allowed = Allowed
  BY DEF Store!Allowed, Allowed, Store!States, States
<1>2. \A r : Store!Validated(r) = Validated(r)
  <2>1. \A r : /\ Store!NeedsOriginal(r) = NeedsOriginal(r)
               /\ Store!NeedsLive(r) = NeedsLive(r)
               /\ Store!NeedsMitigation(r) = NeedsMitigation(r)
    BY DEF Store!NeedsOriginal, NeedsOriginal, Store!NeedsLive, NeedsLive,
           Store!NeedsMitigation, NeedsMitigation
  <2>2. \A s : Store!Amended(s) = Amended(s)
    BY DEF Store!Amended, Amended
  <2>3. \A s, c : Store!Effective(s, c) = Effective(s, c)
    BY DEF Store!Effective, Effective
  <2>4. \A r : Store!AmendmentSound(r) = AmendmentSound(r)
    BY <2>1, <2>2, <2>3 DEF Store!AmendmentSound, AmendmentSound
  <2>5. \A r : Store!RecurrenceRecorded(r) = RecurrenceRecorded(r)
    BY <2>3 DEF Store!RecurrenceRecorded, RecurrenceRecorded
  <2>6. \A r : Store!Valid(r) = Valid(r)
    BY <2>1, <2>4, <2>5 DEF Store!Valid, Valid
  <2> QED
    BY <2>6 DEF Store!Validated, Validated
<1>3. \A r, u : Store!MayUpdate(r, u) = MayUpdate(r, u)
  BY DEF Store!MayUpdate, MayUpdate
<1>4. \A r, target, t, u : Store!Candidate(r, target, t, u) = Candidate(r, target, t, u)
  BY DEF Store!Candidate, Candidate, Store!Fields, Fields
<1>5. \A r, target, t, u : Store!Transition(r, target, t, u) = Transition(r, target, t, u)
  BY <1>1, <1>2, <1>3, <1>4 DEF Store!Transition, Transition
<1>6. \A r, c : Store!Bind(r, c) = Bind(r, c)
  BY <1>2 DEF Store!Bind, Bind
<1> QED
  BY <1>5, <1>6

(* An operation of a command makes a good record of a good one.            *)
LEMMA ResultGood ==
  ASSUME NEW r, Good(r), NEW o, Legal(o), ForTicket(o, r) # Refused
  PROVE  Good(ForTicket(o, r))
<1>1. r \in Record
  BY DEF Good, Sound
<1>2. CASE o.kind = "bind"
  <2>1. ForTicket(o, r) = Bind(r, o.commit) /\ o.commit \in Commits
    BY <1>2, SameOperators DEF ForTicket, Store!Result, Legal
  <2>2. ForTicket(o, r) = Validated([r EXCEPT !.amendment = o.commit])
    BY <2>1 DEF Bind
  <2>3. [r EXCEPT !.amendment = o.commit] \in Record
        /\ [r EXCEPT !.amendment = o.commit].state = r.state
    BY <1>1, <2>1 DEF Record
  <2>4. ForTicket(o, r) = [r EXCEPT !.amendment = o.commit] /\ Sound(ForTicket(o, r))
    BY <2>2, <2>3, ValidatedSound
  <2> QED
    BY <2>3, <2>4 DEF Good
<1>3. CASE o.kind = "advance"
  <2>1. ForTicket(o, r) = Transition(r, o.state, o.at, o.updates)
    BY <1>3, SameOperators DEF ForTicket, Store!Result
  <2>2. /\ o.state \in States \ {"planned", "implemented"}
        /\ o.at \in Times
        /\ Typed(o.updates)
    BY <1>3 DEF Legal
  <2> QED
    BY <2>1, <2>2, TransitionGood
<1> QED
  BY <1>2, <1>3 DEF Legal

(* Reconciliation makes a good record of two good ones.                    *)
LEMMA ReconcileGood ==
  ASSUME NEW r, Good(r), NEW c, Good(c), Reconcile(r, c) # Refused
  PROVE  Good(Reconcile(r, c))
<1>1. r \in Record /\ c \in Record
  BY DEF Good, Sound
<1>2. c.state \in States /\ c.state # "planned" /\ c.recorded_at \in Times /\ Typed(Handed(c))
  BY <1>1, HandedTyped DEF Record, Good
<1>3. CASE Reconcile(r, c) = r
  BY <1>3
<1>4. CASE Reconcile(r, c) = Transition(r, c.state, c.recorded_at, Handed(c))
  <2>1. CASE c.state = "implemented"
    <3>1. /\ MayUpdate(r, Handed(c))
          /\ Reconcile(r, c) = Candidate(r, c.state, c.recorded_at, Handed(c))
          /\ Sound(Reconcile(r, c))
      BY <1>1, <1>2, <1>4, TransitionSound
    <3>2. Reconcile(r, c).state = c.state
      BY <3>1, CandidateFields
    <3> QED
      BY <3>1, <3>2 DEF Good
  <2>2. CASE c.state # "implemented"
    BY <1>2, <1>4, <2>2, TransitionGood
  <2> QED
    BY <2>1, <2>2
<1> QED
  BY <1>3, <1>4, ReconcileCases

(* So does what a store is to hold when an outcome is recorded.            *)
LEMMA RecordedGood ==
  ASSUME NEW found, GoodOrNone(found), NEW r, Good(r), Recorded(found, r) # Refused
  PROVE  Good(Recorded(found, r))
BY ReconcileGood DEF Recorded, GoodOrNone

(* A good record is a record, and so not None.                             *)
LEMMA GoodIsSome == ASSUME NEW r, Good(r) PROVE r \in Record /\ r # None
BY WorkflowAssumption DEF WorkflowAssumption, Good, Sound

-----------------------------------------------------------------------------
(* CommandInv is inductive for any interleaving of the commands.           *)

(* Nobody has a command when the stores are first read.                    *)
LEMMA CommandInit == WorkflowInit => CommandInv
<1> SUFFICES ASSUME WorkflowInit PROVE CommandInv
  OBVIOUS
<1>1. GoodOrNone(Start) /\ GoodOrNone(None)
  BY StartAssumption, FreshGood DEF StartAssumption, GoodOrNone
<1> QED
  BY <1>1
  DEF WorkflowInit, Init, CommandInv, WorkflowShape, Shape, Places, Sites, CallSites, Locked,
      InHand, Untouched

(* A step of a transaction.                                                *)
LEMMA CommandWithin ==
  ASSUME CommandInv, NEW p \in Procs, Within(p)
  PROVE  CommandInv'
<1> USE DEF CommandInv, WorkflowShape, Shape, InHand, Untouched, Within, wvars, Goto, Locked, Places,
            CallSites, GoodOrNone
<1>1. CASE Acquire(p)                 BY <1>1 DEF Acquire
<1>2. CASE TimeOut(p)                 BY <1>2 DEF TimeOut
<1>3. CASE Prepare(p)
  <2>1. Good(ticket) /\ Good(ForTicket(op[p], ticket))
    BY <1>3, ResultGood DEF Prepare, Acceptable
  <2> QED
    BY <1>3, <2>1 DEF Prepare, Acceptable
<1>4. CASE Refuse(p)                  BY <1>4 DEF Refuse
<1>5. CASE NothingToDo(p)             BY <1>5 DEF NothingToDo
<1>6. CASE ReplaceLedger(p)           BY <1>6 DEF ReplaceLedger
<1>7. CASE ReplaceLedgerFails(p)      BY <1>7 DEF ReplaceLedgerFails
<1>8. CASE ReplaceTicket(p)           BY <1>8, GoodIsSome DEF ReplaceTicket
<1>9. CASE ReplaceTicketFails(p)      BY <1>9 DEF ReplaceTicketFails
<1>10. CASE Rollback(p)               BY <1>10 DEF Rollback
<1>11. CASE RollbackFails(p)          BY <1>11 DEF RollbackFails
<1> QED
  BY <1>1, <1>2, <1>3, <1>4, <1>5, <1>6, <1>7, <1>8, <1>9, <1>10, <1>11 DEF Inside

(* A command calls a transaction.                                          *)
LEMMA CommandCalls ==
  ASSUME CommandInv, NEW p \in Procs, NEW site \in CallSites, NEW o, Legal(o),
         ticket # None, CallFrom(p, site, o)
  PROVE  CommandInv'
BY DEF CommandInv, WorkflowShape, Shape, InHand, Untouched, CallFrom, Call, GoOn, Goto, Locked,
       Places, Sites, CallSites

(* A transaction ends, and the command goes on or ends with it.            *)
LEMMA CommandLeaves ==
  ASSUME CommandInv, NEW p \in Procs, at[p] \in CallSites, Leave(p), split' \in BOOLEAN,
         NEW site \in {"out", "aborted", "plan", "roles", "blocked"}, GoOn(p, site),
         copy' \in {copy, [copy EXCEPT ![p] = None]},
         wish' \in {wish, [wish EXCEPT ![p] = None]},
         \E roles : todo' = [todo EXCEPT ![p] = roles],
         torn' \in BOOLEAN
  PROVE  CommandInv'
BY TransactionAssumption, ZenonT(60)
DEF TransactionAssumption, CommandInv, WorkflowShape, Shape, InHand, Untouched, GoOn, Leave, Locked,
    Places, Sites, CallSites, GoodOrNone

(* A review merge. *)
LEMMA CommandMerge ==
  ASSUME CommandInv, NEW p \in Procs, ReviewMerge(p)
  PROVE  CommandInv'
<1> USE DEF CommandInv, WorkflowShape, Shape, InHand, Untouched, Between, GoOn, GoOnOrExit, Exit,
            Forget, vars, Locked, Sites, CallSites, GoodOrNone
<1>1. CASE Preflight(p)       BY <1>1 DEF Preflight
<1>2. CASE MergePR(p)         BY <1>2 DEF MergePR
<1>3. CASE Propose(p)
  <2>1. Recorded(copy[p], FreshOutcome) # Refused => Good(Recorded(copy[p], FreshOutcome))
    BY FreshGood, RecordedGood
  <2> QED
    BY <1>3, <2>1, GoodIsSome DEF Propose
<1>4. CASE ReadTicket(p)      BY <1>4 DEF ReadTicket
<1>5. CASE WriteTicket(p)
  <2>1. Recorded(copy[p], wish[p]) # Refused => Good(Recorded(copy[p], wish[p]))
    BY <1>5, RecordedGood DEF WriteTicket
  <2> QED
    BY <1>5, <2>1, GoodIsSome DEF WriteTicket
<1>6. CASE RecordInLedger(p)
  <2>1. Recorded(ledger, wish[p]) # Refused => Good(Recorded(ledger, wish[p]))
    BY <1>6, RecordedGood DEF RecordInLedger
  <2> QED
    BY <1>6, <2>1, GoodIsSome DEF RecordInLedger
<1>7. CASE RecordFails(p)     BY <1>7 DEF RecordFails
<1> QED
  BY <1>1, <1>2, <1>3, <1>4, <1>5, <1>6, <1>7 DEF ReviewMerge

(* The receipts of one role, in a record of updates, are typed.            *)
LEMMA EvidenceTyped ==
  ASSUME NEW r, Good(r), NEW role \in Roles, NEW x \in Receipts
  PROVE  /\ MergedEvidence(r, role, x) \subseteq Receipts
         /\ Typed([f \in {role} |-> MergedEvidence(r, role, x)])
         /\ Typed([f \in {role, "risks"} |-> IF f = role THEN MergedEvidence(r, role, x)
                                                         ELSE r.risks \ {"blocked"}])
<1>1. r[role] \subseteq Receipts /\ r.risks \subseteq Risks
  BY DEF Good, Sound, Record, Roles
<1>2. MergedEvidence(r, role, x) \subseteq Receipts
  BY <1>1 DEF MergedEvidence
<1> QED
  BY <1>1, <1>2 DEF Typed, Roles

(* So is what an operator brings, which drops no receipt of a role          *)
(* (commands/outcome.py:191-321).                                          *)
LEMMA BroughtTyped ==
  ASSUME NEW r, Good(r), NEW u \in Brought(r)
  PROVE  /\ Typed(u)
         /\ \A role \in Roles \cap DOMAIN u : r[role] \subseteq u[role]
         /\ \A risks \in RiskLists :
              /\ Typed(WithRisks(u, risks))
              /\ \A role \in Roles \cap DOMAIN WithRisks(u, risks) :
                   r[role] \subseteq WithRisks(u, risks)[role]
<1>1. \A risks \in RiskLists : risks \subseteq Risks
  BY WorkflowAssumption DEF WorkflowAssumption
<1>2. r.recurrence_evidence \subseteq Receipts
  BY DEF Good, Sound, Record
<1>3. \/ \E role \in Roles, x \in Receipts : u = [f \in {role} |-> MergedEvidence(r, role, x)]
      \/ \E x \in Receipts : u = [recurrence |-> "completed",
                                  recurrence_evidence |-> r.recurrence_evidence \cup {x}]
      \/ u = [recurrence |-> "not_observed", recurrence_evidence |-> {}]
  <2> DEFINE fresh == {x \in Receipts : Executed[x] = r.amendment}
             proofs == {[f \in {role} |-> MergedEvidence(r, role, x)] : role \in Roles \cap Brings, x \in fresh}
             observed == {[recurrence |-> "completed",
                           recurrence_evidence |-> r.recurrence_evidence \cup {x}] : x \in fresh}
             unobserved == [recurrence |-> "not_observed", recurrence_evidence |-> {}]
  <2>1. u \in proofs \cup (IF "recurrence" \in Brings THEN observed \cup {unobserved} ELSE {})
    BY DEF Brought
  <2>2. CASE u \in proofs
    <3> DEFINE proof(role, x) == [f \in {role} |-> MergedEvidence(r, role, x)]
    <3>1. u \in {proof(role, x) : role \in Roles \cap Brings, x \in fresh}
      BY <2>2
    <3>2. \A x \in fresh : x \in Receipts
      OBVIOUS
    <3> HIDE DEF proof, fresh
    <3>3. \E role \in Roles, x \in Receipts : u = proof(role, x)
      BY <3>1, <3>2
    <3> QED
      BY <3>3 DEF proof
  <2>3. CASE u \in observed
    BY <2>3
  <2>4. CASE u = unobserved
    BY <2>4
  <2> HIDE DEF proofs, observed, unobserved
  <2> QED
    BY <2>1, <2>2, <2>3, <2>4
<1>4. Typed(u) /\ \A role \in Roles \cap DOMAIN u : r[role] \subseteq u[role]
  <2>1. ASSUME NEW role \in Roles, NEW x \in Receipts,
               u = [f \in {role} |-> MergedEvidence(r, role, x)]
        PROVE  Typed(u) /\ \A kind \in Roles \cap DOMAIN u : r[kind] \subseteq u[kind]
    <3>1. Typed(u)
      BY <2>1, EvidenceTyped
    <3>2. \A kind \in Roles \cap DOMAIN u : r[kind] \subseteq u[kind]
      BY <2>1 DEF MergedEvidence
    <3> QED BY <3>1, <3>2
  <2>2. ASSUME NEW status \in Recurrences, NEW evidence \in SUBSET Receipts,
               u = [recurrence |-> status, recurrence_evidence |-> evidence]
        PROVE  Typed(u) /\ Roles \cap DOMAIN u = {}
    BY <2>2 DEF Typed, Roles
  <2>3. CASE \E x \in Receipts : u = [recurrence |-> "completed",
                                      recurrence_evidence |-> r.recurrence_evidence \cup {x}]
    <3>1. PICK x \in Receipts : u = [recurrence |-> "completed",
                                     recurrence_evidence |-> r.recurrence_evidence \cup {x}]
      BY <2>3
    <3>2. "completed" \in Recurrences /\ r.recurrence_evidence \cup {x} \in SUBSET Receipts
      BY <1>2 DEF Recurrences
    <3> QED
      BY <2>2, <3>1, <3>2
  <2>4. CASE u = [recurrence |-> "not_observed", recurrence_evidence |-> {}]
    <3>1. "not_observed" \in Recurrences /\ {} \in SUBSET Receipts
      BY DEF Recurrences
    <3> QED
      BY <2>2, <2>4, <3>1
  <2> QED
    BY <1>3, <2>1, <2>3, <2>4
<1>5. ASSUME NEW risks \in RiskLists PROVE Typed(WithRisks(u, risks))
  BY <1>1, <1>4, <1>5 DEF Typed, WithRisks
<1>6. ASSUME NEW risks \in RiskLists, NEW role \in Roles \cap DOMAIN WithRisks(u, risks)
      PROVE  r[role] \subseteq WithRisks(u, risks)[role]
  <2>1. role # "risks" /\ role \in DOMAIN u
    BY <1>6 DEF WithRisks, Roles
  <2>2. WithRisks(u, risks)[role] = u[role]
    BY <2>1 DEF WithRisks
  <2> QED
    BY <1>4, <2>1, <2>2
<1> QED
  BY <1>4, <1>5, <1>6

(* What the progression asks of the transactions is legal.                 *)
LEMMA ProgressionLegal ==
  ASSUME CommandInv, NEW p \in Procs
  PROVE  /\ Legal(Move("tests_verified", <<>>))
         /\ \A x \in Receipts :
              Between(p, "role") =>
                Legal(Move(Proves[Following(todo[p])],
                           [f \in {Following(todo[p]), "risks"} |->
                              IF f = Following(todo[p])
                              THEN MergedEvidence(copy[p], Following(todo[p]), x)
                              ELSE copy[p].risks \ {"blocked"}]))
         /\ ticket # None =>
              /\ Legal(Claim(ticket))
              /\ Legal(Move("unverified", [risks |-> ticket.risks \cup {"blocked"}]))
<1>1. Now \in Times
  BY FreshGood
<1>2. Legal(Move("tests_verified", <<>>))
  BY <1>1 DEF Legal, Move, Typed, States
<1>3. ASSUME NEW x \in Receipts, Between(p, "role")
      PROVE  Legal(Move(Proves[Following(todo[p])],
                        [f \in {Following(todo[p]), "risks"} |->
                           IF f = Following(todo[p])
                           THEN MergedEvidence(copy[p], Following(todo[p]), x)
                           ELSE copy[p].risks \ {"blocked"}]))
  <2>1. Good(copy[p])
    BY <1>3 DEF CommandInv, InHand, Between, GoodOrNone
  <2>2. Following(todo[p]) \in Roles
    BY DEF Following, Roles
  <2>3. Proves[Following(todo[p])] \in States \ {"planned", "implemented"}
    BY <2>2 DEF Proves, Roles, States
  <2> QED
    BY <1>1, <2>1, <2>2, <2>3, EvidenceTyped DEF Legal, Move
<1>4. ASSUME ticket # None
      PROVE  /\ Legal(Claim(ticket))
             /\ Legal(Move("unverified", [risks |-> ticket.risks \cup {"blocked"}]))
  <2>1. ticket.risks \subseteq Risks
    BY <1>4 DEF CommandInv, GoodOrNone, Good, Sound, Record
  <2>2. Legal(Claim(ticket))
    BY <1>1, <2>1 DEF Claim, Legal, Move, Typed, States, Risks, Recurrences
  <2>3. Legal(Move("unverified", [risks |-> ticket.risks \cup {"blocked"}]))
    BY <1>1, <2>1 DEF Legal, Move, Typed, States, Risks
  <2> QED
    BY <2>2, <2>3
<1> QED
  BY <1>2, <1>3, <1>4

(* A progression. *)
LEMMA CommandProgression ==
  ASSUME CommandInv, NEW p \in Procs, StartRefresh(p) \/ Progression(p)
  PROVE  CommandInv'
<1> USE DEF Between, GoOn, GoOnOrExit, Exit, Forget
<1>0. at[p] \notin {"out", "merge", "propose", "file", "write"} => ticket # None
  BY DEF CommandInv, Untouched
<1>1. CASE /\ UNCHANGED <<vars, merged, torn>>
           /\ at[p] \notin CallSites
           /\ \E site \in {"load", "restore", "plan", "roles", "role", "blocked", "out"} : GoOn(p, site)
           /\ \/ ticket # None /\ copy' = [copy EXCEPT ![p] = ticket]
              \/ at'[p] # "role" /\ copy' \in {copy, [copy EXCEPT ![p] = None]}
           /\ \E roles : todo' = [todo EXCEPT ![p] = roles]
           /\ wish' \in {wish, [wish EXCEPT ![p] = None]}
           /\ ticket # None
  BY <1>1, SMTT(30)
  DEF CommandInv, WorkflowShape, Shape, InHand, Untouched, vars, Locked, Sites, CallSites, GoodOrNone
<1>2. ASSUME NEW site \in {"restoring", "concluding", "blocking"},
             NEW normal \in {"plan", "out"}, NEW exceptional \in {"blocked", "aborted"},
             Resume(p, site, normal, exceptional)
      PROVE  CommandInv'
  BY <1>2, CommandLeaves DEF Resume, Return, Raise, CommandInv, WorkflowShape, Shape, CallSites
<1>3. CASE StartRefresh(p)
  BY <1>1, <1>3 DEF StartRefresh, CommandInv, WorkflowShape, CallSites
<1>4. CASE Load(p)
  <2>1. PICK site \in {"out", "blocked", "plan", "restore"} :
          /\ GoOn(p, site)
          /\ site = "out" => Forget(p)
          /\ site # "out" => copy' = [copy EXCEPT ![p] = ticket] /\ UNCHANGED <<todo, wish>>
    <3> DEFINE site == CASE ticket.state = Expected -> "out"
                         [] ticket.state \in {"resolved", "mitigated"} \ {Expected} -> "blocked"
                         [] ticket.state \in Demotable \ {"implemented"} -> "plan"
                         [] OTHER -> IF ticket.test THEN "restore" ELSE "blocked"
    <3>1. site \in {"out", "blocked", "plan", "restore"}
      BY WorkflowAssumption DEF WorkflowAssumption, Demotable
    <3> QED
      BY <1>4, <3>1 DEF Load
  <2>2. UNCHANGED <<vars, merged, torn>> /\ at[p] = "load"
    BY <1>4 DEF Load
  <2>3. CASE site = "out"
    BY <1>0, <1>1, <2>1, <2>2, <2>3 DEF CommandInv, WorkflowShape, CallSites
  <2>4. CASE site # "out"
    <3>1. todo' = [todo EXCEPT ![p] = todo[p]] /\ wish' = wish
      BY <2>1, <2>4 DEF CommandInv, WorkflowShape
    <3>2. ticket # None /\ copy' = [copy EXCEPT ![p] = ticket]
      BY <1>0, <2>1, <2>2, <2>4
    <3> QED
      BY <1>1, <2>1, <2>2, <3>1, <3>2 DEF CallSites
  <2> QED
    BY <2>3, <2>4
<1>5. CASE Restore(p)
  BY <1>0, <1>5, ProgressionLegal, CommandCalls DEF Restore, CallSites
<1>6. CASE Restored(p)
  BY <1>2, <1>6 DEF Restored
<1>7. CASE Plan(p)
  BY <1>0, <1>1, <1>7 DEF Plan, CommandInv, WorkflowShape, CallSites
<1>8. CASE RunRole(p)
  BY <1>0, <1>1, <1>8 DEF RunRole, CommandInv, WorkflowShape, CallSites
<1>9. CASE RoleFails(p)
  BY <1>0, <1>1, <1>9 DEF RoleFails, CommandInv, WorkflowShape, CallSites
<1>10. CASE RolePasses(p)
  BY <1>0, <1>10, ProgressionLegal, CommandCalls DEF RolePasses, CallSites
<1>11. CASE Proved(p)
  BY <1>11, CommandLeaves DEF Proved, Return, Raise, CommandInv, WorkflowShape, Shape, CallSites
<1>12. CASE Conclude(p)
  <2>1. CASE CallFrom(p, "concluding", Claim(ticket))
    BY <1>0, <1>12, <2>1, ProgressionLegal, CommandCalls DEF Conclude, CallSites
  <2>2. CASE ~CallFrom(p, "concluding", Claim(ticket))
    BY <1>0, <1>1, <1>12, <2>2 DEF Conclude, CommandInv, WorkflowShape, CallSites
  <2> QED
    BY <2>1, <2>2
<1>13. CASE Concluded(p)
  BY <1>2, <1>13 DEF Concluded
<1>14. CASE RecordBlock(p)
  <2>1. CASE ticket.state \in Demotable
    BY <1>0, <1>14, <2>1, ProgressionLegal, CommandCalls DEF RecordBlock, CallSites
  <2>2. CASE ticket.state \notin Demotable
    BY <1>0, <1>1, <1>14, <2>2 DEF RecordBlock, CommandInv, WorkflowShape, CallSites
  <2> QED
    BY <2>1, <2>2
<1>15. CASE Blocked(p)
  BY <1>2, <1>15 DEF Blocked
<1>16. CASE Restart(p)
  BY <1>0, <1>1, <1>16 DEF Restart, CommandInv, WorkflowShape, CallSites
<1> QED
  BY <1>3, <1>4, <1>5, <1>6, <1>7, <1>8, <1>9, <1>10, <1>11, <1>12, <1>13, <1>14, <1>15, <1>16
     DEF Progression

(* An operator's command. *)
LEMMA CommandOperate ==
  ASSUME CommandInv, NEW p \in Procs, Operate(p)
  PROVE  CommandInv'
<1>0. at[p] \notin {"out", "merge", "propose", "file", "write"} => ticket # None
  BY DEF CommandInv, Untouched
<1>1. CASE ReadOutcome(p)
  BY <1>1
  DEF ReadOutcome, Between, GoOn, CommandInv, WorkflowShape, Shape, InHand, Untouched, vars,
      Locked, Sites, CallSites, GoodOrNone
<1>2. CASE AdvanceOutcome(p)
  <2>1. PICK state \in Advances, u \in Brought(copy[p]) :
          \/ CallFrom(p, "advancing", Move(state, u))
          \/ \E risks \in RiskLists : CallFrom(p, "advancing", Move(state, WithRisks(u, risks)))
    BY <1>2 DEF AdvanceOutcome
  <2>2. Good(copy[p])
    BY <1>2 DEF AdvanceOutcome, Between, CommandInv, InHand, GoodOrNone
  <2>3. \A v : Typed(v) => Legal(Move(state, v))
    BY <2>1, FreshGood DEF Legal, Move, Advances, States
  <2>4. Typed(u) /\ \A risks \in RiskLists : Typed(WithRisks(u, risks))
    BY <2>2, BroughtTyped
  <2> QED
    BY <1>0, <1>2, <2>1, <2>3, <2>4, CommandCalls DEF AdvanceOutcome, Between, CallSites
<1>3. CASE BindAmendment(p)
  <2>1. PICK c \in Commits : CallFrom(p, "advancing", [kind |-> "bind", commit |-> c])
    BY <1>3 DEF BindAmendment
  <2>2. Legal([kind |-> "bind", commit |-> c])
    BY DEF Legal
  <2> QED
    BY <1>0, <1>3, <2>1, <2>2, CommandCalls DEF BindAmendment, Between, CallSites
<1>4. CASE Advanced(p)
  BY <1>4, CommandLeaves
  DEF Advanced, Resume, Return, Raise, GoOnOrExit, Exit, Forget, CommandInv, WorkflowShape, Shape,
      CallSites
<1> QED
  BY <1>1, <1>2, <1>3, <1>4 DEF Operate

(* A process dies. *)
LEMMA CommandDie ==
  ASSUME CommandInv, NEW p \in Procs, Die(p)
  PROVE  CommandInv'
BY TransactionAssumption, ZenonT(60)
DEF TransactionAssumption, Die, Crash, Leave, Exit, GoOn, Forget, CommandInv, WorkflowShape, Shape,
    InHand, Untouched, Locked, Places, Sites, CallSites, GoodOrNone, Halfway

(* Nothing happens. *)
LEMMA CommandStutter == CommandInv /\ UNCHANGED allVars => CommandInv'
BY DEF allVars, vars, wvars, CommandInv, WorkflowShape, Shape, InHand, Untouched, GoodOrNone, Good,
       Sound, Legal, Typed

(* CommandInv holds in every behaviour.                                    *)
LEMMA CommandStep == CommandInv /\ [WorkflowNext]_allVars => CommandInv'
BY CommandWithin, CommandMerge, CommandProgression, CommandOperate, CommandDie, CommandStutter
DEF WorkflowNext, Work

LEMMA CommandInvariant == WorkflowSpec => []CommandInv
BY CommandInit, CommandStep, PTL DEF WorkflowSpec

(* However the commands interleave, crash and fail, each store holds no    *)
(* outcome or a typed and valid one, which never falls back to planned,    *)
(* nor to implemented once the implementation had passing tests, and the   *)
(* ticket has one when the ledger has.                                     *)
THEOREM StoresStaySound ==
  WorkflowSpec =>
    [](/\ \A r \in {ticket, ledger} :
            r # None => /\ r \in Record /\ Valid(r)
                        /\ r.state # "planned"
                        /\ Tested => r.state # "implemented"
       /\ ledger # None => ticket # None)
<1>1. CommandInv =>
        /\ \A r \in {ticket, ledger} :
             r # None => /\ r \in Record /\ Valid(r)
                         /\ r.state # "planned"
                         /\ Tested => r.state # "implemented"
        /\ ledger # None => ticket # None
  BY DEF CommandInv, Untouched, GoodOrNone, Good, Sound
<1> QED
  BY <1>1, CommandInvariant, PTL

-----------------------------------------------------------------------------
(* StoresInv is inductive while review merges write undisturbed.           *)

(* A review merge that is run again proposes what it proposed.             *)
LEMMA FreshAgain ==
  \A found \in {None, FreshOutcome} : Recorded(found, FreshOutcome) = FreshOutcome
BY FreshGood, GoodIsSome, ZenonT(60)
DEF Recorded, Reconcile, SameProvenance, Covers, IdentityFields, FreshOutcome

(* Both stores start alike. *)
LEMMA StoresInit == WorkflowInit => StoresInv
BY CommandInit, StartAssumption
DEF WorkflowInit, Init, StoresInv, StartAssumption, Knows, Locked, Merging, Together, FirstOnly, Intact

(* A step of a transaction: no review merge is writing.                    *)
LEMMA StoresWithin ==
  ASSUME StoresInv, MergesAlone, NEW p \in Procs, Within(p)
  PROVE  StoresInv'
<1>1. CommandInv /\ CommandInv'
  BY CommandWithin DEF StoresInv
<1>2. \A q \in Procs : q # p => ~Writing(q)
  BY <1>1 DEF MergesAlone, Within, Inside, Goto, Acquire, TimeOut, Prepare, Refuse, NothingToDo,
             ReplaceLedger, ReplaceLedgerFails, ReplaceTicket, ReplaceTicketFails, Rollback,
             RollbackFails
<1>3. ~Writing(p)
  BY <1>1 DEF CommandInv, InHand, CallSites, Writing, Within, Inside, Goto, Acquire, TimeOut,
             Prepare, Refuse, NothingToDo, ReplaceLedger, ReplaceLedgerFails, ReplaceTicket,
             ReplaceTicketFails, Rollback, RollbackFails
<1>4. \A q \in Procs : Merging(q)'
  BY <1>2, <1>3 DEF Merging, Writing, Within, wvars
<1>5. \A r : Good(r) => r # None
  BY GoodIsSome
<1> USE DEF StoresInv, CommandInv, WorkflowShape, Shape, InHand, Knows, Together, Intact, FirstOnly,
            Halfway, Within, wvars, Goto, Locked, Places
<1>6. CASE Acquire(p)              BY <1>1, <1>4, <1>6, TransactionAssumption DEF Acquire, TransactionAssumption
<1>7. CASE TimeOut(p)              BY <1>1, <1>4, <1>7 DEF TimeOut
<1>8. CASE Prepare(p)              BY <1>1, <1>4, <1>8 DEF Prepare, Acceptable
<1>9. CASE Refuse(p)               BY <1>1, <1>4, <1>9 DEF Refuse
<1>10. CASE NothingToDo(p)         BY <1>1, <1>4, <1>10 DEF NothingToDo
<1>11. CASE ReplaceLedger(p)       BY <1>1, <1>4, <1>5, <1>11 DEF ReplaceLedger
<1>12. CASE ReplaceLedgerFails(p)  BY <1>1, <1>4, <1>12 DEF ReplaceLedgerFails
<1>13. CASE ReplaceTicket(p)       BY <1>1, <1>4, <1>5, <1>13 DEF ReplaceTicket
<1>14. CASE ReplaceTicketFails(p)  BY <1>1, <1>4, <1>14 DEF ReplaceTicketFails
<1>15. CASE Rollback(p)            BY <1>1, <1>4, <1>5, <1>15 DEF Rollback
<1>16. CASE RollbackFails(p)       BY <1>1, <1>4, <1>16 DEF RollbackFails
<1> QED
  BY <1>6, <1>7, <1>8, <1>9, <1>10, <1>11, <1>12, <1>13, <1>14, <1>15, <1>16 DEF Inside

(* A command goes on without a transaction, and writes nothing.            *)
LEMMA StoresLocal ==
  ASSUME StoresInv, CommandInv', NEW p \in Procs,
         UNCHANGED vars, torn' \in {torn, torn \/ ledger # None},
         \A q \in Procs : q # p => at'[q] = at[q] /\ copy'[q] = copy[q] /\ wish'[q] = wish[q],
         at[p] # "record" \/ torn' = (torn \/ ledger # None),
         at'[p] # "record",
         at'[p] = "write" => copy'[p] = ticket,
         copy'[p] \in {ticket, ledger, copy[p], None},
         wish'[p] \in {wish[p], None, Recorded(copy[p], FreshOutcome)}
  PROVE  StoresInv'
BY FreshAgain
DEF StoresInv, CommandInv, WorkflowShape, vars, Knows, Merging, Together, FirstOnly, Intact, Halfway,
    Locked, ForTicket

(* A command calls a transaction.                                          *)
LEMMA StoresCalls ==
  ASSUME StoresInv, CommandInv', NEW p \in Procs, NEW site \in CallSites, NEW o,
         CallFrom(p, site, o), at[p] # "record"
  PROVE  StoresInv'
BY DEF StoresInv, CommandInv, WorkflowShape, Shape, CallFrom, Call, GoOn, Goto, Knows, Merging, Together,
       FirstOnly, Intact, Halfway, Locked, CallSites, InHand

(* A transaction ends, by itself or with its process.                      *)
LEMMA StoresLeaves ==
  ASSUME StoresInv, CommandInv', NEW p \in Procs, at[p] # "record" \/ torn' \/ ledger = None,
         Leave(p), pc[p] \in {"return", "raise"} \/ split' = (split \/ Halfway(p)),
         split => split', torn => torn',
         NEW site \in Sites \ {"write", "record"}, GoOn(p, site),
         copy' \in {copy, [copy EXCEPT ![p] = None]},
         wish' \in {wish, [wish EXCEPT ![p] = None]}
  PROVE  StoresInv'
BY TransactionAssumption
DEF TransactionAssumption, StoresInv, CommandInv, WorkflowShape, Shape, GoOn, Leave, Knows, Merging,
    Together, FirstOnly, Intact, Halfway, Locked, ForTicket

(* A review merge. *)
LEMMA StoresMerge ==
  ASSUME StoresInv, MergesAlone, NEW p \in Procs, ReviewMerge(p)
  PROVE  StoresInv'
<1>0. CommandInv /\ CommandInv' /\ (\A r : Good(r) => r # None)
  BY CommandMerge, GoodIsSome DEF StoresInv
<1> USE DEF Between, GoOn, GoOnOrExit, Exit, Forget
<1>1. CASE Preflight(p)
  BY <1>0, <1>1, StoresLocal DEF Preflight, CommandInv, WorkflowShape
<1>2. CASE MergePR(p)
  BY <1>0, <1>2, StoresLocal DEF MergePR, CommandInv, WorkflowShape
<1>3. CASE Propose(p)
  BY <1>0, <1>3, StoresLocal DEF Propose, CommandInv, WorkflowShape
<1>4. CASE ReadTicket(p)
  BY <1>0, <1>4, StoresLocal DEF ReadTicket, CommandInv, WorkflowShape
<1>5. ASSUME Writing(p)
      PROVE  \A q \in Procs : pc[q] = "idle" /\ (q # p => ~Writing(q))
  BY <1>0, <1>5 DEF MergesAlone, Writing, CommandInv, InHand, CallSites, WorkflowShape, Shape
<1>6. CASE WriteTicket(p)
  <2> DEFINE r == Recorded(copy[p], wish[p])
  <2>1. CASE Exit(p, "out") /\ UNCHANGED ticket
    BY <1>0, <1>6, <2>1, StoresLocal DEF WriteTicket, CommandInv, WorkflowShape, vars
  <2>2. CASE r # Refused /\ GoOn(p, "record") /\ UNCHANGED <<copy, todo, wish>>
             /\ ticket' = IF r = copy[p] THEN ticket ELSE r
    <3>1. copy[p] = ticket /\ at[p] = "write"
      BY <1>6 DEF WriteTicket, StoresInv, Merging
    <3>2. ticket' = r /\ UNCHANGED <<ledger, pc, split, torn, holder, op, staged, before>>
      BY <1>6, <2>2, <3>1 DEF WriteTicket
    <3>3. Intact => Recorded(ledger, wish[p]) = r
      <4>1. Intact => ticket = ledger \/ ledger = None
        BY <1>5, <3>1 DEF StoresInv, Together, Halfway, Writing
      <4>2. ledger = None => r = FreshOutcome /\ Recorded(ledger, wish[p]) = FreshOutcome
        <5>1. ASSUME ledger = None PROVE wish[p] = FreshOutcome /\ copy[p] \in {None, FreshOutcome}
          BY <1>0, <3>1, <5>1 DEF StoresInv, FirstOnly, CommandInv, InHand
        <5> QED
          BY <5>1, FreshAgain
      <4> QED
        BY <3>1, <4>1, <4>2
    <3>4. ledger = None => ticket' = FreshOutcome
      BY <1>0, <3>1, <3>2, FreshAgain DEF StoresInv, FirstOnly, CommandInv, InHand
    <3>5. \A q \in Procs : Knows(q)' /\ Merging(q)'
      BY <1>0, <1>5, <2>2, <3>1, <3>2, <3>3
      DEF Writing, Knows, Merging, Intact, Locked, CommandInv, WorkflowShape
    <3>6. Together'
      BY <1>0, <2>2, <3>1 DEF Together, CommandInv, WorkflowShape
    <3>7. FirstOnly'
      BY <2>2, <3>2, <3>4 DEF FirstOnly, StoresInv
    <3> QED
      BY <1>0, <3>5, <3>6, <3>7 DEF StoresInv
  <2> QED
    BY <1>6, <2>1, <2>2 DEF WriteTicket
<1>7. CASE RecordInLedger(p)
  <2> DEFINE r == Recorded(ledger, wish[p])
  <2>1. at[p] = "record" /\ (Intact => r = ticket /\ r # Refused)
    BY <1>7 DEF RecordInLedger, StoresInv, Merging
  <2>2. CASE r = Refused /\ Exit(p, "out") /\ UNCHANGED ledger
    BY <1>0, <1>5, <1>7, <2>1, <2>2
    DEF RecordInLedger, StoresInv, Writing, Knows, Merging, Together, FirstOnly, Intact, Locked,
        CommandInv, WorkflowShape
  <2>3. CASE r # Refused /\ ledger' = r /\ GoOn(p, "load") /\ UNCHANGED <<copy, todo, wish>>
    <3>1. ledger' # None
      BY <1>0, <1>7, <2>3, RecordedGood DEF RecordInLedger, CommandInv, InHand, GoodOrNone
    <3> QED
      BY <1>0, <1>5, <1>7, <2>1, <2>3, <3>1
      DEF RecordInLedger, StoresInv, Writing, Knows, Merging, Together, FirstOnly, Intact, Locked,
          CommandInv, WorkflowShape
  <2> QED
    BY <1>7, <2>2, <2>3 DEF RecordInLedger
<1>8. CASE RecordFails(p)
  BY <1>0, <1>8, StoresLocal DEF RecordFails, CommandInv, WorkflowShape
<1> QED
  BY <1>1, <1>2, <1>3, <1>4, <1>6, <1>7, <1>8 DEF ReviewMerge

(* A progression. *)
LEMMA StoresProgression ==
  ASSUME StoresInv, NEW p \in Procs, StartRefresh(p) \/ Progression(p)
  PROVE  StoresInv'
<1>0. CommandInv /\ CommandInv'
  BY CommandProgression DEF StoresInv
<1> USE DEF Between, GoOn, GoOnOrExit, Exit, Forget, Sites, CallSites
<1>1. CASE /\ UNCHANGED <<vars, torn>>
           /\ at[p] \notin {"write", "record"}
           /\ \E site \in Sites \ {"write", "record"} : GoOn(p, site)
           /\ \/ copy' = [copy EXCEPT ![p] = ticket]
              \/ copy' \in {copy, [copy EXCEPT ![p] = None]}
           /\ wish' \in {wish, [wish EXCEPT ![p] = None]}
  BY <1>0, <1>1, StoresLocal DEF CommandInv, WorkflowShape
<1>2. ASSUME NEW site \in {"restoring", "concluding", "blocking"},
             NEW normal \in {"plan", "out"}, NEW exceptional \in {"blocked", "aborted"},
             Resume(p, site, normal, exceptional)
      PROVE  StoresInv'
  BY <1>0, <1>2, StoresLeaves DEF Resume, Return, Raise
<1>3. CASE StartRefresh(p)  BY <1>1, <1>3 DEF StartRefresh
<1>4. CASE Load(p)
  <2>1. \E site \in Sites \ {"write", "record"} : GoOn(p, site)
    BY <1>4, WorkflowAssumption DEF Load, WorkflowAssumption, Demotable
  <2>2. /\ UNCHANGED <<vars, torn>> /\ at[p] = "load"
        /\ wish' \in {wish, [wish EXCEPT ![p] = None]}
        /\ \/ copy' = [copy EXCEPT ![p] = ticket]
           \/ copy' = [copy EXCEPT ![p] = None]
    BY <1>4 DEF Load
  <2> QED
    BY <1>1, <2>1, <2>2
<1>5. CASE Restore(p)       BY <1>0, <1>5, StoresCalls DEF Restore
<1>6. CASE Restored(p)      BY <1>2, <1>6 DEF Restored
<1>7. CASE Plan(p)          BY <1>1, <1>7 DEF Plan
<1>8. CASE RunRole(p)       BY <1>1, <1>8 DEF RunRole
<1>9. CASE RoleFails(p)     BY <1>1, <1>9 DEF RoleFails
<1>10. CASE RolePasses(p)   BY <1>0, <1>10, StoresCalls DEF RolePasses
<1>11. CASE Proved(p)       BY <1>0, <1>11, StoresLeaves DEF Proved, Return, Raise
<1>12. CASE Conclude(p)
  <2>1. CASE CallFrom(p, "concluding", Claim(ticket))
    BY <1>0, <1>12, <2>1, StoresCalls DEF Conclude
  <2>2. CASE ~CallFrom(p, "concluding", Claim(ticket))
    BY <1>1, <1>12, <2>2 DEF Conclude
  <2> QED
    BY <2>1, <2>2
<1>13. CASE Concluded(p)    BY <1>2, <1>13 DEF Concluded
<1>14. CASE RecordBlock(p)
  <2>1. CASE ticket.state \in Demotable
    BY <1>0, <1>14, <2>1, StoresCalls DEF RecordBlock
  <2>2. CASE ticket.state \notin Demotable
    BY <1>1, <1>14, <2>2 DEF RecordBlock
  <2> QED
    BY <2>1, <2>2
<1>15. CASE Blocked(p)      BY <1>2, <1>15 DEF Blocked
<1>16. CASE Restart(p)      BY <1>1, <1>16 DEF Restart
<1> QED
  BY <1>3, <1>4, <1>5, <1>6, <1>7, <1>8, <1>9, <1>10, <1>11, <1>12, <1>13, <1>14, <1>15, <1>16
     DEF Progression

(* An operator's command. *)
LEMMA StoresOperate ==
  ASSUME StoresInv, NEW p \in Procs, Operate(p)
  PROVE  StoresInv'
<1>0. CommandInv /\ CommandInv'
  BY CommandOperate DEF StoresInv
<1> USE DEF Between, GoOn, Sites, CallSites
<1>1. CASE ReadOutcome(p)
  BY <1>0, <1>1, StoresLocal DEF ReadOutcome, CommandInv, WorkflowShape
<1>2. CASE AdvanceOutcome(p)
  BY <1>0, <1>2, StoresCalls DEF AdvanceOutcome
<1>3. CASE BindAmendment(p)
  BY <1>0, <1>3, StoresCalls DEF BindAmendment
<1>4. CASE Advanced(p)
  BY <1>0, <1>4, StoresLeaves DEF Advanced, Resume, Return, Raise, GoOnOrExit, Exit, Forget
<1> QED
  BY <1>1, <1>2, <1>3, <1>4 DEF Operate

(* A process dies: the history variables say when that tears the stores.   *)
LEMMA StoresDie ==
  ASSUME StoresInv, NEW p \in Procs, Die(p)
  PROVE  StoresInv'
<1>1. CommandInv'
  BY CommandDie DEF StoresInv
<1> QED
  BY <1>1, StoresLeaves DEF Die, Crash, Exit, Forget, Sites

(* StoresInv holds as long as review merges write undisturbed.             *)
LEMMA StoresStep == StoresInv /\ MergesAlone /\ [WorkflowNext]_allVars => StoresInv'
<1>1. StoresInv /\ UNCHANGED allVars => StoresInv'
  <2> SUFFICES ASSUME StoresInv, UNCHANGED allVars PROVE StoresInv'
    OBVIOUS
  <2>1. CommandInv'
    BY CommandStutter DEF StoresInv
  <2> QED
    BY <2>1
    DEF allVars, vars, wvars, StoresInv, Knows, Merging, Together, FirstOnly, Intact, Halfway, ForTicket
<1> QED
  BY <1>1, StoresWithin, StoresMerge, StoresProgression, StoresOperate, StoresDie
  DEF WorkflowNext, Work

LEMMA StoresInvariant == WorkflowSpec /\ []MergesAlone => []StoresInv
BY StoresInit, StoresStep, PTL DEF WorkflowSpec

(* Between the commands the ticket and the ledger hold the same outcome,   *)
(* or the ledger has none yet, unless a crash or a failed write tore them, *)
(* in every behaviour in which nobody is in a transaction or in another    *)
(* review merge while one writes the two stores (tickets.py,               *)
(* move_ticket_file, which takes no lock).                                 *)
THEOREM StoresStayTogether == WorkflowSpec /\ []MergesAlone => []StoresAgree
<1>1. StoresInv => StoresAgree
  BY DEF StoresInv, StoresAgree, Together, Intact, Halfway, CommandInv, InHand, CallSites
<1> QED
  BY <1>1, StoresInvariant, PTL

-----------------------------------------------------------------------------
(* What a step may do to the outcome in the ticket.                        *)

(* Two steps write the ticket: the second replacement of a transaction and *)
(* the one writer outside the transactions.                                *)
LEMMA TicketWriters ==
  ASSUME StoresInv, [WorkflowNext]_allVars, ticket' # ticket
  PROVE  \E p \in Procs :
           \/ /\ pc[p] = "ticket" /\ Legal(op[p])
              /\ ticket' = ForTicket(op[p], ticket) /\ ticket' # Refused
           \/ /\ at[p] = "write"
              /\ ticket' = Recorded(ticket, wish[p]) /\ ticket' # Refused
<1>1. PICK p \in Procs : Work(p) \/ Operate(p) \/ Die(p)
  BY DEF WorkflowNext, allVars, vars
<1>2. CASE Within(p)
  <2>1. ReplaceTicket(p)
    BY <1>2 DEF Within, Inside, Acquire, TimeOut, Prepare, Refuse, NothingToDo, ReplaceLedger,
                ReplaceLedgerFails, ReplaceTicketFails, Rollback, RollbackFails
  <2> QED
    BY <2>1 DEF ReplaceTicket, Goto, StoresInv, Knows, CommandInv, InHand, Locked
<1>3. CASE ReviewMerge(p)
  <2>1. WriteTicket(p)
    BY <1>3 DEF ReviewMerge, Preflight, MergePR, Propose, ReadTicket, RecordInLedger, RecordFails, vars
  <2> QED
    BY <2>1 DEF WriteTicket, Between, StoresInv, Merging
<1>4. CASE StartRefresh(p)
  BY <1>4 DEF StartRefresh, vars
<1>5. CASE Progression(p)
  BY <1>5 DEF Progression, Load, Restore, Restored, Plan, RunRole, RoleFails, RolePasses, Proved,
              Conclude, Concluded, RecordBlock, Blocked, Restart, Resume, CallFrom, Call, Return, Raise,
              Leave, vars
<1>6. CASE Operate(p)
  BY <1>6 DEF Operate, ReadOutcome, AdvanceOutcome, BindAmendment, Advanced, Resume, CallFrom, Call,
              Return, Raise, Leave, vars
<1>7. CASE Die(p)
  BY <1>7 DEF Die, Crash, Leave
<1> QED
  BY <1>1, <1>2, <1>3, <1>4, <1>5, <1>6, <1>7 DEF Work

(* A resolved outcome has no successor, whatever is asked of it.           *)
LEMMA ResolvedIsLast ==
  ASSUME NEW r, Good(r), r.state = "resolved"
  PROVE  /\ \A o : Legal(o) => ForTicket(o, r) = Refused
         /\ \A c : Reconcile(r, c) \in {r, Refused}
<1>1. Allowed[r.state] = {}
  BY Table
<1>2. \A target, t, u : Transition(r, target, t, u) = Refused
  BY <1>1 DEF Transition
<1>3. \A c : Bind(r, c) = Refused
  BY DEF Bind, AmendmentBindableStates
<1>4. \A o : Legal(o) => ForTicket(o, r) = Refused
  BY <1>2, <1>3, SameOperators DEF Legal, ForTicket, Store!Result
<1>5. \A c : Reconcile(r, c) \in {r, Refused}
  BY <1>2 DEF Reconcile
<1> QED
  BY <1>4, <1>5

(* The resolved outcome a plan claims stays what it is, whoever writes the *)
(* ticket next (apps/usertest_implement/README.md:405).  A mitigated one   *)
(* need not: an operator may take it back.                                 *)
THEOREM ResolvedIsFinal ==
  ASSUME Expected = "resolved"
  PROVE  WorkflowSpec /\ []MergesAlone => TerminalIsFinal
<1>1. ASSUME StoresInv, [WorkflowNext]_allVars
      PROVE  [ticket # None /\ ticket.state = Expected => ticket'.state = Expected]_allVars
  <2> SUFFICES ASSUME ticket # None, ticket.state = "resolved", ticket' # ticket PROVE FALSE
    BY <1>1
  <2>1. Good(ticket)
    BY <1>1 DEF StoresInv, CommandInv, GoodOrNone
  <2> QED
    BY <1>1, <2>1, TicketWriters, ResolvedIsLast DEF Recorded
<1> QED
  BY <1>1, StoresInvariant, PTL DEF WorkflowSpec, TerminalIsFinal

-----------------------------------------------------------------------------
(* One command at a time.                                                  *)

(* Then no review merge is disturbed.                                      *)
LEMMA SerialAlone == CommandInv /\ Serial => MergesAlone
BY DEF CommandInv, InHand, CallSites, Serial, MergesAlone, Writing

(* An operation that keeps the receipts makes a record with all of them.   *)
LEMMA KeepsReceipts ==
  ASSUME NEW r, Good(r), NEW o, Legal(o), Keeps(o, r), ForTicket(o, r) # Refused,
         NEW role \in Roles
  PROVE  r[role] \subseteq ForTicket(o, r)[role]
<1>1. r \in Record
  BY DEF Good, Sound
<1>2. CASE o.kind = "advance"
  <2>1. ForTicket(o, r) = Transition(r, o.state, o.at, o.updates) /\ o.state \in States
        /\ o.at \in Times /\ Typed(o.updates)
    BY <1>2, SameOperators DEF ForTicket, Store!Result, Legal
  <2>2. ForTicket(o, r) = Candidate(r, o.state, o.at, o.updates) /\ MayUpdate(r, o.updates)
    BY <1>1, <2>1, TransitionSound
  <2>3. role \in FreeFields
    BY DEF Roles, FreeFields
  <2>4. ForTicket(o, r)[role] = IF role \in DOMAIN o.updates THEN o.updates[role] ELSE r[role]
    BY <2>2, <2>3, CandidateFields
  <2> QED
    BY <1>2, <2>4 DEF Keeps
<1>3. CASE o.kind = "bind"
  <2>1. ForTicket(o, r) = [r EXCEPT !.amendment = o.commit]
    BY <1>3, SameOperators DEF ForTicket, Store!Result, Bind, Validated
  <2> QED
    BY <1>1, <2>1 DEF Record, Roles
<1> QED
  BY <1>2, <1>3 DEF Legal

(* A merge retry that changes an outcome found it unverified.              *)
LEMMA RetryDemotesUnverified ==
  ASSUME NEW r, Good(r), Reconcile(r, FreshOutcome) # Refused, Reconcile(r, FreshOutcome) # r
  PROVE  r.state = "unverified"
<1>1. r \in Record /\ r.state \in States \ {"planned"} /\ (Tested => r.state # "implemented")
  BY DEF Good, Sound, Record
<1>2. FreshOutcome.state = (IF Tested THEN "tests_verified" ELSE "implemented")
  BY DEF FreshOutcome
<1>3. ~Covers(r, FreshOutcome) /\ FreshOutcome.state \in Allowed[r.state]
  BY ReconcileCases DEF Transition
<1> QED
  BY <1>1, <1>2, <1>3
  DEF Covers, Allowed, States, TestVerifiedStates, OriginalScenarioStates, ImplementedStates,
      RelationshipStates

(* A command alone: its step, or its end, finds the others out.            *)
LEMMA OthersUpToDate ==
  ASSUME CommandInv', Serial, Serial', NEW p \in Procs, at[p] # "out" \/ at'[p] # "out",
         NEW q \in Procs, q # p, at'[q] = at[q]
  PROVE  UpToDate(q)'
BY DEF Serial, CommandInv, InHand, CallSites, UpToDate

(* SerialInv is inductive. *)
LEMMA SerialInit == WorkflowInit => SerialInv
BY StoresInit DEF WorkflowInit, Init, SerialInv, UpToDate

(* The moves that bring no receipt keep those there are.                   *)
LEMMA MovesKeep ==
  ASSUME NEW r
  PROVE  /\ Keeps(Move("tests_verified", <<>>), r)
         /\ Keeps(Claim(r), r)
         /\ \A state, risks : Keeps(Move(state, [risks |-> risks]), r)
         /\ \A c : Keeps([kind |-> "bind", commit |-> c], r)
<1> USE DEF Keeps, Move, Roles
<1>1. Keeps(Move("tests_verified", <<>>), r)
  OBVIOUS
<1>2. Keeps(Claim(r), r)
  BY DEF Claim
<1>3. \A state, risks : Keeps(Move(state, [risks |-> risks]), r)
  OBVIOUS
<1>4. \A c : Keeps([kind |-> "bind", commit |-> c], r)
  OBVIOUS
<1> QED
  BY <1>1, <1>2, <1>3, <1>4

(* A command calls a transaction.                                          *)
LEMMA UpToDateCalls ==
  ASSUME CommandInv, NEW p \in Procs, NEW site \in CallSites, NEW o, CallFrom(p, site, o),
         Keeps(o, ticket), at[p] # "out"
  PROVE  UpToDate(p)' /\ (\A q \in Procs : q # p => at'[q] = at[q]) /\ at[p] # "out"
BY DEF UpToDate, Keeps, CallFrom, Call, Goto, GoOn, CallSites, CommandInv, WorkflowShape, Shape

(* A progression. *)
LEMMA UpToDateProgression ==
  ASSUME CommandInv, CommandInv', NEW p \in Procs, UpToDate(p), Progression(p)
  PROVE  UpToDate(p)' /\ (\A q \in Procs : q # p => at'[q] = at[q]) /\ at[p] # "out"
<1> USE DEF Between, GoOn, GoOnOrExit, Exit, Forget, CallSites
<1>1. CASE /\ UNCHANGED vars \/ pc'[p] = "idle"
           /\ at[p] # "out"
           /\ pc[p] = "idle" \/ pc'[p] = "idle"
           /\ \E site \in {"out", "aborted", "load", "plan", "roles", "restore", "role", "blocked"} :
                GoOn(p, site)
           /\ at'[p] = "role" => copy'[p] = ticket'
  BY <1>1 DEF UpToDate, vars, CommandInv, WorkflowShape, Shape
<1>2. ASSUME NEW site \in {"restoring", "concluding", "blocking"},
             NEW normal \in {"plan", "out"}, NEW exceptional \in {"blocked", "aborted"},
             Resume(p, site, normal, exceptional)
      PROVE  UpToDate(p)' /\ (\A q \in Procs : q # p => at'[q] = at[q]) /\ at[p] # "out"
  BY <1>1, <1>2 DEF Resume, Return, Raise, Leave, CommandInv, WorkflowShape, Shape
<1>3. CASE Load(p)
  <2>1. \E site \in {"out", "blocked", "plan", "restore"} : GoOn(p, site)
    BY <1>3, WorkflowAssumption DEF Load, WorkflowAssumption, Demotable
  <2>2. UNCHANGED vars /\ at[p] = "load" /\ pc[p] = "idle"
    BY <1>3 DEF Load
  <2> QED
    BY <1>1, <2>1, <2>2 DEF CommandInv, WorkflowShape
<1>4. CASE Restore(p)
  BY <1>4, MovesKeep, UpToDateCalls DEF Restore
<1>5. CASE Restored(p)   BY <1>2, <1>5 DEF Restored
<1>6. CASE Plan(p)       BY <1>1, <1>6 DEF Plan, CommandInv, WorkflowShape
<1>7. CASE RunRole(p)    BY <1>1, <1>7 DEF RunRole, vars, CommandInv, WorkflowShape
<1>8. CASE RoleFails(p)  BY <1>1, <1>8 DEF RoleFails, CommandInv, WorkflowShape
<1>9. CASE RolePasses(p)
  <2>1. copy[p] = ticket /\ Following(todo[p]) \in Roles
    BY <1>9 DEF RolePasses, UpToDate, Following, Roles
  <2>2. UpToDate(p)' /\ (\A q \in Procs : q # p => at'[q] = at[q]) /\ at[p] # "out"
    <3> DEFINE o(x) == Move(Proves[Following(todo[p])],
                            [f \in {Following(todo[p]), "risks"} |->
                               IF f = Following(todo[p])
                               THEN MergedEvidence(ticket, Following(todo[p]), x)
                               ELSE ticket.risks \ {"blocked"}])
    <3>1. at[p] = "role" /\ \E x \in Receipts : CallFrom(p, "proving", o(x))
      BY <1>9, <2>1 DEF RolePasses
    <3>2. \A x : Keeps(o(x), ticket)
      BY <2>1 DEF Keeps, Move, Roles, MergedEvidence
    <3> HIDE DEF o
    <3> QED
      BY <3>1, <3>2, UpToDateCalls
  <2> QED
    BY <2>2
<1>10. CASE Proved(p)
  BY <1>1, <1>10 DEF Proved, Return, Raise, Leave, CommandInv, WorkflowShape, Shape
<1>11. CASE Conclude(p)
  <2>1. CASE CallFrom(p, "concluding", Claim(ticket))
    BY <1>11, <2>1, MovesKeep, UpToDateCalls DEF Conclude
  <2>2. CASE ~CallFrom(p, "concluding", Claim(ticket))
    BY <1>1, <1>11, <2>2 DEF Conclude, CommandInv, WorkflowShape
  <2> QED
    BY <2>1, <2>2
<1>12. CASE Concluded(p)  BY <1>2, <1>12 DEF Concluded
<1>13. CASE RecordBlock(p)
  <2>1. CASE ticket.state \in Demotable
    BY <1>13, <2>1, MovesKeep, UpToDateCalls DEF RecordBlock
  <2>2. CASE ticket.state \notin Demotable
    BY <1>1, <1>13, <2>2 DEF RecordBlock, CommandInv, WorkflowShape
  <2> QED
    BY <2>1, <2>2
<1>14. CASE Blocked(p)    BY <1>2, <1>14 DEF Blocked
<1>15. CASE Restart(p)    BY <1>1, <1>15 DEF Restart, CommandInv, WorkflowShape
<1> QED
  BY <1>3, <1>4, <1>5, <1>6, <1>7, <1>8, <1>9, <1>10, <1>11, <1>12, <1>13, <1>14, <1>15
     DEF Progression

(* An operator's command. *)
LEMMA UpToDateOperate ==
  ASSUME CommandInv, CommandInv', NEW p \in Procs, UpToDate(p), Operate(p)
  PROVE  /\ UpToDate(p)' /\ (\A q \in Procs : q # p => at'[q] = at[q])
         /\ at[p] # "out" \/ at'[p] # "out"
<1> USE DEF Between, GoOn, CallSites
<1>1. CASE ReadOutcome(p)
  BY <1>1 DEF ReadOutcome, vars, UpToDate, CommandInv, WorkflowShape, Shape
<1>2. CASE AdvanceOutcome(p)
  <2>1. /\ at[p] = "advance" /\ copy[p] = ticket /\ Good(ticket)
        /\ \E state \in Advances, u \in Brought(ticket) :
             \/ CallFrom(p, "advancing", Move(state, u))
             \/ \E risks \in RiskLists :
                  CallFrom(p, "advancing", Move(state, WithRisks(u, risks)))
    BY <1>2 DEF AdvanceOutcome, UpToDate, CommandInv, InHand, GoodOrNone
  <2>2. ASSUME NEW state, NEW u \in Brought(ticket)
        PROVE  /\ Keeps(Move(state, u), ticket)
               /\ \A risks \in RiskLists : Keeps(Move(state, WithRisks(u, risks)), ticket)
    BY <2>1, BroughtTyped DEF Keeps, Move
  <2> QED
    BY <2>1, <2>2, UpToDateCalls
<1>3. CASE BindAmendment(p)
  BY <1>3, MovesKeep, UpToDateCalls DEF BindAmendment
<1>4. CASE Advanced(p)
  BY <1>4
  DEF Advanced, Resume, Return, Raise, Leave, GoOnOrExit, Exit, Forget, UpToDate, CommandInv,
      WorkflowShape, Shape
<1> QED
  BY <1>1, <1>2, <1>3, <1>4 DEF Operate

LEMMA SerialStep == SerialInv /\ Serial /\ Serial' /\ [WorkflowNext]_allVars => SerialInv'
<1> SUFFICES ASSUME SerialInv, Serial, Serial', [WorkflowNext]_allVars PROVE SerialInv'
  OBVIOUS
<1>1. StoresInv' /\ CommandInv /\ CommandInv'
  BY SerialAlone, StoresStep DEF SerialInv, StoresInv
<1>2. CASE UNCHANGED allVars
  BY <1>1, <1>2 DEF allVars, vars, wvars, SerialInv, UpToDate, Keeps
<1>3. ASSUME NEW p \in Procs, Work(p) \/ Operate(p) \/ Die(p)
      PROVE  SerialInv'
  <2> USE DEF Between, GoOn, GoOnOrExit, Exit, Forget
  <2>1. SUFFICES UpToDate(p)' /\ (\A q \in Procs : q # p => at'[q] = at[q])
                   /\ (at[p] # "out" \/ at'[p] # "out")
    BY <1>1, OthersUpToDate DEF SerialInv
  <2>2. CASE Within(p)
    <3>1. at[p] # "out" /\ UNCHANGED wvars
      BY <1>1, <2>2
      DEF CommandInv, InHand, CallSites, Within, Inside, Goto, Acquire, TimeOut, Prepare, Refuse,
          NothingToDo, ReplaceLedger, ReplaceLedgerFails, ReplaceTicket, ReplaceTicketFails,
          Rollback, RollbackFails
    <3>2. UpToDate(p)'
      BY <1>1, <2>2, <3>1
      DEF SerialInv, UpToDate, CommandInv, WorkflowShape, Shape, InHand, CallSites, wvars, Within,
          Inside, Goto, Acquire, TimeOut, Prepare, Refuse, NothingToDo, ReplaceLedger,
          ReplaceLedgerFails, ReplaceTicket, ReplaceTicketFails, Rollback, RollbackFails
    <3> QED
      BY <3>1, <3>2 DEF wvars
  <2>3. CASE ReviewMerge(p)
    BY <1>1, <2>3
    DEF ReviewMerge, Preflight, MergePR, Propose, ReadTicket, WriteTicket, RecordInLedger,
        RecordFails, vars, SerialInv, UpToDate, CommandInv, WorkflowShape, Shape, InHand, CallSites,
        Recorded
  <2>4. CASE StartRefresh(p)
    BY <1>1, <2>4
    DEF StartRefresh, vars, UpToDate, CommandInv, WorkflowShape, Shape, InHand, CallSites
  <2>5. CASE Progression(p)
    BY <1>1, <2>5, UpToDateProgression DEF SerialInv
  <2>6. CASE Operate(p)
    BY <1>1, <2>6, UpToDateOperate DEF SerialInv
  <2>7. CASE Die(p)
    BY <1>1, <2>7 DEF Die, Crash, Leave, UpToDate, CommandInv, WorkflowShape, Shape
  <2> QED
    BY <1>3, <2>2, <2>3, <2>4, <2>5, <2>6, <2>7 DEF Work
<1> QED
  BY <1>2, <1>3 DEF WorkflowNext

LEMMA SerialInvariant == WorkflowSpec /\ []Serial => []SerialInv
BY SerialInit, SerialStep, PTL DEF WorkflowSpec

(* One command at a time: a merge retry takes receipts out of an outcome   *)
(* that is unverified, and nothing else ever takes one out (outcomes.py,   *)
(* reconcile_outcome_records; outcome_progression.py, _merge_evidence).    *)
THEOREM OnlyRetryUnproves == WorkflowSpec /\ []Serial => OnlyRetryDropsProof
<1>1. ASSUME SerialInv, [WorkflowNext]_allVars
      PROVE  [ticket # None /\ (\E role \in Roles : ~(ticket[role] \subseteq ticket'[role]))
                => ticket.state = "unverified" /\ \E p \in Procs : at[p] = "write"]_allVars
  <2> SUFFICES ASSUME ticket # None, NEW role \in Roles, ~(ticket[role] \subseteq ticket'[role])
               PROVE  ticket.state = "unverified" /\ \E p \in Procs : at[p] = "write"
    OBVIOUS
  <2>1. Good(ticket) /\ StoresInv
    BY <1>1 DEF SerialInv, StoresInv, CommandInv, GoodOrNone
  <2>2. PICK p \in Procs :
           \/ /\ pc[p] = "ticket" /\ Legal(op[p])
              /\ ticket' = ForTicket(op[p], ticket) /\ ticket' # Refused
           \/ /\ at[p] = "write"
              /\ ticket' = Recorded(ticket, wish[p]) /\ ticket' # Refused
    BY <1>1, <2>1, TicketWriters
  <2>3. CASE pc[p] = "ticket" /\ Legal(op[p]) /\ ticket' = ForTicket(op[p], ticket) /\ ticket' # Refused
    BY <1>1, <2>1, <2>3, KeepsReceipts DEF SerialInv, UpToDate
  <2>4. CASE at[p] = "write" /\ ticket' = Recorded(ticket, wish[p]) /\ ticket' # Refused
    <3>1. wish[p] = Reconcile(ticket, FreshOutcome)
      BY <1>1, <2>4 DEF SerialInv, UpToDate
    <3>2. ticket' = Reconcile(ticket, wish[p])
      BY <2>4 DEF Recorded
    <3>3. wish[p] # Refused
      BY <2>1, <2>4, GoodIsSome, WorkflowAssumption
      DEF WorkflowAssumption, StoresInv, CommandInv, InHand, GoodOrNone
    <3>4. Reconcile(ticket, ticket) = ticket
      <4>1. SameProvenance(ticket, ticket) /\ Covers(ticket, ticket)
        BY DEF SameProvenance, Covers
      <4> QED
        BY <4>1 DEF Reconcile
    <3>5. wish[p] # ticket
      BY <3>2, <3>4
    <3> QED
      BY <2>1, <2>4, <3>1, <3>3, <3>5, RetryDemotesUnverified
  <2> QED
    BY <2>2, <2>3, <2>4
<1> QED
  BY <1>1, SerialInvariant, PTL DEF WorkflowSpec, OnlyRetryDropsProof

(* A single process that issues every command, one after the other, meets  *)
(* the hypotheses above.                                                   *)
THEOREM OneProcess ==
  ASSUME NEW solo, Procs = {solo}
  PROVE  /\ WorkflowSpec => []StoresAgree
         /\ WorkflowSpec => OnlyRetryDropsProof
         /\ Expected = "resolved" => (WorkflowSpec => TerminalIsFinal)
<1>1. MergesAlone /\ Serial
  BY DEF MergesAlone, Serial
<1>2. WorkflowSpec => []StoresAgree
  BY <1>1, StoresStayTogether, PTL
<1>3. WorkflowSpec => OnlyRetryDropsProof
  BY <1>1, OnlyRetryUnproves, PTL
<1>4. ASSUME Expected = "resolved" PROVE WorkflowSpec => TerminalIsFinal
  BY <1>1, <1>4, ResolvedIsFinal, PTL
<1> QED
  BY <1>2, <1>3, <1>4
=============================================================================
