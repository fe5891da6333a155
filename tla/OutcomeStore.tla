---------------------------- MODULE OutcomeStore ----------------------------
(***************************************************************************)
(* What the outcome transactions of ledger.py promise: the ticket and the  *)
(* ledger are one store that holds one valid record, and an operation      *)
(* replaces that record by its result, in one step, or leaves it alone.    *)
(***************************************************************************)
EXTENDS OutcomeRecord

CONSTANTS
  Start,     \* the record the store holds at first
  Ops        \* the operations callers ask for

VARIABLE outcome

(* The result of one operation on the record r. *)
Result(op, r) ==
  CASE op.kind = "advance" -> Transition(r, op.state, op.at, op.updates)
    [] op.kind = "bind" -> Bind(r, op.commit)
    [] op.kind = "prune" -> PruneBlockers(r)

Init == outcome = Start

Apply(op) ==
  /\ Result(op, outcome) # Refused
  /\ outcome' = Result(op, outcome)

Next == \E op \in Ops : Apply(op)

Spec == Init /\ [][Next]_outcome
=============================================================================
