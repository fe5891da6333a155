----------------------------- MODULE LedgerStore -----------------------------
(***************************************************************************)
(* What update_ledger_file promises: the ledger is one document of which   *)
(* every update changes one entry, atomically, and never takes back the    *)
(* update of another process.  A write that fails half-way loses the       *)
(* document: it is never taken for an empty one.                           *)
(***************************************************************************)
EXTENDS Naturals

CONSTANTS
  Procs,   \* each process owns one entry of the document
  Lost     \* a document that cannot be read

VARIABLE doc     \* how many updates each entry has received, or Lost

Init == doc = [p \in Procs |-> 0]

Apply(p) ==
  /\ doc # Lost
  /\ doc' = [doc EXCEPT ![p] = @ + 1]

Lose == doc' = Lost

Next == Lose \/ \E p \in Procs : Apply(p)

Spec == Init /\ [][Next]_doc
=============================================================================
