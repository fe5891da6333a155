------------------------- MODULE MCOutcomeWorkflow -------------------------
(* OutcomeWorkflow with receipts of the merge commit and one of a          *)
(* verification commit.                                                    *)
EXTENDS OutcomeWorkflow, TLC

CONSTANTS p1, p2, m, v, r1, r2, r3, t1

ExecutedDef == r1 :> NoCommit @@ r2 :> NoCommit @@ r3 :> v
OneOfEach == r1 :> NoCommit @@ r3 :> v

(* An operator who writes remaining_risks writes that recurrence was not observed. *)
OneRiskList == {{"unobserved"}}

(* The outcome review merge has recorded. *)
StartDef == FreshOutcome

(* What the commands ask of the transactions. *)
Proofs == UNION {[{role} -> SUBSET Receipts] : role \in Roles}
Rechecks == [recurrence : {"completed", "not_observed"}, recurrence_evidence : SUBSET Receipts]
Updates ==
  {<<>>} \cup [risks : SUBSET Risks] \cup Proofs \cup Rechecks
  \cup {WithRisks(u, risks) : u \in Proofs \cup Rechecks, risks \in SUBSET Risks}

OpsDef ==
  [kind : {"advance"}, state : States, at : Times, updates : Updates]
  \cup [kind : {"bind"}, commit : Commits]
=============================================================================
