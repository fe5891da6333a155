------------------------- MODULE MCOutcomeLifecycle -------------------------
(* OutcomeLifecycle with one receipt per commit and the updates that the   *)
(* callers of transition_outcome_record combine.                           *)
EXTENDS OutcomeLifecycle, TLC

CONSTANTS m, v, r1, r2, t1

ExecutedDef == r1 :> NoCommit @@ r2 :> v

Proofs == {{r1}, {r2}, {r1, r2}}

RoleUpdates ==
  {<<>>}
  \cup {[original |-> S] : S \in Proofs}
  \cup {[live |-> S] : S \in Proofs}
  \cup {[mitigation |-> S] : S \in Proofs}
  \cup {[original |-> S, live |-> S, mitigation |-> S] : S \in Proofs}

OtherUpdates ==
  {<<>>, [test |-> TRUE], [risks |-> {"blocked"}],
   [merged_commit |-> v], [requires_live |-> FALSE], [state |-> "resolved"],
   [recurrence |-> "completed", recurrence_evidence |-> {r1}],
   [recurrence |-> "completed", recurrence_evidence |-> {r2}],
   [recurrence |-> "not_observed", recurrence_evidence |-> {}, risks |-> {"unobserved"}]}

UpdatesDef == {a @@ b : a \in RoleUpdates, b \in OtherUpdates}
=============================================================================
