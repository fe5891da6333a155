------------------------ MODULE MCOutcomeTransaction ------------------------
(* OutcomeTransaction from a merged, tests_verified record on, with the    *)
(* operations that lead it to resolution and back.                         *)
EXTENDS OutcomeTransaction, TLC

CONSTANTS p1, p2, m, v, r1, r2, t1

ExecutedDef == r1 :> NoCommit @@ r2 :> v

StartDef ==
  [state |-> "tests_verified", scope |-> "case", requires_live |-> TRUE,
   merged_commit |-> m, amendment |-> NoCommit, test |-> TRUE, original |-> {},
   live |-> {}, mitigation |-> {}, recurrence |-> "not_run",
   recurrence_evidence |-> {}, risks |-> {}, related |-> FALSE, recorded_at |-> t1]

Move(state, updates) ==
  [kind |-> "advance", state |-> state, at |-> t1, updates |-> updates]

Closing ==
  [recurrence |-> "not_observed", recurrence_evidence |-> {},
   risks |-> {"blocked", "unobserved"}]

OpsDef ==
  {Move("original_scenario_verified", [original |-> {r1}]),
   Move("original_scenario_verified", [original |-> {r1, r2}]),
   Move("live_verified", [live |-> {r1}]),
   Move("live_verified", [live |-> {r1, r2}]),
   Move("resolved", Closing),
   Move("mitigated", [mitigation |-> {r2}]),
   Move("tests_verified", <<>>),
   Move("unverified", [risks |-> {"blocked"}]),
   [kind |-> "bind", commit |-> v],
   [kind |-> "prune"]}
=============================================================================
