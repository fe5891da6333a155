--------------------------- MODULE OutcomeRecord ---------------------------
(***************************************************************************)
(* The durable outcome of one ticket and the operations backlog_repo has   *)
(* on it (outcomes.py): validation, transition, verification amendment,    *)
(* removal of stale blockers, and reconciliation with a proposed record.   *)
(* Every operation is a pure function from a valid record to a valid       *)
(* record, or Refused (the Python function raises).                        *)
(*                                                                         *)
(* A list of evidence is the set of the runner receipts that passed; items *)
(* that did not pass prove nothing and are left out.  A receipt is bound   *)
(* to the implementation merge (schema 3) or to one amendment (schema 4).  *)
(* Without an amendment the validation leaves it to the commands that      *)
(* bring a schema 3 receipt to compare its merge with the record's; a      *)
(* receipt here is one that passed that comparison.                        *)
(* Provenance (branch, merge commit, PR) is the merge commit, and the      *)
(* fields that no operation changes are left out but for two: the scope    *)
(* and requires_live_verification.  The history, which every transition    *)
(* extends and no operation reads, is represented by recorded_at.          *)
(***************************************************************************)
EXTENDS Naturals

CONSTANTS
  Commits,    \* merge commits and verification commits
  NoCommit,   \* a field without a commit
  Receipts,   \* passing role receipts the runner has written
  Executed,   \* the amendment's commit a receipt is bound to; NoCommit for the merge
  Times,      \* values of recorded_at
  Refused     \* the result of an operation that raises

ASSUME RecordAssumption ==
  /\ NoCommit \notin Commits
  /\ Executed \in [Receipts -> Commits \cup {NoCommit}]

States ==
  {"planned", "implemented", "tests_verified", "original_scenario_verified",
   "live_verified", "resolved", "mitigated", "duplicate", "superseded",
   "unverified", "integrity_unknown"}

OriginalScenarioStates ==
  {"original_scenario_verified", "live_verified", "resolved", "mitigated"}
TestVerifiedStates == {"tests_verified"} \cup OriginalScenarioStates
ImplementedStates == {"implemented"} \cup TestVerifiedStates
AmendmentRecordStates == ImplementedStates \cup {"unverified"}
AmendmentBindableStates == AmendmentRecordStates \ {"resolved", "mitigated"}
RelationshipStates == {"duplicate", "superseded"}

Risks == {"blocked", "unobserved"}   \* runner-owned blocker, recurrence not observed
Recurrences == {"not_run", "completed", "not_observed"}

Record ==
  [state: States, scope: {"case", "plan_copy"}, requires_live: BOOLEAN,
   merged_commit: Commits \cup {NoCommit}, amendment: Commits \cup {NoCommit},
   test: BOOLEAN, original: SUBSET Receipts, live: SUBSET Receipts,
   mitigation: SUBSET Receipts, recurrence: Recurrences,
   recurrence_evidence: SUBSET Receipts, risks: SUBSET Risks,
   related: BOOLEAN, recorded_at: Times]

IdentityFields == {"scope", "requires_live"}
ControlledFields == IdentityFields \cup {"state", "recorded_at", "amendment"}
FreeFields ==
  {"merged_commit", "test", "original", "live", "mitigation", "recurrence",
   "recurrence_evidence", "risks", "related"}
Fields == ControlledFields \cup FreeFields

(* _ALLOWED_TRANSITIONS *)
Allowed ==
  [s \in States |->
     CASE s = "planned" ->
            {"implemented", "tests_verified", "mitigated", "unverified"}
       [] s = "implemented" -> {"tests_verified", "mitigated", "unverified"}
       [] s = "tests_verified" -> OriginalScenarioStates \cup {"unverified"}
       [] s = "original_scenario_verified" ->
            {"live_verified", "resolved", "mitigated", "unverified"}
       [] s = "live_verified" -> {"resolved", "mitigated", "unverified"}
       [] s = "mitigated" ->
            {"tests_verified", "original_scenario_verified", "live_verified",
             "resolved", "unverified"}
       [] s = "unverified" -> ImplementedStates \ {"resolved"}
       [] s = "integrity_unknown" -> {"unverified"} \cup RelationshipStates
       [] OTHER -> {}]

-----------------------------------------------------------------------------
(* Validation. *)

NeedsOriginal(r) == r.state \in OriginalScenarioStates
NeedsLive(r) ==
  \/ r.state = "live_verified"
  \/ r.state = "resolved" /\ r.requires_live
NeedsMitigation(r) == r.state = "mitigated"

(* Receipts that were executed on an amendment. *)
Amended(items) == {x \in items : Executed[x] # NoCommit}

(* Some receipt was executed on the commit c. *)
Effective(items, c) == \E x \in items : Executed[x] = c

(* _verification_amendment and the checks of validate_outcome_record that  *)
(* bind the receipts to it: foreign receipts are refused, and what the     *)
(* state claims must have passed again on the amendment's commit.          *)
AmendmentSound(r) ==
  LET receipts == r.original \cup r.live \cup r.mitigation
                  \cup r.recurrence_evidence
  IN IF r.amendment = NoCommit
     THEN Amended(receipts) = {}
     ELSE /\ r.merged_commit \notin {NoCommit, r.amendment}
          /\ r.state \in AmendmentRecordStates
          /\ \A x \in Amended(receipts) : Executed[x] = r.amendment
          /\ NeedsOriginal(r) => Effective(r.original, r.amendment)
          /\ NeedsLive(r) => Effective(r.live, r.amendment)
          /\ NeedsMitigation(r) => Effective(r.mitigation, r.amendment)

RecurrenceRecorded(r) ==
  \/ /\ r.recurrence = "not_observed"
     /\ r.recurrence_evidence = {}
     /\ "unobserved" \in r.risks
  \/ /\ r.recurrence = "completed"
     /\ r.recurrence_evidence # {}
     /\ r.amendment # NoCommit => Effective(r.recurrence_evidence, r.amendment)

(* validate_outcome_record does not raise. *)
Valid(r) ==
  /\ r.scope = "plan_copy" => r.state \in RelationshipStates \cup {"integrity_unknown"}
  /\ r.state \in TestVerifiedStates => r.test
  /\ NeedsOriginal(r) => r.original # {}
  /\ NeedsLive(r) => r.live # {}
  /\ NeedsMitigation(r) => r.mitigation # {}
  /\ r.state \in ImplementedStates => r.merged_commit # NoCommit
  /\ AmendmentSound(r)
  /\ r.state \in RelationshipStates => r.related
  /\ r.state = "resolved" => RecurrenceRecorded(r)

Validated(r) == IF Valid(r) THEN r ELSE Refused

-----------------------------------------------------------------------------
(* Operations. *)

(* The checks transition_outcome_record makes on the fields of `updates`,  *)
(* a partial record.                                                       *)
MayUpdate(r, u) ==
  /\ \A f \in DOMAIN u \cap ControlledFields : f \in IdentityFields /\ u[f] = r[f]
  /\ "merged_commit" \in DOMAIN u
       => r.merged_commit \in {NoCommit, u["merged_commit"]}

Candidate(r, target, t, u) ==
  [f \in Fields |->
     CASE f = "state" -> target
       [] f = "recorded_at" -> t
       [] f \in DOMAIN u -> u[f]
       [] OTHER -> r[f]]

(* Faulty variant: any state may follow any other. *)
TransitionAnywhere(r, target, t, u) ==
  IF MayUpdate(r, u) THEN Validated(Candidate(r, target, t, u)) ELSE Refused

(* transition_outcome_record *)
Transition(r, target, t, u) ==
  IF target \in Allowed[r.state] /\ MayUpdate(r, u)
  THEN Validated(Candidate(r, target, t, u))
  ELSE Refused

(* Faulty variant: the amended record is not validated again. *)
BindUnchecked(r, c) ==
  IF r.state \in AmendmentBindableStates /\ r.amendment \in {NoCommit, c}
  THEN [r EXCEPT !.amendment = c]
  ELSE Refused

(* bind_outcome_verification_amendment *)
Bind(r, c) ==
  IF r.state \in AmendmentBindableStates /\ r.amendment \in {NoCommit, c}
  THEN Validated([r EXCEPT !.amendment = c])
  ELSE Refused

(* reconcile_terminal_outcome_stale_blockers *)
PruneBlockers(r) ==
  IF r.state \in {"resolved", "mitigated"}
  THEN Validated([r EXCEPT !.risks = @ \ {"blocked"}])
  ELSE Refused

SameProvenance(r, c) ==
  /\ \A f \in IdentityFields : r[f] = c[f]
  /\ r.merged_commit \in {NoCommit, c.merged_commit}
  /\ r.amendment = c.amendment

(* Faulty variant: only a proposal of the same state is a retry.           *)
CoversSameState(r, c) == r.state = c.state

(* Nothing to do: the proposal claims no other state, or a fresh merge     *)
(* claims less than what is proved already.                                *)
Covers(r, c) ==
  \/ r.state = c.state
  \/ c.state = "tests_verified" /\ r.state \in TestVerifiedStates

(* Faulty variant: the record of a fresh merge replaces an advanced one.   *)
ReconcileDemoting(r, c) ==
  CASE ~SameProvenance(r, c) -> Refused
    [] SameProvenance(r, c) /\ r.state = c.state -> r
    [] OTHER -> Validated(Candidate(r, c.state, c.recorded_at, [f \in FreeFields |-> c[f]]))

(* reconcile_outcome_records *)
Reconcile(r, c) ==
  CASE ~SameProvenance(r, c) -> Refused
    [] SameProvenance(r, c) /\ Covers(r, c) -> r
    [] OTHER -> Transition(r, c.state, c.recorded_at, [f \in FreeFields |-> c[f]])

(* outcome_suppresses_new_case_discovery *)
SuppressesDiscovery(r) ==
  r.scope = "case" /\ r.state \in {"resolved"} \cup RelationshipStates
=============================================================================
