-------------------------- MODULE OutcomeLifecycle --------------------------
(***************************************************************************)
(* The life of one outcome record under the operations of OutcomeRecord:   *)
(* what the review merge or an archive records first, the transitions of   *)
(* the outcome commands and of the progression with every update a caller  *)
(* may pass, verification amendments, stale-blocker removal, and retries   *)
(* of the merge finalization (commands/review.py, ledger.py).              *)
(***************************************************************************)
EXTENDS OutcomeRecord

CONSTANT Updates   \* partial records a caller may pass

(* Controlled fields may be among them: MayUpdate refuses to change those. *)
ASSUME UpdatesAssumption ==
  \A u \in Updates :
    /\ \A f \in DOMAIN u \cap {"original", "live", "mitigation", "recurrence_evidence"} :
         u[f] \subseteq Receipts
    /\ \A f \in DOMAIN u \cap {"test", "related"} : u[f] \in BOOLEAN
    /\ "merged_commit" \in DOMAIN u => u["merged_commit"] \in Commits \cup {NoCommit}
    /\ "recurrence" \in DOMAIN u => u["recurrence"] \in Recurrences
    /\ "risks" \in DOMAIN u => u["risks"] \subseteq Risks

VARIABLE rec

(* _build_merge_outcome_record *)
MergeRecord(live, tested, c, t) ==
  [state |-> IF tested THEN "tests_verified" ELSE "implemented",
   scope |-> "case", requires_live |-> live, merged_commit |-> c,
   amendment |-> NoCommit, test |-> tested, original |-> {}, live |-> {},
   mitigation |-> {}, recurrence |-> "not_run", recurrence_evidence |-> {},
   risks |-> {}, related |-> FALSE, recorded_at |-> t]

(* archive_plan_ticket_file and archive_integrity_unknown_plan_ticket_file *)
ArchiveRecord(s, related, t) ==
  [MergeRecord(FALSE, FALSE, NoCommit, t) EXCEPT
     !.state = s, !.scope = "plan_copy", !.related = related]

LifecycleTypeOK == rec \in Record

(* The two kinds of first record. *)
LifecycleInit ==
  \/ \E live, tested \in BOOLEAN, c \in Commits, t \in Times :
       rec = MergeRecord(live, tested, c, t)
  \/ \E s \in RelationshipStates \cup {"integrity_unknown"}, related \in BOOLEAN, t \in Times :
       /\ s \in RelationshipStates => related
       /\ rec = ArchiveRecord(s, related, t)

Become(result) ==
  /\ result # Refused
  /\ rec' = result

Advance ==
  \E target \in States, t \in Times, u \in Updates :
    Become(Transition(rec, target, t, u))

Amend == \E c \in Commits : Become(Bind(rec, c))

Prune == Become(PruneBlockers(rec))

(* A merge finalization that is run again, and so proposes a new record.   *)
Retry ==
  \E tested \in BOOLEAN, c \in Commits, t \in Times :
    Become(Reconcile(rec, MergeRecord(rec.requires_live, tested, c, t)))

LifecycleNext == Advance \/ Amend \/ Prune \/ Retry

LifecycleSpec == LifecycleInit /\ [][LifecycleNext]_rec

-----------------------------------------------------------------------------
(* Properties. *)

(* What a record claims was proved on the commit that is to be verified:   *)
(* on the amendment's commit once there is an amendment, on the merge      *)
(* before, in whatever order evidence, amendments and retries arrived.     *)
ProofIsCurrent ==
  /\ NeedsOriginal(rec) => Effective(rec.original, rec.amendment)
  /\ NeedsLive(rec) => Effective(rec.live, rec.amendment)
  /\ NeedsMitigation(rec) => Effective(rec.mitigation, rec.amendment)

(* A case that is closed for discovery is never opened again by an         *)
(* operation on its record (outcomes.py:903).                              *)
ClosedStaysClosed ==
  [][SuppressesDiscovery(rec) => rec'.state = rec.state]_rec

(* "Merge retries preserve an outcome that has already advanced beyond     *)
(* tests_verified" (apps/usertest_implement/README.md:405).                *)
RetryPreserves ==
  [][Retry /\ rec.state \in OriginalScenarioStates => rec' = rec]_rec

(* The ledger reconciles what the ticket's transition produced (ledger.py, *)
(* transition_outcome_files and update_ledger_doc): both stores get the    *)
(* same record, but for the one transition of the table that the           *)
(* reconciliation takes for a merge retry and so never can be stored.      *)
LedgerFollowsTicket ==
  \A target \in States, t \in Times, u \in Updates :
    LET moved == Transition(rec, target, t, u)
    IN moved # Refused =>
         (Reconcile(rec, moved) = moved
            <=> ~(rec.state = "mitigated" /\ target = "tests_verified"))
=============================================================================
