----------------------- MODULE OutcomeLifecycleProofs -----------------------
(***************************************************************************)
(* Proofs about one outcome record, for any commits, receipts and updates: *)
(* the record on disk is always one that validation accepts, and from that *)
(* follows what the record claims, what a retry may do to it, and that the *)
(* ledger's reconciliation repeats the ticket's transition.                *)
(***************************************************************************)
EXTENDS OutcomeLifecycle, TLAPS

(* What every operation hands on: a typed record that passes validation.   *)
Sound(r) == r \in Record /\ Valid(r)

(* The two kinds of first record are typed and valid.                      *)
LEMMA FirstSound == LifecycleInit => Sound(rec)
<1>1. ASSUME NEW live \in BOOLEAN, NEW tested \in BOOLEAN, NEW c \in Commits, NEW t \in Times
      PROVE  Sound(MergeRecord(live, tested, c, t))
  <2> DEFINE r == MergeRecord(live, tested, c, t)
  <2>1. r \in Record
    BY DEF MergeRecord, Record, States, Recurrences
  <2>2. Valid(r)
    BY RecordAssumption
    DEF MergeRecord, RecordAssumption, Valid, AmendmentSound, Amended, RelationshipStates,
        TestVerifiedStates, OriginalScenarioStates, ImplementedStates,
        NeedsOriginal, NeedsLive, NeedsMitigation
  <2> QED
    BY <2>1, <2>2 DEF Sound
<1>2. ASSUME NEW s \in RelationshipStates \cup {"integrity_unknown"}, NEW related \in BOOLEAN,
             NEW t \in Times, s \in RelationshipStates => related
      PROVE  Sound(ArchiveRecord(s, related, t))
  <2> DEFINE r == ArchiveRecord(s, related, t)
  <2>1. MergeRecord(FALSE, FALSE, NoCommit, t) \in Record
    BY DEF MergeRecord, Record, States, Recurrences
  <2>2. r \in Record /\ r.state = s /\ r.scope = "plan_copy" /\ r.related = related
    BY <2>1 DEF ArchiveRecord, Record, States, RelationshipStates
  <2>4. /\ r.original = {} /\ r.live = {} /\ r.mitigation = {} /\ r.recurrence_evidence = {}
        /\ r.amendment = NoCommit
    BY DEF ArchiveRecord, MergeRecord
  <2>3. Valid(r)
    BY <2>2, <2>4, <1>2
    DEF Valid, AmendmentSound, Amended, RelationshipStates,
        TestVerifiedStates, OriginalScenarioStates, ImplementedStates,
        NeedsOriginal, NeedsLive, NeedsMitigation
  <2> QED
    BY <2>2, <2>3 DEF Sound
<1> QED
  BY <1>1, <1>2 DEF LifecycleInit

(* Validation returns its argument, or refuses it.                         *)
LEMMA ValidatedSound ==
  ASSUME NEW r \in Record, Validated(r) # Refused
  PROVE  Validated(r) = r /\ Sound(r)
BY DEF Validated, Sound

(* What makes a partial record acceptable to Candidate.                    *)
Typed(u) ==
  /\ \A f \in DOMAIN u \cap {"original", "live", "mitigation", "recurrence_evidence"} :
       u[f] \subseteq Receipts
  /\ \A f \in DOMAIN u \cap {"test", "related"} : u[f] \in BOOLEAN
  /\ "merged_commit" \in DOMAIN u => u["merged_commit"] \in Commits \cup {NoCommit}
  /\ "recurrence" \in DOMAIN u => u["recurrence"] \in Recurrences
  /\ "risks" \in DOMAIN u => u["risks"] \subseteq Risks

(* A record with a new state and time and with some other fields from      *)
(* elsewhere is a record if those fields are typed.                        *)
LEMMA CandidateTyped ==
  ASSUME NEW r \in Record, NEW target \in States, NEW t \in Times, NEW u,
         MayUpdate(r, u), Typed(u)
  PROVE  Candidate(r, target, t, u) \in Record
<1> DEFINE c == Candidate(r, target, t, u)
<1>1. Fields = {"state", "scope", "requires_live", "merged_commit", "amendment", "test",
                "original", "live", "mitigation", "recurrence", "recurrence_evidence",
                "risks", "related", "recorded_at"}
  BY DEF Fields, ControlledFields, IdentityFields, FreeFields
<1>2. c = [state |-> c.state, scope |-> c.scope, requires_live |-> c.requires_live,
           merged_commit |-> c.merged_commit, amendment |-> c.amendment, test |-> c.test,
           original |-> c.original, live |-> c.live, mitigation |-> c.mitigation,
           recurrence |-> c.recurrence, recurrence_evidence |-> c.recurrence_evidence,
           risks |-> c.risks, related |-> c.related, recorded_at |-> c.recorded_at]
  BY <1>1 DEF Candidate
<1>3. c.state = target /\ c.recorded_at = t
  BY <1>1 DEF Candidate, MayUpdate, ControlledFields, IdentityFields
<1>4. c.scope = r.scope /\ c.requires_live = r.requires_live /\ c.amendment = r.amendment
  BY <1>1 DEF Candidate, MayUpdate, ControlledFields, IdentityFields
<1>5. \A f \in FreeFields : c[f] = IF f \in DOMAIN u THEN u[f] ELSE r[f]
  BY DEF Candidate, Fields, FreeFields
<1>6. /\ c.original \subseteq Receipts /\ c.live \subseteq Receipts
      /\ c.mitigation \subseteq Receipts /\ c.recurrence_evidence \subseteq Receipts
  BY <1>5 DEF FreeFields, Record, Typed
<1>7. c.test \in BOOLEAN /\ c.related \in BOOLEAN
  BY <1>5 DEF FreeFields, Record, Typed
<1>8. c.merged_commit \in Commits \cup {NoCommit} /\ c.recurrence \in Recurrences
      /\ c.risks \subseteq Risks
  BY <1>5 DEF FreeFields, Record, Typed
<1>9. c.scope \in {"case", "plan_copy"} /\ c.requires_live \in BOOLEAN
      /\ c.amendment \in Commits \cup {NoCommit}
  BY <1>4 DEF Record
<1> HIDE DEF c
<1>10. c \in Record
  BY <1>2, <1>3, <1>6, <1>7, <1>8, <1>9 DEF Record
<1> QED
  BY <1>10 DEF c

(* A transition that is not refused is one of the table, and its result is *)
(* the sound candidate.                                                    *)
LEMMA TransitionSound ==
  ASSUME NEW r \in Record, NEW target \in States, NEW t \in Times, NEW u, Typed(u),
         Transition(r, target, t, u) # Refused
  PROVE  /\ target \in Allowed[r.state] /\ MayUpdate(r, u)
         /\ Transition(r, target, t, u) = Candidate(r, target, t, u)
         /\ Sound(Candidate(r, target, t, u))
<1>1. target \in Allowed[r.state] /\ MayUpdate(r, u)
  BY DEF Transition
<1>2. Candidate(r, target, t, u) \in Record
  BY <1>1, CandidateTyped
<1>3. Transition(r, target, t, u) = Validated(Candidate(r, target, t, u))
  BY <1>1 DEF Transition
<1> QED
  BY <1>1, <1>2, <1>3, ValidatedSound

(* The fields a proposal hands over when it is reconciled.                 *)
Handed(c) == [f \in FreeFields |-> c[f]]

(* The proposal of a typed record is a typed partial record.               *)
LEMMA HandedTyped == ASSUME NEW c \in Record PROVE Typed(Handed(c))
BY DEF Handed, Typed, Record, FreeFields

(* Reconciliation keeps the record, or makes a transition of it.           *)
LEMMA ReconcileCases ==
  ASSUME NEW r, NEW c, Reconcile(r, c) # Refused
  PROVE  /\ SameProvenance(r, c)
         /\ \/ Covers(r, c) /\ Reconcile(r, c) = r
            \/ /\ ~Covers(r, c)
               /\ Reconcile(r, c) = Transition(r, c.state, c.recorded_at, Handed(c))
BY DEF Reconcile, Handed

(* Where the transitions may not lead.                                     *)
LEMMA Table ==
  /\ \A s \in States : s \notin Allowed[s]
  /\ \A s \in {"resolved"} \cup RelationshipStates : Allowed[s] = {}
  /\ \A s \in OriginalScenarioStates : "implemented" \notin Allowed[s]
  /\ \A s \in TestVerifiedStates : "tests_verified" \in Allowed[s] => s = "mitigated"
  /\ "tests_verified" \in Allowed["mitigated"]
<1> USE DEF Allowed, RelationshipStates, OriginalScenarioStates, TestVerifiedStates,
            ImplementedStates, States
<1>1. \A s \in States : s \notin Allowed[s]
  OBVIOUS
<1>2. \A s \in {"resolved"} \cup RelationshipStates : Allowed[s] = {}
  OBVIOUS
<1>3. \A s \in OriginalScenarioStates : "implemented" \notin Allowed[s]
  OBVIOUS
<1>4. \A s \in TestVerifiedStates : "tests_verified" \in Allowed[s] => s = "mitigated"
  OBVIOUS
<1>5. "tests_verified" \in Allowed["mitigated"]
  OBVIOUS
<1> QED
  BY <1>1, <1>2, <1>3, <1>4, <1>5

(* Every operation that is not refused hands on a sound record.            *)
LEMMA SoundStep ==
  ASSUME Sound(rec), [LifecycleNext]_rec
  PROVE  Sound(rec')
<1>0. rec \in Record /\ Valid(rec)
  BY DEF Sound
<1>1. CASE UNCHANGED rec
  BY <1>0, <1>1 DEF Sound, Valid, RecurrenceRecorded, AmendmentSound, NeedsOriginal, NeedsLive, NeedsMitigation
<1>2. CASE Advance
  <2>1. PICK target \in States, t \in Times, u \in Updates :
          Become(Transition(rec, target, t, u))
    BY <1>2 DEF Advance
  <2>2. Typed(u)
    BY UpdatesAssumption DEF UpdatesAssumption, Typed
  <2> QED
    BY <1>0, <2>1, <2>2, TransitionSound DEF Become
<1>3. CASE Amend
  <2>1. PICK c \in Commits : Become(Bind(rec, c))
    BY <1>3 DEF Amend
  <2>2. [rec EXCEPT !.amendment = c] \in Record
    BY <1>0 DEF Record
  <2>3. Bind(rec, c) = Validated([rec EXCEPT !.amendment = c])
    BY <2>1 DEF Become, Bind
  <2> QED
    BY <2>1, <2>2, <2>3, ValidatedSound DEF Become
<1>4. CASE Prune
  <2>1. [rec EXCEPT !.risks = @ \ {"blocked"}] \in Record
    BY <1>0 DEF Record
  <2>2. PruneBlockers(rec) = Validated([rec EXCEPT !.risks = @ \ {"blocked"}])
    BY <1>4 DEF Prune, Become, PruneBlockers
  <2> QED
    BY <1>4, <2>1, <2>2, ValidatedSound DEF Prune, Become
<1>5. CASE Retry
  <2>1. PICK tested \in BOOLEAN, c \in Commits, t \in Times :
          Become(Reconcile(rec, MergeRecord(rec.requires_live, tested, c, t)))
    BY <1>5 DEF Retry
  <2> DEFINE m == MergeRecord(rec.requires_live, tested, c, t)
  <2>2. m \in Record
    BY <1>0 DEF MergeRecord, Record, States, Recurrences
  <2>3. m.state \in States /\ m.recorded_at \in Times
    BY <2>2 DEF Record
  <2>4. Typed(Handed(m))
    BY <2>2, HandedTyped
  <2> HIDE DEF m
  <2>5. Reconcile(rec, m) # Refused /\ rec' = Reconcile(rec, m)
    BY <2>1 DEF Become, m
  <2>6. \/ rec' = rec
        \/ rec' = Transition(rec, m.state, m.recorded_at, Handed(m))
    BY <2>5, ReconcileCases
  <2> QED
    BY <1>0, <1>1, <2>3, <2>4, <2>5, <2>6, TransitionSound
<1> QED
  BY <1>1, <1>2, <1>3, <1>4, <1>5 DEF LifecycleNext

(* The record on disk is sound in every behaviour.                         *)
LEMMA SoundAlways == LifecycleSpec => []Sound(rec)
<1>1. Sound(rec) /\ [LifecycleNext]_rec => Sound(rec)'
  BY SoundStep
<1> QED
  BY <1>1, FirstSound, PTL DEF LifecycleSpec

(* No operation takes a record outside its fields' values (outcomes.py).   *)
THEOREM RecordTyped == LifecycleSpec => []LifecycleTypeOK
<1>1. Sound(rec) => LifecycleTypeOK
  BY DEF Sound, LifecycleTypeOK
<1> QED
  BY <1>1, SoundAlways, PTL

(* What a record claims was proved on the commit to be verified, however   *)
(* evidence, amendments and merge retries are ordered.                     *)
THEOREM ProofStaysCurrent == LifecycleSpec => []ProofIsCurrent
<1>1. ASSUME NEW items \in SUBSET Receipts, items # {}, Amended(items) = {}
      PROVE  Effective(items, NoCommit)
  BY <1>1 DEF Amended, Effective
<1>2. ASSUME Sound(rec) PROVE ProofIsCurrent
  <2>1. /\ rec.original \in SUBSET Receipts /\ rec.live \in SUBSET Receipts
        /\ rec.mitigation \in SUBSET Receipts
    BY <1>2 DEF Sound, Record
  <2>2. CASE rec.amendment = NoCommit
    <3>1. Amended(rec.original \cup rec.live \cup rec.mitigation \cup rec.recurrence_evidence) = {}
      BY <1>2, <2>2 DEF Sound, Valid, AmendmentSound
    <3>2. Amended(rec.original) = {} /\ Amended(rec.live) = {} /\ Amended(rec.mitigation) = {}
      BY <3>1 DEF Amended
    <3>3. /\ NeedsOriginal(rec) => rec.original # {}
          /\ NeedsLive(rec) => rec.live # {}
          /\ NeedsMitigation(rec) => rec.mitigation # {}
      BY <1>2 DEF Sound, Valid
    <3> QED
      BY <1>1, <2>1, <2>2, <3>2, <3>3 DEF ProofIsCurrent
  <2>3. CASE rec.amendment # NoCommit
    BY <1>2, <2>3 DEF Sound, Valid, AmendmentSound, ProofIsCurrent
  <2> QED
    BY <2>2, <2>3
<1> QED
  BY <1>2, SoundAlways, PTL

(* What each operation does to the state of a sound record.                *)
LEMMA StateStep ==
  ASSUME Sound(rec), LifecycleNext, rec' # rec
  PROVE  rec'.state = rec.state \/ rec'.state \in Allowed[rec.state]
<1>0. rec \in Record
  BY DEF Sound
<1>1. CASE Advance
  <2>1. PICK target \in States, t \in Times, u \in Updates :
          Become(Transition(rec, target, t, u))
    BY <1>1 DEF Advance
  <2>2. Typed(u)
    BY UpdatesAssumption DEF UpdatesAssumption, Typed
  <2>3. target \in Allowed[rec.state] /\ MayUpdate(rec, u)
        /\ rec' = Candidate(rec, target, t, u)
    BY <1>0, <2>1, <2>2, TransitionSound DEF Become
  <2>4. rec'.state = target
    BY <2>3 DEF Candidate, MayUpdate, Fields, ControlledFields, IdentityFields
  <2> QED
    BY <2>3, <2>4
<1>2. CASE Amend
  BY <1>0, <1>2 DEF Amend, Become, Bind, Validated, Record
<1>3. CASE Prune
  BY <1>0, <1>3 DEF Prune, Become, PruneBlockers, Validated, Record
<1>4. CASE Retry
  <2>1. PICK tested \in BOOLEAN, c \in Commits, t \in Times :
          Become(Reconcile(rec, MergeRecord(rec.requires_live, tested, c, t)))
    BY <1>4 DEF Retry
  <2> DEFINE m == MergeRecord(rec.requires_live, tested, c, t)
  <2>2. m \in Record
    BY <1>0 DEF MergeRecord, Record, States, Recurrences
  <2>3. m.state \in States /\ m.recorded_at \in Times
    BY <2>2 DEF Record
  <2>4. Typed(Handed(m))
    BY <2>2, HandedTyped
  <2> HIDE DEF m
  <2>5. Reconcile(rec, m) # Refused /\ rec' = Reconcile(rec, m)
    BY <2>1 DEF Become, m
  <2>6. rec' = Transition(rec, m.state, m.recorded_at, Handed(m))
    BY <2>5, ReconcileCases
  <2>7. m.state \in Allowed[rec.state] /\ MayUpdate(rec, Handed(m))
        /\ rec' = Candidate(rec, m.state, m.recorded_at, Handed(m))
    BY <1>0, <2>3, <2>4, <2>5, <2>6, TransitionSound
  <2>8. rec'.state = m.state
    BY <2>7 DEF Candidate, MayUpdate, Fields, ControlledFields, IdentityFields
  <2> QED
    BY <2>7, <2>8
<1> QED
  BY <1>1, <1>2, <1>3, <1>4 DEF LifecycleNext

(* A case closed for discovery is never opened again (outcomes.py:903).    *)
THEOREM ClosedForGood == LifecycleSpec => ClosedStaysClosed
<1>1. ASSUME Sound(rec), [LifecycleNext]_rec
      PROVE  [SuppressesDiscovery(rec) => rec'.state = rec.state]_rec
  <2> SUFFICES ASSUME SuppressesDiscovery(rec), rec' # rec PROVE rec'.state = rec.state
    OBVIOUS
  <2>1. Allowed[rec.state] = {}
    BY Table DEF SuppressesDiscovery
  <2> QED
    BY <1>1, <2>1, StateStep
<1> QED
  BY <1>1, SoundAlways, PTL DEF LifecycleSpec, ClosedStaysClosed

(* A merge finalization that is run again leaves a record that was proved  *)
(* further as it is.                                                       *)
THEOREM RetryKeepsProgress == LifecycleSpec => RetryPreserves
<1>1. ASSUME Sound(rec), Retry, rec.state \in OriginalScenarioStates
      PROVE  rec' = rec
  <2>0. rec \in Record
    BY <1>1 DEF Sound
  <2>1. PICK tested \in BOOLEAN, c \in Commits, t \in Times :
          Become(Reconcile(rec, MergeRecord(rec.requires_live, tested, c, t)))
    BY <1>1 DEF Retry
  <2> DEFINE m == MergeRecord(rec.requires_live, tested, c, t)
  <2>2. m.state \in {"tests_verified", "implemented"}
    BY DEF MergeRecord
  <2>3. m \in Record
    BY <2>0 DEF MergeRecord, Record, States, Recurrences
  <2>4. m.state \in States /\ m.recorded_at \in Times /\ Typed(Handed(m))
    BY <2>3, HandedTyped DEF Record
  <2> HIDE DEF m
  <2>5. Reconcile(rec, m) # Refused /\ rec' = Reconcile(rec, m)
    BY <2>1 DEF Become, m
  <2>6. CASE Covers(rec, m)
    BY <2>5, <2>6, ReconcileCases
  <2>7. CASE ~Covers(rec, m)
    <3>1. m.state = "implemented"
      BY <1>1, <2>2, <2>7 DEF Covers, TestVerifiedStates
    <3>2. rec' = Transition(rec, m.state, m.recorded_at, Handed(m))
      BY <2>5, <2>7, ReconcileCases
    <3>3. m.state \in Allowed[rec.state]
      BY <2>0, <2>4, <2>5, <3>2, TransitionSound
    <3> QED
      BY <1>1, <3>1, <3>3, Table
  <2> QED
    BY <2>6, <2>7
<1>2. Sound(rec) /\ [LifecycleNext]_rec
        => [Retry /\ rec.state \in OriginalScenarioStates => rec' = rec]_rec
  BY <1>1
<1> QED
  BY <1>2, SoundAlways, PTL DEF LifecycleSpec, RetryPreserves

(* The ledger, which reconciles the record the ticket's transition made,   *)
(* stores that record, but for the step from mitigated to tests_verified.  *)
THEOREM LedgerRepeatsTicket == LifecycleSpec => []LedgerFollowsTicket
<1>1. ASSUME Sound(rec), NEW target \in States, NEW t \in Times, NEW u \in Updates,
             Transition(rec, target, t, u) # Refused
      PROVE  Reconcile(rec, Transition(rec, target, t, u)) = Transition(rec, target, t, u)
               <=> ~(rec.state = "mitigated" /\ target = "tests_verified")
  <2> DEFINE m == Transition(rec, target, t, u)
  <2>0. rec \in Record /\ Typed(u)
    BY <1>1, UpdatesAssumption DEF Sound, UpdatesAssumption, Typed
  <2>1. /\ target \in Allowed[rec.state] /\ MayUpdate(rec, u)
        /\ m = Candidate(rec, target, t, u) /\ Sound(m)
    BY <1>1, <2>0, TransitionSound
  <2> HIDE DEF m
  <2>2. /\ m.state = target /\ m.recorded_at = t
        /\ \A f \in IdentityFields \cup {"amendment"} : m[f] = rec[f]
    BY <2>1 DEF Candidate, MayUpdate, Fields, ControlledFields, IdentityFields
  <2>3. rec.merged_commit \in {NoCommit, m.merged_commit}
    BY <2>1 DEF Candidate, MayUpdate, Fields, FreeFields, ControlledFields, IdentityFields
  <2>4. SameProvenance(rec, m)
    BY <2>2, <2>3 DEF SameProvenance
  <2>5. rec.state # target
    BY <2>0, <2>1, Table DEF Record
  <2>6. CASE rec.state = "mitigated" /\ target = "tests_verified"
    <3>1. Covers(rec, m)
      BY <2>2, <2>6 DEF Covers, TestVerifiedStates, OriginalScenarioStates
    <3>2. Reconcile(rec, m) = rec
      BY <2>4, <3>1 DEF Reconcile
    <3> QED
      BY <2>2, <2>5, <2>6, <3>2 DEF m
  <2>7. CASE ~(rec.state = "mitigated" /\ target = "tests_verified")
    <3>1. ~Covers(rec, m)
      BY <2>1, <2>2, <2>5, <2>7, Table DEF Covers
    <3>2. Reconcile(rec, m) = Transition(rec, target, t, Handed(m))
      BY <2>2, <2>4, <3>1 DEF Reconcile, Handed
    <3>3. MayUpdate(rec, Handed(m))
      BY <2>3 DEF MayUpdate, Handed, FreeFields, ControlledFields, IdentityFields
    <3>4. Candidate(rec, target, t, Handed(m)) = Candidate(rec, target, t, u)
      <4>1. ASSUME NEW f \in Fields
            PROVE  Candidate(rec, target, t, Handed(m))[f] = Candidate(rec, target, t, u)[f]
        <5>1. CASE f \in FreeFields
          <6>1. Candidate(rec, target, t, Handed(m))[f] = m[f]
            BY <5>1 DEF Candidate, Handed, FreeFields
          <6> QED
            BY <2>1, <6>1
        <5>2. CASE f \in ControlledFields
          BY <2>1, <5>2
          DEF Candidate, Handed, FreeFields, ControlledFields, IdentityFields, MayUpdate
        <5> QED
          BY <5>1, <5>2 DEF Fields
      <4> QED
        BY <4>1, Zenon DEF Candidate
    <3>5. Transition(rec, target, t, Handed(m)) = m
      BY <2>1, <3>3, <3>4 DEF Transition, Validated, Sound
    <3> QED
      BY <2>7, <3>2, <3>5 DEF m
  <2> QED
    BY <2>6, <2>7
<1>2. Sound(rec) => LedgerFollowsTicket
  BY <1>1 DEF LedgerFollowsTicket
<1> QED
  BY <1>2, SoundAlways, PTL
=============================================================================
