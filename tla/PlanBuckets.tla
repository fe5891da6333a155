---------------------------- MODULE PlanBuckets ----------------------------
(***************************************************************************)
(* The plan folders of an owner repository (.agents/plans/<bucket>/): which *)
(* of them hold queued tickets and which actioned ones, how far along an    *)
(* actioned ticket is, and which copy of a ticket move_ticket_file takes    *)
(* when it moves the ticket to a bucket.                                    *)
(***************************************************************************)
EXTENDS Naturals, Sequences

Queued == {"to_triage", "ideas", "to_plan", "ready"}
Actioned == {"deferred", "in_progress", "for_review", "complete", "archived"}
Buckets == Queued \cup Actioned \cup {"discarded"}

\* actioned_rank of move_ticket_file; the order is that of
\* ACTIONED_PLAN_BUCKET_PRIORITY, by which a repair prefers a copy.
Rank == [deferred |-> 0, in_progress |-> 1, for_review |-> 2, complete |-> 3, archived |-> 4]

\* The order in which the buckets are searched for the copy to move.
SourcePriority(to) ==
    CASE to = "for_review" ->
            <<"in_progress", "ready", "to_plan", "ideas", "to_triage", "complete", "deferred">>
      [] to = "complete" ->
            <<"for_review", "in_progress", "ready", "to_plan", "ideas", "to_triage", "deferred">>
      [] OTHER ->
            <<"ready", "to_plan", "ideas", "to_triage", "in_progress", "for_review", "complete",
              "deferred">>

\* Of the buckets in `held`, the one the moved copy comes from: the first of
\* the priority list; when the list names none of them, the first by path of
\* the two that no list names.
SourceBucket(held, to) ==
    LET listed == {i \in DOMAIN SourcePriority(to) : SourcePriority(to)[i] \in held}
    IN  IF listed = {} THEN IF "discarded" \in held THEN "discarded" ELSE "archived"
        ELSE SourcePriority(to)[CHOOSE i \in listed : \A j \in listed : i <= j]

\* A move between actioned buckets never goes back: the copies in a bucket
\* further along than `to`.  Queued targets and `discarded` have no rank.
Further(held, to) ==
    IF to \in Actioned THEN {b \in held \cap Actioned : Rank[b] > Rank[to]} ELSE {}
=============================================================================
