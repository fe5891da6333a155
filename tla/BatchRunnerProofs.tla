------------------------- MODULE BatchRunnerProofs -------------------------
(***************************************************************************)
(* Proofs about the batch runner, for any tickets and conflict keys, any    *)
(* number of workers, retries, cycles, batches and faults, and any results  *)
(* of the runs.                                                             *)
(***************************************************************************)
EXTENDS BatchRunner, SequenceTheorems, FiniteSetTheorems, TLAPS

Cands == [t : Tickets, retry : Nat, resume : BOOLEAN]
Jobs == [t : Tickets, batch : Nat, resume : BOOLEAN, res : Results \cup {"running", "exhausted"}]
Statuses == {"running", "blocked", "resume_ready", "parked", "completed", "awaiting_terminal_proof",
             "failed"}
BatchStates ==
  [status : Statuses, in_flight : SUBSET Tickets, parked : SUBSET Tickets, resume_ready : SUBSET Tickets,
   completed : SUBSET Tickets, failed : SUBSET Tickets, retryable : SUBSET Tickets,
   with_dir : SUBSET Tickets, with_pr : SUBSET Tickets]
Launched(t) == launches[t] > 0
Placed == pc \in {"claimed", "submit"}      \* cur is a candidate between queue and flight
Elems(q) == {q[i] : i \in DOMAIN q}
Unique(q) == \A i, j \in DOMAIN q : q[i].t = q[j].t => i = j
Waiting == Elems(queue)

(* The parts of the state the proof looks into. *)
Typed ==
  /\ bucket \in [Tickets -> Buckets]
  /\ jobs \subseteq Jobs /\ \A j \in jobs : j.batch <= batch
  /\ batch \in Nat /\ queue \in Seq(Cands) /\ flight \subseteq Cands
  /\ Placed => cur \in Cands
  /\ mem \in BatchStates /\ disk \in BatchStates
  /\ launches \in [Tickets -> Nat]

(* A ticket is one candidate: in the queue, between the two, or in flight. *)
Single ==
  /\ Unique(queue)
  /\ \A c, d \in flight : c.t = d.t => c = d
  /\ \A c \in Waiting, d \in flight : c.t # d.t
  /\ Placed => \A c \in Waiting \cup flight : c.t # cur.t
  /\ pc \in {"off", "collect", "drained", "wave_done", "ended"} => flight = {}

(* The runs of this batch are those of the candidates in flight. *)
Jobbed ==
  /\ \A i, j \in jobs : Mine(i) /\ Mine(j) /\ i.t = j.t => i = j
  /\ pc # "ended" => \A j \in jobs : Mine(j) => \E c \in flight : c.t = j.t

(* Candidates in flight, and the one about to be, share no conflict key. *)
Apart ==
  /\ \A c, d \in flight : c # d => ConflictKeys[c.t] \cap ConflictKeys[d.t] = {}
  /\ Placed => \A c \in flight : ConflictKeys[c.t] \cap ConflictKeys[cur.t] = {}
  /\ NoConflictingRuns

(* What is in flight is recorded, in memory and in the file. *)
InFile ==
  /\ \A c \in flight : c.t \in mem.in_flight /\ c.t \in disk.in_flight
  /\ pc = "submit" => cur.t \in mem.in_flight /\ cur.t \in disk.in_flight
  /\ RunsAreRecorded

(* Of a launched ticket the phase has the result or still has the candidate, *)
(* and a candidate was launched before only when it is a retry.              *)
Pursued ==
  /\ pc \notin {"unwind", "ended"} => \A t \in Tickets : Launched(t) =>
        \/ t \in processed
        \/ \E c \in Waiting \cup flight : c.t = t
        \/ Placed /\ cur.t = t
  /\ pc \in {"collect", "drained"} \/ (pc = "wave_done" /\ ~blocked) =>
        \A t \in Tickets : Launched(t) => t \in processed
  /\ \A c \in Waiting : (c.resume => c.retry = 0) /\ (c.retry = 0 => ~Launched(c.t))
  /\ Placed => (cur.resume => cur.retry = 0) /\ (cur.retry = 0 => ~Launched(cur.t))

(* NoTicketStranded, and the same of the state that will be written next. *)
Kept(s) ==
  \A t \in Tickets : Launched(t) /\ bucket[t] = "in_progress" =>
      \/ t \in s.in_flight \cup Named(s) \cup lost
      \/ pc = "claimed" /\ cur.t = t

(* The lists of the state follow the phase. *)
InOneList(s, t) == \E l \in Lists : {k \in Lists : t \in s[k]} = {l}
Listed ==
  /\ pc # "ended" => mem.status = "running" /\ disk.status = "running"
  /\ pc \notin {"unwind", "ended"} => \A t \in mem.in_flight :
        (\E c \in flight : c.t = t) \/ (pc = "submit" /\ cur.t = t)
  /\ \A c \in Waiting \cup flight : c.t \notin processed
  /\ Placed => cur.t \notin processed
  /\ pc # "ended" => \A t \in Tickets :
        IF t \in processed THEN InOneList(mem, t)
        ELSE t \notin mem.parked \cup mem.resume_ready \cup mem.completed

(* A retry has left 3 - in_progress and no list names its ticket: only a     *)
(* ticket not bound to the base revision can be listed and not processed.    *)
Bound ==
  /\ \A c \in Waiting : c.retry > 0 => bucket[c.t] # "in_progress" /\ c.t \in revision
  /\ \A c \in Waiting : ~c.resume => bucket[c.t] # "to_plan"
  /\ \A c \in flight : ~c.resume => c.t \in revision
  /\ Placed /\ ~cur.resume => cur.t \in revision
  /\ pc # "ended" => \A t \in mem.failed \ processed : bucket[t] # "to_plan" /\ t \notin revision

BatchInv ==
  Typed /\ Single /\ Jobbed /\ Apart /\ InFile /\ Pursued /\ Kept(mem) /\ Kept(disk)
    /\ Listed /\ Bound /\ LaunchesAccounted

-----------------------------------------------------------------------------
(* The queue as a set: what RemoveAt, Append and a new wave make of it.     *)
LEMMA RemovedFromQueue ==
  ASSUME NEW q \in Seq(Cands), NEW i \in DOMAIN q, Unique(q)
  PROVE  /\ RemoveAt(q, i) \in Seq(Cands) /\ Unique(RemoveAt(q, i))
         /\ Elems(RemoveAt(q, i)) = Elems(q) \ {q[i]}
<1> DEFINE left == SubSeq(q, 1, i - 1)
           right == SubSeq(q, i + 1, Len(q))
           r == RemoveAt(q, i)
<1>1. i \in 1..Len(q) /\ Len(q) \in Nat /\ \A k \in 1..Len(q) : q[k] \in Cands
  OBVIOUS
<1>2. /\ left \in Seq(Cands) /\ Len(left) = i - 1
      /\ \A k \in 1..(i - 1) : left[k] = q[k]
  <2>1. \A k \in 1..(i - 1) : q[k] \in Cands
    BY <1>1
  <2> QED BY <1>1, <2>1, SubSeqProperties
<1>3. /\ right \in Seq(Cands) /\ Len(right) = Len(q) - i
      /\ \A k \in 1..(Len(q) - i) : right[k] = q[k + i]
  <2>1. \A k \in (i + 1)..Len(q) : q[k] \in Cands
    BY <1>1
  <2>2. /\ right \in Seq(Cands)
        /\ Len(right) = IF i + 1 <= Len(q) THEN Len(q) - (i + 1) + 1 ELSE 0
        /\ \A k \in 1..(Len(q) - (i + 1) + 1) : right[k] = q[(i + 1) + k - 1]
    BY <1>1, <2>1, SubSeqProperties
  <2>3. \A k \in 1..(Len(q) - i) : (i + 1) + k - 1 = k + i
    BY <1>1
  <2> QED BY <1>1, <2>2, <2>3
<1> HIDE DEF left, right
<1>4. /\ r \in Seq(Cands) /\ Len(r) = Len(q) - 1
      /\ \A k \in 1..Len(r) : r[k] = IF k < i THEN q[k] ELSE q[k + 1]
  <2>1. r = left \o right
    BY DEF RemoveAt, left, right
  <2>2. /\ r \in Seq(Cands) /\ Len(r) = Len(left) + Len(right)
        /\ \A k \in 1..(Len(left) + Len(right)) :
             r[k] = IF k <= Len(left) THEN left[k] ELSE right[k - Len(left)]
    BY <1>2, <1>3, <2>1, ConcatProperties
  <2>3. ASSUME NEW k \in 1..(Len(q) - 1), k >= i
        PROVE  r[k] = q[k + 1]
    <3>1. k - Len(left) \in 1..(Len(q) - i) /\ (k - Len(left)) + i = k + 1
      BY <1>1, <1>2, <2>3
    <3>2. k \in 1..(Len(left) + Len(right)) /\ ~(k <= Len(left))
      BY <1>1, <1>2, <1>3, <2>3
    <3>3. r[k] = right[k - Len(left)]
      BY <2>2, <3>2
    <3> QED BY <1>3, <3>1, <3>3
  <2>4. ASSUME NEW k \in 1..(Len(q) - 1), k < i
        PROVE  r[k] = q[k]
    <3>1. k \in 1..(i - 1) /\ k <= Len(left) /\ k \in 1..(Len(left) + Len(right))
      BY <1>1, <1>2, <1>3, <2>4
    <3> QED BY <1>2, <2>2, <3>1
  <2>5. Len(r) = Len(q) - 1
    BY <1>1, <1>2, <1>3, <2>2
  <2>6. ASSUME NEW k \in 1..Len(r)
        PROVE  r[k] = IF k < i THEN q[k] ELSE q[k + 1]
    <3>1. k \in 1..(Len(q) - 1) /\ (k < i \/ k >= i)
      BY <1>1, <2>5
    <3> HIDE DEF r
    <3> QED BY <1>1, <2>3, <2>4, <3>1
  <2> QED BY <2>2, <2>5, <2>6
<1> HIDE DEF r
<1>5. Unique(r)
  <2> SUFFICES ASSUME NEW k \in DOMAIN r, NEW m \in DOMAIN r, r[k].t = r[m].t
               PROVE  k = m
    BY DEF Unique
  <2> DEFINE at(n) == IF n < i THEN n ELSE n + 1
  <2>1. /\ k \in 1..Len(r) /\ m \in 1..Len(r) /\ r[k] = q[at(k)] /\ r[m] = q[at(m)]
        /\ at(k) \in DOMAIN q /\ at(m) \in DOMAIN q
    BY <1>1, <1>4
  <2>2. at(k) = at(m)
    BY <2>1 DEF Unique
  <2> QED BY <1>1, <2>1, <2>2
<1>6. Elems(r) \subseteq Elems(q) \ {q[i]}
  BY <1>1, <1>4 DEF Unique, Elems
<1>7. ASSUME NEW k \in 1..Len(q), k # i PROVE q[k] \in Elems(r)
  <2>1. CASE k < i
    BY <1>1, <1>4, <1>7, <2>1 DEF Elems
  <2>2. CASE k > i
    <3>1. k - 1 \in 1..Len(r) /\ r[k - 1] = q[(k - 1) + 1] /\ (k - 1) + 1 = k
      BY <1>1, <1>4, <1>7, <2>2
    <3> QED BY <1>4, <3>1 DEF Elems
  <2> QED BY <1>1, <1>7, <2>1, <2>2
<1>8. Elems(q) \ {q[i]} \subseteq Elems(r)
  BY <1>1, <1>7 DEF Elems
<1> QED BY <1>4, <1>5, <1>6, <1>8 DEF r

(* Appending a new ticket keeps the queue free of duplicates.                *)
LEMMA AppendedToQueue ==
  ASSUME NEW q \in Seq(Cands), NEW c \in Cands, Unique(q), \A d \in Elems(q) : d.t # c.t
  PROVE  /\ Append(q, c) \in Seq(Cands) /\ Unique(Append(q, c))
         /\ Elems(Append(q, c)) = Elems(q) \cup {c}
<1> DEFINE r == Append(q, c)
<1>1. /\ r \in Seq(Cands) /\ Len(r) = Len(q) + 1 /\ Len(q) \in Nat
      /\ \A k \in 1..Len(q) : r[k] = q[k]
      /\ r[Len(q) + 1] = c
  BY AppendProperties
<1> HIDE DEF r
<1>2. DOMAIN r = 1..(Len(q) + 1) /\ DOMAIN q = 1..Len(q)
  BY <1>1
<1>3. Unique(r)
  BY <1>1, <1>2 DEF Unique, Elems
<1>4. Elems(r) = Elems(q) \cup {c}
  BY <1>1, <1>2 DEF Elems
<1> QED BY <1>1, <1>3, <1>4 DEF r

(* Tickets are finitely many, since TicketOrder lists them.                  *)
LEMMA FiniteTickets == \A S \in SUBSET Tickets : Cardinality(S) \in Nat
<1>1. TicketOrder \in Seq(Tickets) /\ Range(TicketOrder) = Tickets
  BY BatchAssumption DEF BatchAssumption
<1>2. TicketOrder \in Surjection(1..Len(TicketOrder), Tickets)
  BY <1>1 DEF Surjection, Range
<1>3. IsFiniteSet(1..Len(TicketOrder))
  BY <1>1, FS_Interval
<1>4. IsFiniteSet(Tickets)
  BY <1>2, <1>3, FS_Surjection
<1> QED BY <1>4, FS_Subset, FS_CardinalityType

(* A wave's queue holds each of its tickets at most once, as a fresh         *)
(* candidate (_collect_wave_candidates).                                    *)
LEMMA WaveQueue ==
  ASSUME NEW S \in SUBSET Tickets, NEW q \in Waves(S)
  PROVE  /\ q \in Seq(Cands) /\ Unique(q)
         /\ \A c \in Elems(q) : c.t \in S /\ c = Candidate(c.t)
<1>1. \A t \in S : Candidate(t) \in Cands /\ Candidate(t).t = t
  BY DEF Candidate, Cands
<1>2. Cardinality(S) \in Nat /\ q \in [1..Cardinality(S) -> {Candidate(t) : t \in S}]
  BY FiniteTickets DEF Waves
<1>3. q \in Seq(Cands)
  BY <1>1, <1>2
<1>4. ASSUME NEW i \in DOMAIN q, NEW j \in DOMAIN q, i < j, q[i].t = q[j].t PROVE FALSE
  <2>1. Earlier(q[i].t, q[i].t)
    BY <1>4 DEF Waves
  <2>2. \A m, n \in DOMAIN TicketOrder : TicketOrder[m] = TicketOrder[n] => m = n
    BY BatchAssumption DEF BatchAssumption
  <2>3. DOMAIN TicketOrder \subseteq Int
    BY BatchAssumption DEF BatchAssumption
  <2> QED BY <2>1, <2>2, <2>3 DEF Earlier
<1>5. Unique(q)
  BY <1>2, <1>4 DEF Unique
<1>6. \A c \in Elems(q) : c.t \in S /\ c = Candidate(c.t)
  BY <1>1, <1>2 DEF Elems
<1> QED BY <1>3, <1>5, <1>6

(* A move leaves the ticket where it is or takes it where it is sent; nothing *)
(* keeps it from the ready queue.                                            *)
LEMMA Moves ==
  ASSUME NEW b, NEW to
  PROVE  Moved(b, to) \in {b, to} /\ Moved(b, "ready") = "ready" /\ Moved(b, "to_plan") = "to_plan"
BY DEF Moved, Further, Actioned

(* The buckets the batch moves tickets to are buckets of the board.          *)
LEMMA BucketNames ==
  {"ready", "to_plan", "in_progress", "for_review", "complete"} \subseteq Buckets
BY DEF Buckets, Queued, Actioned

(* A settled result is in one list, and the other tickets stay in theirs     *)
(* (_remember_state_entry).                                                 *)
LEMMA Remembered ==
  ASSUME NEW s \in BatchStates, NEW list \in Lists, NEW t \in Tickets, NEW out
  PROVE  LET r == Remember(s, list, t, out) IN
         /\ r \in BatchStates /\ r.status = s.status /\ r.in_flight = s.in_flight
         /\ InOneList(r, t)
         /\ \A u \in Tickets, l \in Lists : u # t => (u \in r[l] <=> u \in s[l])
<1> DEFINE r == Remember(s, list, t, out)
<1>1. /\ r \in BatchStates /\ r.status = s.status /\ r.in_flight = s.in_flight
      /\ r.parked = IF list = "parked" THEN s.parked \cup {t} ELSE s.parked \ {t}
      /\ r.resume_ready = IF list = "resume_ready" THEN s.resume_ready \cup {t} ELSE s.resume_ready \ {t}
      /\ r.completed = IF list = "completed" THEN s.completed \cup {t} ELSE s.completed \ {t}
      /\ r.failed = IF list = "failed" THEN s.failed \cup {t} ELSE s.failed \ {t}
  <2> DEFINE put(S, yes) == IF yes THEN S \cup {t} ELSE S \ {t}
             P == put(s.parked, list = "parked")
             R == put(s.resume_ready, list = "resume_ready")
             C == put(s.completed, list = "completed")
             F == put(s.failed, list = "failed")
             D == put(s.with_dir, out.dir)
             X == put(s.with_pr, out.pr)
             Y == s.retryable \ {t}
  <2>1. r = [s EXCEPT !.parked = P, !.resume_ready = R, !.completed = C, !.failed = F,
                      !.retryable = Y, !.with_dir = D, !.with_pr = X]
    BY Zenon DEF Remember
  <2>2. P \in SUBSET Tickets /\ R \in SUBSET Tickets /\ C \in SUBSET Tickets /\ F \in SUBSET Tickets
        /\ D \in SUBSET Tickets /\ X \in SUBSET Tickets /\ Y \in SUBSET Tickets
    BY DEF BatchStates
  <2> HIDE DEF P, R, C, F, D, X, Y, r
  <2>3. /\ r \in BatchStates /\ r.status = s.status /\ r.in_flight = s.in_flight
        /\ r.parked = P /\ r.resume_ready = R /\ r.completed = C /\ r.failed = F
    BY <2>1, <2>2 DEF BatchStates
  <2> QED BY <2>3 DEF P, R, C, F
<1> HIDE DEF r
<1>2. \A l \in Lists : t \in r[l] <=> l = list
  BY <1>1 DEF Lists
<1>3. {k \in Lists : t \in r[k]} = {list}
  BY <1>2
<1>4. InOneList(r, t)
  BY <1>3 DEF InOneList
<1>5. \A u \in Tickets, l \in Lists : u # t => (u \in r[l] <=> u \in s[l])
  BY <1>1 DEF Lists
<1> QED BY <1>1, <1>4, <1>5 DEF r

(* A named ticket is in one of the lists,                                    *)
LEMMA NamedInLists == \A s, t : t \in Named(s) <=> \E l \in Lists : t \in s[l]
BY DEF Named, Lists

(* and one in exactly one list is named.                                     *)
LEMMA ListedSomewhere == \A s, t : InOneList(s, t) => t \in Named(s)
BY NamedInLists DEF InOneList

(* While the phase runs, the runs still out are those of candidates in flight, *)
(* which are apart and recorded.                                             *)
LEMMA FlightIsApart ==
  ASSUME Jobbed', pc' # "ended",
         (\A c, d \in flight : c # d => ConflictKeys[c.t] \cap ConflictKeys[d.t] = {})'
  PROVE  NoConflictingRuns'
BY DEF Jobbed, NoConflictingRuns, Running

(* Likewise for their entries in the state file.                             *)
LEMMA FlightIsRecorded ==
  ASSUME Jobbed', pc' # "ended", (\A c \in flight : c.t \in disk.in_flight)'
  PROVE  RunsAreRecorded'
BY DEF Jobbed, RunsAreRecorded, Running

(* A new in-flight set leaves the lists of a state alone,                    *)
LEMMA InFlightOnly ==
  ASSUME NEW s \in BatchStates, NEW F \in SUBSET Tickets
  PROVE  LET r == [s EXCEPT !.in_flight = F] IN
         /\ r \in BatchStates /\ Named(r) = Named(s)
         /\ \A l \in Lists : r[l] = s[l]
         /\ \A t : InOneList(r, t) <=> InOneList(s, t)
<1> DEFINE r == [s EXCEPT !.in_flight = F]
<1>1. /\ r \in BatchStates
      /\ r.parked = s.parked /\ r.resume_ready = s.resume_ready
      /\ r.completed = s.completed /\ r.failed = s.failed
  BY DEF BatchStates
<1> HIDE DEF r
<1>2. \A l \in Lists : r[l] = s[l]
  BY <1>1 DEF Lists
<1>3. \A t : {k \in Lists : t \in r[k]} = {k \in Lists : t \in s[k]}
  BY <1>2
<1>4. Named(r) = Named(s) /\ \A t : InOneList(r, t) <=> InOneList(s, t)
  BY <1>1, <1>3 DEF Named, InOneList
<1> QED BY <1>1, <1>2, <1>4 DEF r

(* and so does a new status.                                                 *)
LEMMA StatusOnly ==
  ASSUME NEW s \in BatchStates, NEW st \in Statuses
  PROVE  LET r == [s EXCEPT !.status = st] IN
         /\ r \in BatchStates /\ Named(r) = Named(s)
         /\ \A l \in Lists : r[l] = s[l]
         /\ \A t : InOneList(r, t) <=> InOneList(s, t)
<1> DEFINE r == [s EXCEPT !.status = st]
<1>1. /\ r \in BatchStates
      /\ r.parked = s.parked /\ r.resume_ready = s.resume_ready
      /\ r.completed = s.completed /\ r.failed = s.failed
  BY DEF BatchStates
<1> HIDE DEF r
<1>2. \A l \in Lists : r[l] = s[l]
  BY <1>1 DEF Lists
<1>3. \A t : {k \in Lists : t \in r[k]} = {k \in Lists : t \in s[k]}
  BY <1>2
<1>4. Named(r) = Named(s) /\ \A t : InOneList(r, t) <=> InOneList(s, t)
  BY <1>1, <1>3 DEF Named, InOneList
<1> QED BY <1>1, <1>2, <1>4 DEF r

(* Whatever is queued or in flight is a candidate.                          *)
LEMMA CandidatesTyped == BatchInv => \A c \in Waiting \cup flight : c \in Cands /\ c.t \in Tickets
<1> SUFFICES ASSUME BatchInv, NEW c \in Waiting \cup flight PROVE c \in Cands
  BY DEF Cands
<1>1. queue \in Seq(Cands) /\ flight \subseteq Cands
  BY DEF BatchInv, Typed
<1>2. \A i \in DOMAIN queue : queue[i] \in Cands
  BY <1>1
<1> QED BY <1>1, <1>2 DEF Waiting, Elems

-----------------------------------------------------------------------------
(* A fresh batch state is typed and empty.                                  *)
LEMMA EmptyLists ==
  EmptyState \in BatchStates /\ EmptyState.status = "running" /\ EmptyState.in_flight = {}
    /\ EmptyState.parked = {} /\ EmptyState.resume_ready = {} /\ EmptyState.completed = {}
    /\ EmptyState.failed = {}
<1> DEFINE none == {}
           run == "running"
<1>1. none \in SUBSET Tickets /\ run \in Statuses
  BY DEF Statuses
<1>2. EmptyState = [status |-> run, in_flight |-> none, parked |-> none, resume_ready |-> none,
          completed |-> none, failed |-> none, retryable |-> none, with_dir |-> none, with_pr |-> none]
  BY DEF EmptyState
<1> HIDE DEF none, run
<1>3. EmptyState \in BatchStates
  BY <1>1, <1>2 DEF BatchStates
<1>4. EmptyState.status = run /\ EmptyState.in_flight = none
    /\ EmptyState.parked = none /\ EmptyState.resume_ready = none /\ EmptyState.completed = none
    /\ EmptyState.failed = none
  BY <1>2
<1> QED BY <1>3, <1>4 DEF none, run

(* The invariant holds at the start,                                         *)
LEMMA InitKeeps == Init => BatchInv
<1> SUFFICES ASSUME Init PROVE BatchInv
  OBVIOUS
<1>2. \A t \in Tickets : ~Launched(t)
  BY DEF Init, Launched
<1>3. Typed
  BY EmptyLists DEF Init, Typed, Placed, Buckets, Queued, Actioned
<1>4. Single /\ Waiting = {}
  BY DEF Init, Single, Placed, Waiting, Elems, Unique
<1>5. Jobbed /\ Apart /\ InFile
  BY DEF Init, Jobbed, Apart, InFile, Placed, NoConflictingRuns, RunsAreRecorded, Running
<1>6. Pursued /\ Kept(mem) /\ Kept(disk)
  BY <1>2, <1>4 DEF Init, Pursued, Kept, Placed
<1>7. Listed /\ Bound
  BY EmptyLists, <1>4 DEF Init, Listed, Bound, Placed
<1>8. LaunchesAccounted
  BY DEF Init, LaunchesAccounted
<1> QED BY <1>3, <1>4, <1>5, <1>6, <1>7, <1>8 DEF BatchInv

(* and when a batch starts: nothing is launched, listed or in flight.        *)
LEMMA StartKeeps == BatchInv /\ StartBatch => BatchInv'
<1> SUFFICES ASSUME BatchInv, StartBatch PROVE BatchInv'
  OBVIOUS
<1>2. \A t \in Tickets : ~(Launched(t)')
  BY DEF StartBatch, Launched
<1>3. Typed'
  BY EmptyLists DEF BatchInv, StartBatch, Typed, Placed, board, Jobs
<1>4. Single' /\ Waiting' = {}
  BY DEF StartBatch, Single, Placed, Waiting, Elems, Unique
<1>5. \A j \in jobs' : ~(Mine(j)')
  BY DEF BatchInv, Typed, StartBatch, Mine, Jobs
<1>6. Jobbed' /\ Apart' /\ InFile'
  BY <1>5 DEF StartBatch, Jobbed, Apart, InFile, Placed, NoConflictingRuns, RunsAreRecorded, Running
<1>7. Pursued' /\ Kept(mem)' /\ Kept(disk)'
  BY <1>2, <1>4 DEF StartBatch, Pursued, Kept, Placed
<1>8. Listed' /\ Bound'
  BY EmptyLists, <1>4 DEF StartBatch, Listed, Bound, Placed
<1>9. LaunchesAccounted'
  BY DEF StartBatch, LaunchesAccounted
<1> QED BY <1>3, <1>4, <1>6, <1>7, <1>8, <1>9 DEF BatchInv

(* The in-flight entry is written before anything else happens.              *)
LEMMA RecordLaunchKeeps == BatchInv /\ RecordLaunch => BatchInv'
<1> SUFFICES ASSUME BatchInv, RecordLaunch PROVE BatchInv'
  OBVIOUS
<1>1. /\ pc = "claimed" /\ pc' = "submit" /\ disk' = mem' /\ cur' = cur /\ flight' = flight /\ queue' = queue
      /\ jobs' = jobs /\ batch' = batch /\ launches' = launches /\ bucket' = bucket /\ lost' = lost
      /\ processed' = processed /\ blocked' = blocked /\ revision' = revision
      /\ cur \in Cands /\ mem \in BatchStates
  BY DEF BatchInv, Typed, Placed, RecordLaunch, board, control
<1>2. cur.t \in Tickets
  BY <1>1 DEF Cands
<1>3. mem' = [mem EXCEPT !.in_flight = mem.in_flight \cup {cur.t}]
  BY DEF RecordLaunch
<1>4. mem.in_flight \cup {cur.t} \in SUBSET Tickets
  BY <1>1, <1>2 DEF BatchStates
<1>5. /\ mem' \in BatchStates /\ mem'.in_flight = mem.in_flight \cup {cur.t} /\ mem'.status = mem.status
  BY <1>1, <1>3, <1>4 DEF BatchStates
<1>6. /\ Named(mem') = Named(mem) /\ \A l \in Lists : mem'[l] = mem[l]
      /\ \A t : InOneList(mem', t) <=> InOneList(mem, t)
  BY <1>1, <1>3, <1>4, InFlightOnly
<1>7. Typed'
  BY <1>1, <1>5 DEF BatchInv, Typed, Placed
<1>8. Single' /\ Waiting' = Waiting
  BY <1>1 DEF BatchInv, Single, Placed, Waiting
<1>9. Jobbed' /\ Apart'
  BY <1>1 DEF BatchInv, Jobbed, Apart, Placed, NoConflictingRuns, Running, Mine
<1>10. InFile'
  BY <1>1, <1>5, <1>9, FlightIsRecorded DEF BatchInv, InFile
<1>11. Pursued'
  BY <1>1, <1>8 DEF BatchInv, Pursued, Placed, Launched
<1>12. Kept(mem)' /\ Kept(disk)'
  BY <1>1, <1>5, <1>6 DEF BatchInv, Kept, Launched
<1>13. Listed'
  BY <1>1, <1>5, <1>6, <1>8 DEF BatchInv, Listed, Placed, Lists
<1>14. Bound'
  BY <1>1, <1>6, <1>8 DEF BatchInv, Bound, Placed, Lists
<1>15. LaunchesAccounted'
  BY <1>1 DEF LaunchesAccounted
<1> QED BY <1>7, <1>8, <1>9, <1>10, <1>11, <1>12, <1>13, <1>14, <1>15 DEF BatchInv

(* The run submitted is the candidate's, apart from those in flight.         *)
LEMMA SubmitKeeps == BatchInv /\ Submit => BatchInv'
<1> SUFFICES ASSUME BatchInv, Submit PROVE BatchInv'
  OBVIOUS
<1>1. /\ pc = "submit" /\ pc' = "launch" /\ cur' = cur /\ queue' = queue /\ flight' = flight \cup {cur}
      /\ batch' = batch /\ bucket' = bucket /\ lost' = lost /\ mem' = mem /\ disk' = disk
      /\ processed' = processed /\ blocked' = blocked /\ revision' = revision
      /\ launches' = [launches EXCEPT ![cur.t] = @ + 1]
      /\ cur \in Cands /\ launches \in [Tickets -> Nat] /\ batch \in Nat
  BY DEF BatchInv, Typed, Placed, Submit, board, control
<1>2. PICK res \in {"running", "exhausted"} : jobs' = jobs \cup {Job(cur, res)}
  BY DEF Submit
<1>3. cur.t \in Tickets /\ Job(cur, res) \in Jobs /\ Job(cur, res).t = cur.t /\ Job(cur, res).batch = batch
  BY <1>1 DEF Cands, Job, Jobs
<1>4. /\ launches' \in [Tickets -> Nat] /\ Launched(cur.t)'
      /\ \A t \in Tickets : t # cur.t => (Launched(t)' <=> Launched(t))
  BY <1>1, <1>3 DEF Launched
<1>5. Typed'
  BY <1>1, <1>2, <1>3, <1>4 DEF BatchInv, Typed, Placed
<1>6. Single' /\ Waiting' = Waiting
  BY <1>1 DEF BatchInv, Single, Placed, Waiting
<1>7. \A j \in jobs : Mine(j) => j.t # cur.t
  BY <1>1 DEF BatchInv, Jobbed, Single, Placed
<1>8. Jobbed'
  BY <1>1, <1>2, <1>3, <1>7 DEF BatchInv, Jobbed, Mine
<1>9. (\A c, d \in flight : c # d => ConflictKeys[c.t] \cap ConflictKeys[d.t] = {})'
  BY <1>1 DEF BatchInv, Apart, Placed
<1>10. Apart'
  BY <1>1, <1>8, <1>9, FlightIsApart DEF Apart, Placed
<1>11. InFile'
  BY <1>1, <1>8, FlightIsRecorded DEF BatchInv, InFile
<1>12. \A c \in Waiting : c.t \in Tickets /\ c.t # cur.t
  BY <1>1, CandidatesTyped DEF BatchInv, Single, Placed
<1>13. Pursued'
  BY <1>1, <1>4, <1>6, <1>12 DEF BatchInv, Pursued, Placed
<1>14. Kept(mem)' /\ Kept(disk)'
  BY <1>1, <1>4 DEF BatchInv, Kept, InFile
<1>15. Listed' /\ Bound'
  BY <1>1, <1>6 DEF BatchInv, Listed, Bound, Placed
<1>16. LaunchesAccounted'
  BY <1>1 DEF LaunchesAccounted
<1> QED BY <1>5, <1>6, <1>8, <1>10, <1>11, <1>13, <1>14, <1>15, <1>16 DEF BatchInv

(* When nothing can be launched and nothing is in flight, the queue is empty *)
(* unless a blocker stopped the phase (_pick_launchable_candidate_index).    *)
LEMMA NothingLeft == BatchInv /\ ~CanLaunch /\ flight = {} /\ ~blocked => Waiting = {}
<1> SUFFICES ASSUME BatchInv, ~CanLaunch, flight = {}, ~blocked PROVE Waiting = {}
  OBVIOUS
<1>1. Cardinality(flight) < Workers
  BY FS_EmptySet, BatchAssumption DEF BatchAssumption
<1>2. ActiveKeys = {}
  BY DEF ActiveKeys
<1>3. Launchable = DOMAIN queue
  BY <1>2 DEF Launchable
<1> QED BY <1>1, <1>3 DEF CanLaunch, Waiting, Elems

(* A flush touches neither tickets nor runs, nor the lists.                  *)
LEMMA FlushKeeps == BatchInv /\ Flush => BatchInv'
<1> SUFFICES ASSUME BatchInv, Flush PROVE BatchInv'
  OBVIOUS
<1>1. /\ pc = "launch" /\ pc' \in {"wave_done", "wait", "unwind"} /\ (pc' = "wave_done" => flight = {})
      /\ queue' = queue /\ flight' = flight /\ jobs' = jobs /\ batch' = batch /\ bucket' = bucket
      /\ lost' = lost /\ mem' = mem /\ disk' \in {mem, disk} /\ processed' = processed
      /\ blocked' = blocked /\ revision' = revision /\ launches' = launches
  BY DEF Flush, Raise, control
<1>2. Typed'
  BY <1>1 DEF BatchInv, Typed, Placed
<1>3. Single' /\ Waiting' = Waiting
  BY <1>1 DEF BatchInv, Single, Placed, Waiting
<1>4. Jobbed' /\ Apart'
  BY <1>1 DEF BatchInv, Jobbed, Apart, Placed, NoConflictingRuns, Running, Mine
<1>5. InFile'
  BY <1>1, <1>4, FlightIsRecorded DEF BatchInv, InFile
<1>6. pc' = "wave_done" /\ ~blocked => Waiting = {}
  BY <1>1, NothingLeft DEF Flush
<1>7. Pursued'
  BY <1>1, <1>3, <1>6 DEF BatchInv, Pursued, Placed, Launched
<1>8. Kept(mem)' /\ Kept(disk)'
  BY <1>1 DEF BatchInv, Kept, Launched
<1>9. Listed' /\ Bound'
  BY <1>1, <1>3 DEF BatchInv, Listed, Bound, Placed
<1>10. LaunchesAccounted'
  BY <1>1 DEF LaunchesAccounted
<1> QED BY <1>2, <1>3, <1>4, <1>5, <1>7, <1>8, <1>9, <1>10 DEF BatchInv

(* Writing the state file leaves the lists as they are in memory.            *)
LEMMA PersistSettledKeeps == BatchInv /\ PersistSettled => BatchInv'
<1> SUFFICES ASSUME BatchInv, PersistSettled PROVE BatchInv'
  OBVIOUS
<1>1. /\ pc = "settled" /\ pc' \in {"launch", "wait"}
      /\ queue' = queue /\ flight' = flight /\ jobs' = jobs /\ batch' = batch /\ bucket' = bucket
      /\ lost' = lost /\ mem' = mem /\ disk' = mem /\ processed' = processed
      /\ blocked' = blocked /\ revision' = revision /\ launches' = launches
  BY DEF PersistSettled, board, control
<1>2. Typed'
  BY <1>1 DEF BatchInv, Typed, Placed
<1>3. Single' /\ Waiting' = Waiting
  BY <1>1 DEF BatchInv, Single, Placed, Waiting
<1>4. Jobbed' /\ Apart'
  BY <1>1 DEF BatchInv, Jobbed, Apart, Placed, NoConflictingRuns, Running, Mine
<1>5. InFile'
  BY <1>1, <1>4, FlightIsRecorded DEF BatchInv, InFile
<1>6. Pursued'
  BY <1>1, <1>3 DEF BatchInv, Pursued, Placed, Launched
<1>7. Kept(mem)' /\ Kept(disk)'
  BY <1>1 DEF BatchInv, Kept, Launched
<1>8. Listed' /\ Bound'
  BY <1>1, <1>3 DEF BatchInv, Listed, Bound, Placed
<1>9. LaunchesAccounted'
  BY <1>1 DEF LaunchesAccounted
<1> QED BY <1>2, <1>3, <1>4, <1>5, <1>6, <1>7, <1>8, <1>9 DEF BatchInv

(* A wave ends with no run out: blocked, every launch is listed or a retry.  *)
LEMMA WaveDoneKeeps == BatchInv /\ WaveDone => BatchInv'
<1> SUFFICES ASSUME BatchInv, WaveDone PROVE BatchInv'
  OBVIOUS
<1>1. /\ pc = "wave_done" /\ flight = {} /\ flight' = {} /\ queue' = queue /\ jobs' = jobs /\ batch' = batch
      /\ bucket' = bucket /\ lost' = lost /\ processed' = processed /\ blocked' = blocked
      /\ revision' = revision /\ launches' = launches
      /\ mem \in BatchStates /\ disk \in BatchStates
  BY DEF BatchInv, Typed, Single, WaveDone, board
<1>2. \A j \in jobs : ~Mine(j)
  BY <1>1 DEF BatchInv, Jobbed
<1>3. CASE pc' \in {"collect", "unwind"}
  <2>1. mem' = mem /\ disk' = disk /\ (pc' = "collect" => ~blocked)
    BY <1>3 DEF WaveDone, Raise
  <2>2. Typed'
    BY <1>1, <1>3, <2>1 DEF BatchInv, Typed, Placed
  <2>3. Single' /\ Waiting' = Waiting
    BY <1>1, <1>3 DEF BatchInv, Single, Placed, Waiting
  <2>4. Jobbed' /\ Apart' /\ InFile'
    BY <1>1, <1>2, <1>3 DEF Jobbed, Apart, InFile, Placed, NoConflictingRuns, RunsAreRecorded, Running, Mine
  <2>5. Pursued'
    BY <1>1, <1>3, <2>1, <2>3 DEF BatchInv, Pursued, Placed, Launched
  <2>6. Kept(mem)' /\ Kept(disk)'
    BY <1>1, <2>1 DEF BatchInv, Kept, Launched
  <2>7. Listed' /\ Bound'
    BY <1>1, <1>3, <2>1, <2>3 DEF BatchInv, Listed, Bound, Placed
  <2>8. LaunchesAccounted'
    BY <1>3 DEF LaunchesAccounted
  <2> QED BY <2>2, <2>3, <2>4, <2>5, <2>6, <2>7, <2>8 DEF BatchInv
<1>4. CASE pc' = "ended"
  <2>1. mem' = [mem EXCEPT !.status = "blocked"] /\ disk' = mem' /\ blocked
    BY <1>4 DEF WaveDone, Raise
  <2>2. "blocked" \in Statuses
    BY DEF Statuses
  <2>3. /\ mem' \in BatchStates /\ Named(mem') = Named(mem)
        /\ \A t : InOneList(mem', t) <=> InOneList(mem, t)
    BY <1>1, <2>1, <2>2, StatusOnly
  <2>4. mem'.in_flight = mem.in_flight /\ mem'.status = "blocked"
    BY <1>1, <2>1 DEF BatchStates
  <2>5. Typed'
    BY <1>1, <1>4, <2>1, <2>3 DEF BatchInv, Typed, Placed
  <2>6. Single' /\ Waiting' = Waiting
    BY <1>1, <1>4 DEF BatchInv, Single, Placed, Waiting
  <2>7. Jobbed' /\ Apart' /\ InFile'
    BY <1>1, <1>2, <1>4 DEF Jobbed, Apart, InFile, Placed, NoConflictingRuns, RunsAreRecorded, Running, Mine
  <2>8. Pursued'
    BY <1>1, <1>4, <2>6 DEF BatchInv, Pursued, Placed, Launched
  <2>9. Kept(mem)' /\ Kept(disk)'
    BY <1>1, <2>1, <2>3, <2>4 DEF BatchInv, Kept, Launched
  <2>10. Listed' /\ Bound'
    BY <1>1, <1>4, <2>6 DEF BatchInv, Listed, Bound, Placed
  <2>11. ASSUME NEW t \in Tickets, Launched(t)
         PROVE  InOneList(mem, t) \/ (bucket[t] # "in_progress" /\ t \notin Named(mem))
    <3>1. CASE t \in processed
      BY <1>1, <3>1 DEF BatchInv, Listed
    <3>2. CASE t \notin processed
      <4>1. PICK c \in Waiting : c.t = t
        BY <1>1, <2>11, <3>2 DEF BatchInv, Pursued, Placed
      <4>2. c.retry \in Nat /\ c.retry # 0
        BY <2>11, <4>1, CandidatesTyped DEF BatchInv, Pursued, Cands
      <4>3. bucket[t] # "in_progress" /\ t \in revision
        BY <4>1, <4>2 DEF BatchInv, Bound
      <4>4. t \notin mem.failed
        BY <1>1, <3>2, <4>3 DEF BatchInv, Bound
      <4>5. t \notin mem.parked \cup mem.resume_ready \cup mem.completed
        BY <1>1, <3>2 DEF BatchInv, Listed
      <4> QED BY <4>3, <4>4, <4>5 DEF Named
    <3> QED BY <3>1, <3>2
  <2>12. mem.in_flight = {}
    BY <1>1 DEF BatchInv, Listed, BatchStates
  <2>13. \A t \in Tickets : launches'[t] > 0 =>
            InOneList(disk', t) \/ (bucket'[t] # "in_progress" /\ t \notin Named(disk'))
    BY <1>1, <2>1, <2>3, <2>11 DEF Launched
  <2>14. disk'.status = "blocked" /\ disk'.in_flight = {}
    BY <2>1, <2>4, <2>12
  <2>15. LaunchesAccounted'
    BY <2>13, <2>14 DEF LaunchesAccounted, InOneList
  <2> QED BY <2>5, <2>6, <2>7, <2>8, <2>9, <2>10, <2>15 DEF BatchInv
<1> QED BY <1>3, <1>4 DEF WaveDone, Raise

(* A drained phase has processed every launch, so each is in one list.       *)
LEMMA DrainedKeeps == BatchInv /\ Drained => BatchInv'
<1> SUFFICES ASSUME BatchInv, Drained PROVE BatchInv'
  OBVIOUS
<1>1. /\ pc = "drained" /\ pc' = "ended" /\ flight = {} /\ flight' = {} /\ queue' = queue /\ jobs' = jobs
      /\ batch' = batch /\ bucket' = bucket /\ lost' = lost /\ processed' = processed
      /\ revision' = revision /\ launches' = launches
      /\ mem \in BatchStates /\ disk' = mem'
  BY DEF BatchInv, Typed, Single, Drained, board, control
<1>2. \A j \in jobs : ~Mine(j)
  BY <1>1 DEF BatchInv, Jobbed
<1>3. PICK st \in {"resume_ready", "parked", "completed", "awaiting_terminal_proof"} : mem' = [mem EXCEPT !.status = st]
  BY DEF Drained
<1>4. st \in Statuses
  BY DEF Statuses
<1>5. /\ mem' \in BatchStates /\ Named(mem') = Named(mem)
      /\ \A t : InOneList(mem', t) <=> InOneList(mem, t)
  BY <1>1, <1>3, <1>4, StatusOnly
<1>6. mem'.in_flight = mem.in_flight
  BY <1>1, <1>3 DEF BatchStates
<1>7. Typed'
  BY <1>1, <1>5 DEF BatchInv, Typed, Placed
<1>8. Single' /\ Waiting' = Waiting
  BY <1>1 DEF BatchInv, Single, Placed, Waiting
<1>9. Jobbed' /\ Apart' /\ InFile'
  BY <1>1, <1>2 DEF Jobbed, Apart, InFile, Placed, NoConflictingRuns, RunsAreRecorded, Running, Mine
<1>10. Pursued'
  BY <1>1, <1>8 DEF BatchInv, Pursued, Placed, Launched
<1>11. Kept(mem)' /\ Kept(disk)'
  BY <1>1, <1>5, <1>6 DEF BatchInv, Kept, Launched
<1>12. Listed' /\ Bound'
  BY <1>1, <1>8 DEF BatchInv, Listed, Bound, Placed
<1>13. mem.in_flight = {}
  BY <1>1 DEF BatchInv, Listed, BatchStates
<1>14. \A t \in Tickets : Launched(t) => InOneList(mem', t)
  BY <1>1, <1>5 DEF BatchInv, Pursued, Listed
<1>15. LaunchesAccounted'
  BY <1>1, <1>6, <1>13, <1>14 DEF LaunchesAccounted, InOneList, Launched
<1> QED BY <1>7, <1>8, <1>9, <1>10, <1>11, <1>12, <1>15 DEF BatchInv

(* A refresh or a terminal proof that raises finds nothing in flight.        *)
LEMMA RaisesKeep == BatchInv /\ (RefreshRaises \/ ProofRaises) => BatchInv'
<1> SUFFICES ASSUME BatchInv, RefreshRaises \/ ProofRaises PROVE BatchInv'
  OBVIOUS
<1>1. /\ pc \in {"collect", "drained"} /\ pc' = "unwind" /\ flight = {} /\ flight' = {}
      /\ queue' = queue /\ jobs' = jobs /\ batch' = batch /\ launches' = launches /\ lost' = lost
      /\ processed' = processed /\ blocked' = blocked /\ mem' = mem /\ disk' = disk
      /\ bucket \in [Tickets -> Buckets] /\ mem \in BatchStates
  BY DEF BatchInv, Typed, Single, RefreshRaises, ProofRaises, Raise, board, control
<1>2. /\ bucket' \in [Tickets -> Buckets]
      /\ \A t \in Tickets : bucket'[t] \in {bucket[t], "ready"}
      /\ \A t \in Tickets : bucket[t] # "to_plan" => (t \in revision' <=> t \in revision)
      /\ \A t \in Tickets : t \in revision => t \in revision'
  <2>1. \/ bucket' = bucket /\ revision' = revision
        \/ \E S \in SUBSET {t \in Tickets : bucket[t] = "to_plan"} :
             /\ bucket' = [t \in Tickets |-> IF t \in S THEN "ready" ELSE bucket[t]]
             /\ revision' = revision \cup S
    BY DEF RefreshRaises, ProofRaises, board
  <2> QED BY <1>1, <2>1, BucketNames
<1>3. Typed'
  BY <1>1, <1>2 DEF BatchInv, Typed, Placed
<1>4. Single' /\ Waiting' = Waiting
  BY <1>1 DEF BatchInv, Single, Placed, Waiting
<1>5. Jobbed' /\ Apart' /\ InFile'
  BY <1>1 DEF BatchInv, Jobbed, Apart, InFile, Placed, NoConflictingRuns, RunsAreRecorded, Running, Mine
<1>6. Pursued'
  BY <1>1, <1>4 DEF BatchInv, Pursued, Placed, Launched
<1>7. Kept(mem)' /\ Kept(disk)'
  BY <1>1, <1>2 DEF BatchInv, Kept, Launched
<1>8. Listed'
  BY <1>1, <1>4 DEF BatchInv, Listed, Placed
<1>9. \A t \in mem.failed \ processed : bucket'[t] # "to_plan" /\ t \notin revision'
  BY <1>1, <1>2 DEF BatchInv, Bound, BatchStates
<1>10. \A c \in Waiting : c.t \in Tickets
  BY CandidatesTyped
<1>11. Bound'
  BY <1>1, <1>2, <1>4, <1>9, <1>10 DEF BatchInv, Bound, Placed
<1>12. LaunchesAccounted'
  BY <1>1 DEF LaunchesAccounted
<1> QED BY <1>3, <1>4, <1>5, <1>6, <1>7, <1>8, <1>11, <1>12 DEF BatchInv

(* The exception path waits for the runs and writes the lists as they are.   *)
LEMMA UnwindKeeps == BatchInv /\ Unwind => BatchInv'
<1> SUFFICES ASSUME BatchInv, Unwind PROVE BatchInv'
  OBVIOUS
<1>1. /\ pc = "unwind" /\ pc' = "ended" /\ flight' = {} /\ queue' = queue /\ jobs' = Running
      /\ batch' = batch /\ bucket' = bucket /\ lost' = lost /\ processed' = processed
      /\ revision' = revision /\ launches' = launches
      /\ mem \in BatchStates /\ disk' = mem' /\ mem' = [mem EXCEPT !.status = "failed"]
  BY DEF BatchInv, Typed, Unwind, board, control
<1>2. \A j \in jobs' : ~(Mine(j)')
  BY <1>1 DEF Unwind, Running, Mine
<1>3. "failed" \in Statuses
  BY DEF Statuses
<1>4. /\ mem' \in BatchStates /\ Named(mem') = Named(mem)
      /\ mem'.in_flight = mem.in_flight /\ mem'.status = "failed"
  <2>1. mem'.in_flight = mem.in_flight /\ mem'.status = "failed"
    BY <1>1 DEF BatchStates
  <2> QED BY <1>1, <1>3, <2>1, StatusOnly
<1>5. Typed'
  BY <1>1, <1>4 DEF BatchInv, Typed, Placed, Running
<1>6. Single' /\ Waiting' = Waiting
  BY <1>1 DEF BatchInv, Single, Placed, Waiting
<1>7. Jobbed' /\ Apart' /\ InFile'
  BY <1>1, <1>2 DEF Jobbed, Apart, InFile, Placed, NoConflictingRuns, RunsAreRecorded, Running
<1>8. Pursued'
  BY <1>1, <1>6 DEF BatchInv, Pursued, Placed, Launched
<1>9. Kept(mem)' /\ Kept(disk)'
  BY <1>1, <1>4 DEF BatchInv, Kept, Launched
<1>10. Listed' /\ Bound'
  BY <1>1, <1>6 DEF BatchInv, Listed, Bound, Placed
<1>11. LaunchesAccounted'
  BY <1>1, <1>4 DEF LaunchesAccounted
<1> QED BY <1>5, <1>6, <1>7, <1>8, <1>9, <1>10, <1>11 DEF BatchInv

(* A crash between a claim and its record loses that ticket only.            *)
LEMMA CrashKeeps == BatchInv /\ Crash => BatchInv'
<1> SUFFICES ASSUME BatchInv, Crash PROVE BatchInv'
  OBVIOUS
<1>1. /\ pc # "ended" /\ pc' = "ended" /\ flight' = {} /\ queue' = <<>> /\ jobs' = Running
      /\ batch' = batch /\ bucket' = bucket /\ processed' = processed
      /\ revision' = revision /\ launches' = launches /\ disk' = disk /\ mem' = disk
      /\ lost' = IF pc = "claimed" /\ ~cur.resume THEN lost \cup {cur.t} ELSE lost
  BY DEF Crash, board, control
<1>2. Waiting' = {} /\ Unique(queue)' /\ queue' \in Seq(Cands)
  BY <1>1 DEF Waiting, Elems, Unique
<1>3. Typed'
  BY <1>1, <1>2 DEF BatchInv, Typed, Placed, Running
<1>4. Single'
  BY <1>1, <1>2 DEF Single, Placed
<1>5. Running' = Running
  BY <1>1 DEF Running
<1>6. Jobbed' /\ Apart' /\ InFile'
  BY <1>1, <1>5 DEF BatchInv, Jobbed, Apart, InFile, Placed, NoConflictingRuns, RunsAreRecorded, Mine, Running
<1>7. Pursued' /\ Bound' /\ Listed'
  BY <1>1, <1>2 DEF Pursued, Bound, Listed, Placed
<1>8. Kept(disk)'
  <2> SUFFICES ASSUME NEW t \in Tickets, Launched(t), bucket[t] = "in_progress"
               PROVE  t \in disk.in_flight \cup Named(disk) \cup lost'
    BY <1>1 DEF Kept, Launched
  <2>1. CASE pc = "claimed" /\ cur.t = t
    <3>1. ~cur.resume
      BY <2>1 DEF BatchInv, Pursued, Placed
    <3> QED BY <1>1, <2>1, <3>1
  <2>2. CASE ~(pc = "claimed" /\ cur.t = t)
    BY <1>1, <2>2 DEF BatchInv, Kept
  <2> QED BY <2>1, <2>2
<1>9. Kept(mem)'
  BY <1>1, <1>8 DEF Kept
<1>10. LaunchesAccounted'
  BY <1>1 DEF BatchInv, Listed, LaunchesAccounted
<1> QED BY <1>3, <1>4, <1>6, <1>7, <1>8, <1>9, <1>10 DEF BatchInv

(* A ticket that only leaves for the ready queue, review or completion, with *)
(* nothing else changed, disturbs no record of it.                           *)
LEMMA MovesAway ==
  ASSUME BatchInv, bucket' \in [Tickets -> Buckets],
         \A t \in Tickets : bucket'[t] \in {bucket[t], "ready", "for_review", "complete"},
         UNCHANGED <<pc, batch, queue, flight, cur, processed, blocked, revision, mem, disk, launches, lost>>
  PROVE  /\ (jobs' \subseteq Jobs /\ (\A j \in jobs' : j.batch <= batch)) => Typed'
         /\ Single' /\ Pursued' /\ Kept(mem)' /\ Kept(disk)' /\ Listed' /\ Bound' /\ LaunchesAccounted'
<1>1. (jobs' \subseteq Jobs /\ (\A j \in jobs' : j.batch <= batch)) => Typed'
  BY DEF BatchInv, Typed, Placed
<1>2. Single' /\ Waiting' = Waiting
  BY DEF BatchInv, Single, Placed, Waiting
<1>3. Pursued' /\ Listed'
  BY <1>2 DEF BatchInv, Pursued, Listed, Placed, Launched
<1>4. Kept(mem)' /\ Kept(disk)'
  BY DEF BatchInv, Kept, Launched
<1>5. \A c \in Waiting : bucket'[c.t] \in {bucket[c.t], "ready", "for_review", "complete"}
  BY CandidatesTyped
<1>6. \A t \in mem.failed \ processed : bucket'[t] \in {bucket[t], "ready", "for_review", "complete"}
  BY DEF BatchInv, Typed, BatchStates
<1>7. Bound'
  BY <1>2, <1>5, <1>6 DEF BatchInv, Bound, Placed
<1>8. LaunchesAccounted'
  BY DEF BatchInv, LaunchesAccounted
<1> QED BY <1>1, <1>2, <1>3, <1>4, <1>7, <1>8

(* Recover takes tickets out of 3 - in_progress and moves none into it.      *)
LEMMA RecoverKeeps == BatchInv /\ Recover => BatchInv'
<1> SUFFICES ASSUME BatchInv, Recover PROVE BatchInv'
  OBVIOUS
<1>1. /\ UNCHANGED <<pc, batch, queue, flight, cur, processed, blocked, revision, mem, disk, launches, lost>>
      /\ jobs' = jobs /\ bucket' = [t \in Tickets |-> Recovered(t)]
      /\ bucket \in [Tickets -> Buckets] /\ jobs \subseteq Jobs /\ \A j \in jobs : j.batch <= batch
  BY DEF BatchInv, Typed, Recover, control
<1>2. ASSUME NEW t \in Tickets PROVE Recovered(t) \in {bucket[t], "ready", "for_review"}
  BY Moves DEF Recovered
<1>3. /\ bucket' \in [Tickets -> Buckets]
      /\ \A t \in Tickets : bucket'[t] \in {bucket[t], "ready", "for_review", "complete"}
  BY <1>1, <1>2, BucketNames
<1>4. Jobbed' /\ Apart' /\ InFile'
  BY <1>1 DEF BatchInv, Jobbed, Apart, InFile, Placed, NoConflictingRuns, RunsAreRecorded, Running, Mine
<1> QED BY <1>1, <1>3, <1>4, MovesAway DEF BatchInv

(* A run that ends stays its candidate's until the result is read.           *)
LEMMA RunEndsKeeps == BatchInv /\ RunStep => BatchInv'
<1> SUFFICES ASSUME BatchInv, NEW j \in Running, NEW res \in Results, RunEnds(j, res) PROVE BatchInv'
  BY DEF RunStep
<1>1. /\ UNCHANGED <<pc, batch, queue, flight, cur, processed, blocked, revision, mem, disk, launches, lost>>
      /\ bucket \in [Tickets -> Buckets] /\ jobs \subseteq Jobs /\ (\A i \in jobs : i.batch <= batch)
      /\ j \in jobs
  BY DEF BatchInv, Typed, RunEnds, control, Running
<1>2. PICK K \in SUBSET {[j EXCEPT !.res = res]} :
          /\ jobs' = (jobs \ {j}) \cup K
          /\ K # {} => Mine(j) /\ \E c \in flight : c.t = j.t
  BY DEF RunEnds
<1>3. j.t \in Tickets /\ \A k \in K : k \in Jobs /\ k.t = j.t /\ k.batch = j.batch
  BY <1>1, <1>2 DEF Jobs
<1>4. /\ bucket' \in [Tickets -> Buckets]
      /\ \A t \in Tickets : bucket'[t] \in {bucket[t], "ready", "for_review", "complete"}
  <2>1. bucket' = bucket \/ \E b \in {bucket[j.t], "for_review", "complete"} : bucket' = [bucket EXCEPT ![j.t] = b]
    BY Moves DEF RunEnds
  <2> QED BY <1>1, <1>3, <2>1, BucketNames
<1>5. Typed' /\ Single' /\ Pursued' /\ Kept(mem)' /\ Kept(disk)' /\ Listed' /\ Bound' /\ LaunchesAccounted'
  <2>1. jobs' \subseteq Jobs /\ \A i \in jobs' : i.batch <= batch
    BY <1>1, <1>2, <1>3
  <2> QED BY <1>1, <1>4, <2>1, MovesAway
<1>6. Jobbed'
  BY <1>1, <1>2, <1>3 DEF BatchInv, Jobbed, Mine
<1>7. CASE pc # "ended"
  <2>1. Apart'
    BY <1>1, <1>6, <1>7, FlightIsApart DEF BatchInv, Apart, Placed
  <2>2. InFile'
    BY <1>1, <1>6, <1>7, FlightIsRecorded DEF BatchInv, InFile
  <2> QED BY <1>5, <1>6, <2>1, <2>2 DEF BatchInv
<1>8. CASE pc = "ended"
  <2>1. Running' \subseteq Running
    BY <1>2, <1>8 DEF BatchInv, Single, Running
  <2>2. Apart'
    BY <1>1, <1>8, <2>1 DEF BatchInv, Apart, Placed, NoConflictingRuns, Mine
  <2>3. InFile'
    BY <1>1, <1>8, <2>1 DEF BatchInv, InFile, RunsAreRecorded, Mine
  <2> QED BY <1>5, <1>6, <2>2, <2>3 DEF BatchInv
<1> QED BY <1>7, <1>8

(* A new wave holds unprocessed tickets, of which none is still pursued.     *)
LEMMA CollectKeeps == BatchInv /\ Collect => BatchInv'
<1> SUFFICES ASSUME BatchInv, Collect PROVE BatchInv'
  OBVIOUS
<1>1. /\ pc = "collect" /\ pc' \in {"launch", "drained"} /\ flight = {} /\ flight' = {}
      /\ jobs' = jobs /\ batch' = batch /\ launches' = launches /\ lost' = lost /\ processed' = processed
      /\ blocked' = blocked /\ mem' = mem /\ disk' = disk
      /\ bucket \in [Tickets -> Buckets] /\ queue \in Seq(Cands) /\ mem \in BatchStates
  BY DEF BatchInv, Typed, Single, Collect, board, control
<1>2. /\ bucket' \in [Tickets -> Buckets]
      /\ \A t \in Tickets : bucket'[t] \in {bucket[t], "ready"}
      /\ \A t \in Tickets : bucket[t] # "to_plan" => (t \in revision' <=> t \in revision)
  <2>1. (bucket' = bucket /\ revision' = revision) \/
        \E S \in SUBSET {t \in Tickets : bucket[t] = "to_plan"} :
          /\ bucket' = [t \in Tickets |-> IF t \in S THEN "ready" ELSE bucket[t]]
          /\ revision' = revision \cup S
    BY DEF Collect, board
  <2> QED BY <1>1, <2>1, BucketNames
<1>3. /\ queue' \in Seq(Cands) /\ Unique(queue)'
      /\ \/ queue' = queue /\ pc' = "drained" /\ bucket' = bucket /\ revision' = revision
         \/ \A c \in Elems(queue') : /\ c.t \in Tickets \ processed /\ c.retry = 0
                                     /\ ~c.resume => bucket'[c.t] = "ready"
  <2>1. CASE Wave # {} /\ queue' \in Waves(Wave) /\ UNCHANGED <<board, mem>>
    <3>1. Wave \in SUBSET Tickets
      BY DEF Wave, ReadyWork
    <3>2. \A c \in Elems(queue') : c.t \in Wave /\ c = Candidate(c.t)
      BY <2>1, <3>1, WaveQueue
    <3>3. ASSUME NEW c \in Elems(queue') PROVE c.retry = 0 /\ (c.resume <=> resumable[c.t] >= 0)
      <4> DEFINE t == c.t
      <4>1. c = [t |-> t, retry |-> 0, resume |-> resumable[t] >= 0]
        BY <3>2, <3>3 DEF Candidate
      <4> HIDE DEF t
      <4>2. c.retry = 0 /\ c.resume = (resumable[t] >= 0)
        BY <4>1
      <4> QED BY <4>2 DEF t
    <3>4. \A c \in Elems(queue') : ~c.resume => bucket'[c.t] = "ready"
      BY <2>1, <3>2, <3>3 DEF Wave, ReadyWork, board
    <3>5. \A c \in Elems(queue') : c.t \in Tickets \ processed
      BY <3>1, <3>2 DEF Wave
    <3> QED BY <2>1, <3>1, <3>3, <3>4, <3>5, WaveQueue
  <2>2. CASE pc' = "drained" /\ UNCHANGED <<board, mem, queue>>
    BY <1>1, <2>2 DEF BatchInv, Single, board
  <2>3. ASSUME NEW S \in SUBSET {t \in Tickets : bucket[t] = "to_plan"},
               bucket' = [t \in Tickets |-> IF t \in S THEN "ready" ELSE bucket[t]],
               queue' \in Waves(S \ processed)
        PROVE  /\ queue' \in Seq(Cands) /\ Unique(queue)'
               /\ \A c \in Elems(queue') : /\ c.t \in Tickets \ processed /\ c.retry = 0
                                           /\ ~c.resume => bucket'[c.t] = "ready"
    <3>1. S \ processed \in SUBSET Tickets
      BY <2>3
    <3>2. \A c \in Elems(queue') : c.t \in S \ processed /\ c = Candidate(c.t)
      BY <2>3, <3>1, WaveQueue
    <3>3. \A c \in Elems(queue') : c.retry = 0
      BY <3>2 DEF Candidate
    <3> QED BY <2>3, <3>1, <3>2, <3>3, WaveQueue
  <2> QED BY <2>1, <2>2, <2>3 DEF Collect
<1>4. Typed'
  BY <1>1, <1>2, <1>3 DEF BatchInv, Typed, Placed
<1>5. Single'
  BY <1>1, <1>3 DEF Single, Placed, Waiting
<1>6. Jobbed' /\ Apart' /\ InFile'
  BY <1>1 DEF BatchInv, Jobbed, Apart, InFile, Placed, NoConflictingRuns, RunsAreRecorded, Running, Mine
<1>7. \A t \in Tickets : Launched(t) => t \in processed
  BY <1>1 DEF BatchInv, Pursued
<1>8. Pursued'
  <2>1. \A c \in Waiting' : (c.resume => c.retry = 0) /\ (c.retry = 0 => ~Launched(c.t))
    BY <1>3, <1>7 DEF BatchInv, Pursued, Waiting
  <2> QED BY <1>1, <1>7, <2>1 DEF Pursued, Placed, Launched
<1>9. Kept(mem)' /\ Kept(disk)'
  BY <1>1, <1>2 DEF BatchInv, Kept, Launched
<1>10. \A c \in Waiting' : c.t \notin processed
  BY <1>3 DEF BatchInv, Listed, Waiting
<1>11. Listed'
  BY <1>1, <1>10 DEF BatchInv, Listed, Placed
<1>12. \A c \in Waiting' : /\ c.retry > 0 => bucket'[c.t] # "in_progress" /\ c.t \in revision'
                           /\ ~c.resume => bucket'[c.t] # "to_plan"
  BY <1>3 DEF BatchInv, Bound, Waiting
<1>13. \A t \in mem.failed \ processed : bucket'[t] # "to_plan" /\ t \notin revision'
  BY <1>1, <1>2 DEF BatchInv, Bound, BatchStates
<1>14. Bound'
  <2>1. ~Placed' /\ flight' = {} /\ mem' = mem /\ processed' = processed
    BY <1>1 DEF Placed
  <2> QED BY <1>12, <1>13, <2>1 DEF Bound
<1>15. LaunchesAccounted'
  BY <1>1 DEF LaunchesAccounted
<1> QED BY <1>4, <1>5, <1>6, <1>8, <1>9, <1>11, <1>14, <1>15 DEF BatchInv

(* Listing a ticket as failed changes that list only.                        *)
LEMMA FailedOnly ==
  ASSUME NEW s \in BatchStates, NEW t \in Tickets, NEW R \in SUBSET Tickets
  PROVE  LET r == [s EXCEPT !.failed = s.failed \cup {t}, !.retryable = R] IN
         /\ r \in BatchStates /\ r.status = s.status /\ r.in_flight = s.in_flight
         /\ r.parked = s.parked /\ r.resume_ready = s.resume_ready /\ r.completed = s.completed
         /\ r.failed = s.failed \cup {t} /\ Named(r) = Named(s) \cup {t}
         /\ \A u : u # t => (InOneList(r, u) <=> InOneList(s, u))
         /\ t \notin s.parked \cup s.resume_ready \cup s.completed => InOneList(r, t)
<1> DEFINE F == s.failed \cup {t}
           r == [s EXCEPT !.failed = F, !.retryable = R]
<1>1. F \in SUBSET Tickets
  BY DEF BatchStates
<1> HIDE DEF F
<1>2. /\ r \in BatchStates /\ r.status = s.status /\ r.in_flight = s.in_flight
      /\ r.parked = s.parked /\ r.resume_ready = s.resume_ready /\ r.completed = s.completed
      /\ r.failed = F
  BY <1>1 DEF BatchStates
<1> HIDE DEF r
<1>3. Named(r) = Named(s) \cup {t}
  BY <1>2 DEF Named, F
<1>4. ASSUME NEW u, u # t PROVE InOneList(r, u) <=> InOneList(s, u)
  <2>1. \A l \in Lists : u \in r[l] <=> u \in s[l]
    BY <1>2, <1>4 DEF Lists, F
  <2>2. {k \in Lists : u \in r[k]} = {k \in Lists : u \in s[k]}
    BY <2>1
  <2> QED BY <2>2 DEF InOneList
<1>5. ASSUME t \notin s.parked \cup s.resume_ready \cup s.completed PROVE InOneList(r, t)
  <2>1. {k \in Lists : t \in r[k]} = {"failed"} /\ "failed" \in Lists
    BY <1>2, <1>5 DEF Lists, F
  <2> QED BY <2>1 DEF InOneList
<1> QED BY <1>2, <1>3, <1>4, <1>5 DEF F, r

(* Replanning a candidate lists it as failed; it was not launched.           *)
LEMMA ReplanKeeps == BatchInv /\ Replan => BatchInv'
<1> SUFFICES ASSUME BatchInv, Replan PROVE BatchInv'
  OBVIOUS
<1>1. PICK i \in Picks : LET c == queue[i] IN
        /\ ~c.resume /\ c.t \notin revision /\ queue' = RemoveAt(queue, i)
        /\ \/ /\ bucket' = [bucket EXCEPT ![c.t] = Moved(bucket[c.t], "to_plan")]
              /\ processed' = processed \cup {c.t}
              /\ mem' = [mem EXCEPT !.failed = @ \cup {c.t}]
           \/ /\ mem' = [mem EXCEPT !.failed = @ \cup {c.t}, !.retryable = @ \cup {c.t}]
              /\ bucket' = bucket /\ processed' = processed
        /\ disk' = mem'
  BY DEF Replan
<1> DEFINE c == queue[i]
<1>2. /\ pc = "launch" /\ pc' = "launch" /\ flight' = flight /\ jobs' = jobs /\ batch' = batch
      /\ launches' = launches /\ lost' = lost /\ blocked' = blocked /\ revision' = revision
      /\ bucket \in [Tickets -> Buckets] /\ mem \in BatchStates /\ queue \in Seq(Cands)
  BY DEF BatchInv, Typed, Replan
<1>3. i \in DOMAIN queue /\ c \in Waiting
  BY DEF Picks, Launchable, Waiting, Elems
<1>4. c.t \in Tickets /\ c \in Cands
  BY <1>3, CandidatesTyped
<1>5. queue' \in Seq(Cands) /\ Unique(queue)' /\ Waiting' = Waiting \ {c}
  BY <1>1, <1>2, <1>3, RemovedFromQueue DEF BatchInv, Single, Waiting
<1>6. \A d \in Waiting' : d \in Waiting /\ d.t # c.t /\ d.t \in Tickets
  BY <1>3, <1>5, CandidatesTyped DEF Waiting, Elems, BatchInv, Single, Unique
<1>7. PICK R \in SUBSET Tickets : mem' = [mem EXCEPT !.failed = mem.failed \cup {c.t}, !.retryable = R]
  <2>1. mem.retryable \in SUBSET Tickets /\ mem.retryable \cup {c.t} \in SUBSET Tickets
    BY <1>2, <1>4 DEF BatchStates
  <2>2. CASE mem' = [mem EXCEPT !.failed = @ \cup {c.t}]
    <3>1. mem' = [mem EXCEPT !.failed = mem.failed \cup {c.t}, !.retryable = mem.retryable]
      BY <1>2, <2>2 DEF BatchStates
    <3> QED BY <2>1, <3>1
  <2>3. CASE mem' = [mem EXCEPT !.failed = @ \cup {c.t}, !.retryable = @ \cup {c.t}]
    BY <2>1, <2>3
  <2> QED BY <1>1, <2>2, <2>3
<1>8. /\ mem' \in BatchStates /\ mem'.status = mem.status /\ mem'.in_flight = mem.in_flight
      /\ mem'.parked = mem.parked /\ mem'.resume_ready = mem.resume_ready
      /\ mem'.completed = mem.completed /\ mem'.failed = mem.failed \cup {c.t}
      /\ Named(mem') = Named(mem) \cup {c.t}
      /\ \A u : u # c.t => (InOneList(mem', u) <=> InOneList(mem, u))
      /\ c.t \notin mem.parked \cup mem.resume_ready \cup mem.completed => InOneList(mem', c.t)
  <2> HIDE DEF c
  <2> DEFINE r == [mem EXCEPT !.failed = mem.failed \cup {c.t}, !.retryable = R]
  <2>1. /\ r \in BatchStates /\ r.status = mem.status /\ r.in_flight = mem.in_flight
        /\ r.parked = mem.parked /\ r.resume_ready = mem.resume_ready /\ r.completed = mem.completed
        /\ r.failed = mem.failed \cup {c.t} /\ Named(r) = Named(mem) \cup {c.t}
        /\ \A u : u # c.t => (InOneList(r, u) <=> InOneList(mem, u))
        /\ c.t \notin mem.parked \cup mem.resume_ready \cup mem.completed => InOneList(r, c.t)
    BY <1>2, <1>4, FailedOnly
  <2> QED BY <1>7, <2>1
<1>9. /\ bucket' \in [Tickets -> Buckets] /\ \A t \in Tickets : t # c.t => bucket'[t] = bucket[t]
      /\ \/ processed' = processed \cup {c.t} /\ bucket'[c.t] = "to_plan"
         \/ processed' = processed /\ bucket' = bucket
      /\ disk' = mem'
  BY <1>1, <1>2, <1>4, Moves, BucketNames
<1>10. ~c.resume /\ c.t \notin revision /\ c.retry = 0 /\ ~Launched(c.t) /\ c.t \notin processed
       /\ bucket[c.t] # "to_plan"
  <2>1. ~c.resume /\ c.t \notin revision
    BY <1>1
  <2>2. ~(c.retry > 0) /\ bucket[c.t] # "to_plan"
    BY <1>3, <2>1 DEF BatchInv, Bound
  <2>3. c.retry = 0
    BY <1>4, <2>2 DEF Cands
  <2> QED BY <1>3, <2>1, <2>2, <2>3 DEF BatchInv, Pursued, Listed
<1>11. \A d \in flight : d.t # c.t
  BY <1>3 DEF BatchInv, Single
<1> HIDE DEF c
<1>12. Typed'
  BY <1>2, <1>5, <1>8, <1>9 DEF BatchInv, Typed, Placed
<1>13. Single'
  BY <1>2, <1>5, <1>6 DEF BatchInv, Single, Placed
<1>14. Jobbed' /\ Apart'
  BY <1>2 DEF BatchInv, Jobbed, Apart, Placed, NoConflictingRuns, Running, Mine
<1>15. InFile'
  BY <1>2, <1>8, <1>9, <1>14, FlightIsRecorded DEF BatchInv, InFile
<1>16. Pursued'
  BY <1>2, <1>5, <1>6, <1>9, <1>10 DEF BatchInv, Pursued, Placed, Launched
<1>17. Kept(mem)' /\ Kept(disk)'
  BY <1>2, <1>8, <1>9, <1>10 DEF BatchInv, Kept, Launched
<1>18. Listed'
  <2>1. ASSUME NEW t \in Tickets
        PROVE  IF t \in processed' THEN InOneList(mem', t)
               ELSE t \notin mem'.parked \cup mem'.resume_ready \cup mem'.completed
    <3>1. CASE t = c.t
      BY <1>2, <1>8, <1>9, <1>10, <3>1 DEF BatchInv, Listed
    <3>2. CASE t # c.t
      BY <1>2, <1>8, <1>9, <3>2 DEF BatchInv, Listed
    <3> QED BY <3>1, <3>2
  <2>2. \A d \in Waiting' \cup flight' : d.t \notin processed'
    BY <1>2, <1>5, <1>6, <1>9, <1>11 DEF BatchInv, Listed
  <2> QED BY <1>2, <1>8, <1>9, <2>1, <2>2 DEF BatchInv, Listed, Placed
<1>19. Bound'
  <2>1. \A t \in mem'.failed \ processed' : bucket'[t] # "to_plan" /\ t \notin revision'
    BY <1>2, <1>4, <1>8, <1>9, <1>10 DEF BatchInv, Bound, BatchStates
  <2>2. \A d \in Waiting' : d \in Waiting /\ bucket'[d.t] = bucket[d.t]
    BY <1>6, <1>9
  <2> QED BY <1>2, <2>1, <2>2 DEF BatchInv, Bound, Placed
<1>20. LaunchesAccounted'
  BY <1>2 DEF LaunchesAccounted
<1> QED BY <1>12, <1>13, <1>14, <1>15, <1>16, <1>17, <1>18, <1>19, <1>20 DEF BatchInv

(* A claim takes the candidate out of the queue, apart from the flight.      *)
LEMMA ClaimKeeps == BatchInv /\ Claim => BatchInv'
<1> SUFFICES ASSUME BatchInv, Claim PROVE BatchInv'
  OBVIOUS
<1>1. PICK i \in Picks : LET c == queue[i] IN
        /\ c.resume \/ c.t \in revision
        /\ queue' = RemoveAt(queue, i) /\ cur' = c
        /\ \/ pc' = "claimed" /\ c.resume /\ bucket' = bucket /\ lost' = lost
           \/ /\ pc' = "claimed" /\ bucket' = [bucket EXCEPT ![c.t] = Moved(bucket[c.t], "in_progress")]
              /\ lost' = lost
           \/ /\ pc' = "unwind" /\ lost' = lost \cup {c.t}
              /\ \E b \in {bucket[c.t], Moved(bucket[c.t], "in_progress")} :
                   bucket' = [bucket EXCEPT ![c.t] = b]
  BY DEF Claim, Raise
<1> DEFINE c == queue[i]
<1>2. /\ pc = "launch" /\ pc' \in {"claimed", "unwind"} /\ cur' = c /\ flight' = flight /\ jobs' = jobs
      /\ batch' = batch /\ launches' = launches /\ blocked' = blocked /\ revision' = revision
      /\ processed' = processed /\ mem' = mem /\ disk' = disk
      /\ bucket \in [Tickets -> Buckets] /\ mem \in BatchStates /\ queue \in Seq(Cands)
  BY <1>1 DEF BatchInv, Typed, Claim, control
<1>3. i \in DOMAIN queue /\ c \in Waiting /\ ConflictKeys[c.t] \cap ActiveKeys = {}
  BY DEF Picks, Launchable, Waiting, Elems
<1>4. c.t \in Tickets /\ c \in Cands
  BY <1>3, CandidatesTyped
<1>5. queue' \in Seq(Cands) /\ Unique(queue)' /\ Waiting' = Waiting \ {c}
  BY <1>1, <1>2, <1>3, RemovedFromQueue DEF BatchInv, Single, Waiting
<1>6. \A d \in Waiting' : d \in Waiting /\ d.t # c.t /\ d.t \in Tickets
  BY <1>3, <1>5, CandidatesTyped DEF Waiting, Elems, BatchInv, Single, Unique
<1>7. /\ bucket' \in [Tickets -> Buckets] /\ \A t \in Tickets : t # c.t => bucket'[t] = bucket[t]
      /\ bucket'[c.t] \in {bucket[c.t], "in_progress"}
      /\ (pc' = "claimed" /\ lost' = lost) \/ (pc' = "unwind" /\ lost' = lost \cup {c.t})
  BY <1>1, <1>2, <1>4, Moves, BucketNames
<1>8. \A d \in flight : d.t # c.t /\ ConflictKeys[d.t] \cap ConflictKeys[c.t] = {}
  BY <1>3 DEF BatchInv, Single, ActiveKeys
<1>9. /\ c.resume => c.retry = 0
      /\ c.retry = 0 => ~Launched(c.t)
      /\ c.t \notin processed /\ (~c.resume => c.t \in revision)
  BY <1>1, <1>3 DEF BatchInv, Pursued, Listed
<1> HIDE DEF c
<1>10. Typed'
  BY <1>2, <1>4, <1>5, <1>7 DEF BatchInv, Typed, Placed
<1>11. Single'
  BY <1>2, <1>5, <1>6, <1>8 DEF BatchInv, Single, Placed
<1>12. Jobbed'
  BY <1>2 DEF BatchInv, Jobbed, Mine
<1>13. Apart'
  BY <1>2, <1>8, <1>12, FlightIsApart DEF BatchInv, Apart, Placed
<1>14. InFile'
  BY <1>2, <1>12, FlightIsRecorded DEF BatchInv, InFile
<1>15. Pursued'
  BY <1>2, <1>5, <1>6, <1>9 DEF BatchInv, Pursued, Placed, Launched
<1>16. Kept(mem)' /\ Kept(disk)'
  BY <1>2, <1>7 DEF BatchInv, Kept, Launched
<1>17. Listed'
  BY <1>2, <1>6, <1>9 DEF BatchInv, Listed, Placed
<1>18. Bound'
  <2>1. \A t \in mem'.failed \ processed' : bucket'[t] # "to_plan" /\ t \notin revision'
    BY <1>2, <1>7 DEF BatchInv, Bound, BatchStates
  <2>2. \A d \in Waiting' : d \in Waiting /\ bucket'[d.t] = bucket[d.t]
    BY <1>6, <1>7
  <2> QED BY <1>2, <1>9, <2>1, <2>2 DEF BatchInv, Bound, Placed
<1>19. LaunchesAccounted'
  BY <1>2 DEF LaunchesAccounted
<1> QED BY <1>10, <1>11, <1>12, <1>13, <1>14, <1>15, <1>16, <1>17, <1>18, <1>19 DEF BatchInv

(* What every settlement has in common: one candidate leaves the flight, its *)
(* run leaves the runs and its entry leaves the state in memory.             *)
Leaves(c, j) ==
  /\ pc = "wait" /\ pc' \in {"settled", "unwind"} /\ c \in flight /\ flight' = flight \ {c}
  /\ j \in jobs /\ Mine(j) /\ j.t = c.t /\ jobs' = jobs \ {j}
  /\ mem'.in_flight = mem.in_flight \ {c.t} /\ mem'.status = mem.status /\ mem' \in BatchStates
  /\ UNCHANGED <<batch, disk, launches, revision>>
  /\ bucket' \in [Tickets -> Buckets] /\ \A t \in Tickets : t # c.t => bucket'[t] = bucket[t]

(* Taking one candidate out of the flight keeps the others' records.         *)
LEMMA LeavesKeeps ==
  ASSUME BatchInv, NEW c, NEW j, Leaves(c, j)
  PROVE  /\ queue' \in Seq(Cands) => Typed'
         /\ Jobbed' /\ Apart' /\ InFile' /\ LaunchesAccounted'
         /\ c \in Cands /\ c.t \in Tickets /\ c.t \notin processed
         /\ \A d \in Waiting \cup flight' : d.t # c.t /\ d.t \in Tickets /\ d.t \notin processed
<1> USE DEF Leaves
<1>1. c \in Cands /\ c.t \in Tickets /\ c.t \notin processed
  BY CandidatesTyped DEF BatchInv, Listed
<1>2. \A d \in Waiting \cup flight' : d.t # c.t /\ d.t \in Tickets /\ d.t \notin processed
  BY CandidatesTyped DEF BatchInv, Single, Listed
<1>3. queue' \in Seq(Cands) => Typed'
  BY DEF BatchInv, Typed, Placed
<1>4. Jobbed'
  BY <1>2 DEF BatchInv, Jobbed, Mine
<1>5. Apart'
  BY <1>4, FlightIsApart DEF BatchInv, Apart, Placed
<1>6. InFile'
  BY <1>2, <1>4, FlightIsRecorded DEF BatchInv, InFile
<1>7. LaunchesAccounted'
  BY DEF LaunchesAccounted
<1> QED BY <1>1, <1>2, <1>3, <1>4, <1>5, <1>6, <1>7

(* A result that raises, or a requeue whose move does, ends the phase.       *)
LEMMA RaisedKeeps ==
  ASSUME BatchInv, NEW c, NEW j, Leaves(c, j), pc' = "unwind",
         mem' = [mem EXCEPT !.in_flight = @ \ {c.t}], lost' = lost \cup {c.t},
         UNCHANGED <<bucket, queue, processed>>
  PROVE  BatchInv'
<1>1. /\ Typed' /\ Jobbed' /\ Apart' /\ InFile' /\ LaunchesAccounted'
      /\ c \in Cands /\ c.t \in Tickets
      /\ \A d \in Waiting \cup flight' : d.t # c.t
  <2>1. queue' \in Seq(Cands)
    BY DEF BatchInv, Typed
  <2> QED BY <2>1, LeavesKeeps
<1> USE DEF Leaves
<1>2. mem \in BatchStates /\ mem.in_flight \ {c.t} \in SUBSET Tickets
  BY DEF BatchInv, Typed, BatchStates
<1>3. /\ Named(mem') = Named(mem) /\ \A l \in Lists : mem'[l] = mem[l]
      /\ \A t : InOneList(mem', t) <=> InOneList(mem, t)
  <2> DEFINE left == [mem EXCEPT !.in_flight = mem.in_flight \ {c.t}]
  <2>1. /\ Named(left) = Named(mem) /\ \A l \in Lists : left[l] = mem[l]
        /\ \A t : InOneList(left, t) <=> InOneList(mem, t)
    BY <1>2, InFlightOnly, ZenonT(30)
  <2>2. mem' = left
    OBVIOUS
  <2> HIDE DEF left
  <2> QED BY <2>1, <2>2
<1>4. Single' /\ Waiting' = Waiting
  BY DEF BatchInv, Single, Placed, Waiting
<1>5. Pursued'
  BY <1>4 DEF BatchInv, Pursued, Placed, Launched
<1>6. Kept(mem)' /\ Kept(disk)'
  BY <1>1, <1>3 DEF BatchInv, Kept, Launched
<1>7. Listed'
  BY <1>3, <1>4 DEF BatchInv, Listed, Placed, Lists
<1>8. Bound'
  BY <1>3, <1>4 DEF BatchInv, Bound, Placed, Lists
<1> QED BY <1>1, <1>4, <1>5, <1>6, <1>7, <1>8 DEF BatchInv

(* A retry goes back to the ready queue and to the end of the wave's queue.  *)
LEMMA RetryKeeps ==
  ASSUME BatchInv, NEW c, NEW j, Leaves(c, j), pc' = "settled", ~c.resume,
         mem' = [mem EXCEPT !.in_flight = @ \ {c.t}],
         bucket'[c.t] = "ready", queue' = Append(queue, Requeued(c)),
         UNCHANGED <<lost, processed>>
  PROVE  BatchInv'
<1> DEFINE r == Requeued(c)
<1>1. /\ queue' \in Seq(Cands) => Typed'
      /\ Jobbed' /\ Apart' /\ InFile' /\ LaunchesAccounted'
      /\ c \in Cands /\ c.t \in Tickets /\ c.t \notin processed
      /\ \A d \in Waiting \cup flight' : d.t # c.t /\ d.t \in Tickets /\ d.t \notin processed
  BY LeavesKeeps
<1> USE DEF Leaves
<1>2. r \in Cands /\ r.t = c.t /\ r.retry > 0 /\ ~r.resume
  BY <1>1 DEF Requeued, Cands
<1> HIDE DEF r
<1>3. queue' \in Seq(Cands) /\ Unique(queue)' /\ Waiting' = Waiting \cup {r}
  <2>1. queue \in Seq(Cands) /\ Unique(queue) /\ \A d \in Elems(queue) : d.t # r.t
    BY <1>1, <1>2 DEF BatchInv, Typed, Single, Waiting
  <2> QED BY <1>2, <2>1, AppendedToQueue DEF Waiting, r
<1>4. mem \in BatchStates /\ mem.in_flight \ {c.t} \in SUBSET Tickets
  BY DEF BatchInv, Typed, BatchStates
<1>5. /\ Named(mem') = Named(mem) /\ \A l \in Lists : mem'[l] = mem[l]
      /\ \A t : InOneList(mem', t) <=> InOneList(mem, t)
  <2> DEFINE left == [mem EXCEPT !.in_flight = mem.in_flight \ {c.t}]
  <2>1. /\ Named(left) = Named(mem) /\ \A l \in Lists : left[l] = mem[l]
        /\ \A t : InOneList(left, t) <=> InOneList(mem, t)
    BY <1>4, InFlightOnly, ZenonT(30)
  <2>2. mem' = left
    OBVIOUS
  <2> HIDE DEF left
  <2> QED BY <2>1, <2>2
<1>6. Single'
  BY <1>1, <1>2, <1>3 DEF BatchInv, Single, Placed
<1>7. Pursued'
  BY <1>1, <1>2, <1>3 DEF BatchInv, Pursued, Placed, Launched
<1>8. Kept(mem)' /\ Kept(disk)'
  BY <1>1, <1>5 DEF BatchInv, Kept, Launched
<1>9. Listed'
  BY <1>1, <1>2, <1>3, <1>5 DEF BatchInv, Listed, Placed, Lists
<1>10. Bound'
  <2>1. c.t \in revision
    BY DEF BatchInv, Bound
  <2>2. mem'.failed = mem.failed /\ mem.failed \subseteq Tickets
    BY <1>4, <1>5 DEF Lists, BatchStates
  <2> QED BY <1>1, <1>2, <1>3, <2>1, <2>2 DEF BatchInv, Bound, Placed
<1> QED BY <1>1, <1>3, <1>6, <1>7, <1>8, <1>9, <1>10 DEF BatchInv

(* Any other result puts its ticket in one list, wherever the move took it.  *)
LEMMA ResultKeeps ==
  ASSUME BatchInv, NEW c, NEW j, Leaves(c, j), pc' = "settled",
         NEW list \in Lists, NEW out,
         mem' = Remember([mem EXCEPT !.in_flight = @ \ {c.t}], list, c.t, out),
         UNCHANGED <<lost, queue>>, processed' = processed \cup {c.t}
  PROVE  BatchInv'
<1> DEFINE left == [mem EXCEPT !.in_flight = @ \ {c.t}]
<1>1. /\ Typed' /\ Jobbed' /\ Apart' /\ InFile' /\ LaunchesAccounted'
      /\ c \in Cands /\ c.t \in Tickets /\ c.t \notin processed
      /\ \A d \in Waiting \cup flight' : d.t # c.t /\ d.t \in Tickets /\ d.t \notin processed
  <2>1. queue' \in Seq(Cands)
    BY DEF BatchInv, Typed
  <2> QED BY <2>1, LeavesKeeps
<1> USE DEF Leaves
<1>2. mem \in BatchStates /\ mem.in_flight \ {c.t} \in SUBSET Tickets
  BY DEF BatchInv, Typed, BatchStates
<1>3. /\ left \in BatchStates /\ Named(left) = Named(mem) /\ \A l \in Lists : left[l] = mem[l]
      /\ \A t : InOneList(left, t) <=> InOneList(mem, t)
  BY <1>2, InFlightOnly
<1>4. /\ InOneList(mem', c.t)
      /\ \A u \in Tickets, l \in Lists : u # c.t => (u \in mem'[l] <=> u \in left[l])
  BY <1>1, <1>3, Remembered
<1>5. \A u \in Tickets, l \in Lists : u # c.t => (u \in mem'[l] <=> u \in mem[l])
  BY <1>3, <1>4
<1> HIDE DEF left
<1>6. ASSUME NEW u \in Tickets, u # c.t
      PROVE  (InOneList(mem', u) <=> InOneList(mem, u)) /\ (u \in Named(mem') <=> u \in Named(mem))
  <2>1. {k \in Lists : u \in mem'[k]} = {k \in Lists : u \in mem[k]}
    BY <1>5, <1>6
  <2> QED BY <1>5, <1>6, <2>1, NamedInLists DEF InOneList
<1>7. c.t \in Named(mem')
  BY <1>4, ListedSomewhere
<1>8. \A u \in Tickets : u # c.t => /\ u \in mem'.parked <=> u \in mem.parked
                                    /\ u \in mem'.resume_ready <=> u \in mem.resume_ready
                                    /\ u \in mem'.completed <=> u \in mem.completed
                                    /\ u \in mem'.failed <=> u \in mem.failed
  BY <1>5 DEF Lists
<1>9. Single' /\ Waiting' = Waiting
  BY DEF BatchInv, Single, Placed, Waiting
<1>10. Pursued'
  BY <1>9 DEF BatchInv, Pursued, Placed, Launched
<1>11. Kept(mem)'
  <2> SUFFICES ASSUME NEW t \in Tickets, Launched(t), bucket'[t] = "in_progress"
               PROVE  t \in mem'.in_flight \cup Named(mem') \cup lost'
    BY DEF Kept, Launched
  <2>1. CASE t = c.t
    BY <1>7, <2>1
  <2>2. CASE t # c.t
    BY <1>6, <2>2 DEF BatchInv, Kept
  <2> QED BY <2>1, <2>2
<1>12. Kept(disk)'
  <2>1. c.t \in disk.in_flight
    BY DEF BatchInv, InFile
  <2> QED BY <2>1 DEF BatchInv, Kept, Launched
<1>13. Listed'
  <2>1. ASSUME NEW t \in Tickets
        PROVE  IF t \in processed' THEN InOneList(mem', t)
               ELSE t \notin mem'.parked \cup mem'.resume_ready \cup mem'.completed
    <3>1. CASE t = c.t
      BY <1>4, <3>1
    <3>2. CASE t # c.t
      BY <1>6, <1>8, <3>2 DEF BatchInv, Listed
    <3> QED BY <3>1, <3>2
  <2>2. \A d \in Waiting' \cup flight' : d.t \notin processed'
    BY <1>1, <1>9
  <2> QED BY <1>9, <2>1, <2>2 DEF BatchInv, Listed, Placed
<1>14. Bound'
  <2>1. mem'.failed \subseteq Tickets
    BY DEF BatchStates
  <2>2. \A t \in mem'.failed \ processed' : bucket'[t] # "to_plan" /\ t \notin revision'
    BY <1>8, <2>1 DEF BatchInv, Bound
  <2> QED BY <1>1, <1>9, <2>2 DEF BatchInv, Bound, Placed
<1> QED BY <1>1, <1>9, <1>10, <1>11, <1>12, <1>13, <1>14 DEF BatchInv

(* Every result has a list.                                                  *)
LEMMA ListOfResult == \A out : ListOf(out) \in Lists
BY DEF ListOf, Lists

(* A settlement is one of three: a raise, a retry or a result.               *)
LEMMA SettleKeeps == BatchInv /\ (\E c \in flight : Settle(c)) => BatchInv'
<1> SUFFICES ASSUME BatchInv, NEW c \in flight, Settle(c) PROVE BatchInv'
  OBVIOUS
<1>1. PICK j \in jobs :
        /\ Mine(j) /\ j.t = c.t /\ j.res # "running"
        /\ flight' = flight \ {c} /\ jobs' = jobs \ {j}
        /\ LET out == Outcome[j.res]
               left == [mem EXCEPT !.in_flight = @ \ {c.t}]
           IN  \/ /\ mem' = left /\ lost' = lost \cup {c.t} /\ pc' = "unwind"
                  /\ UNCHANGED <<bucket, revision, queue, processed>>
               \/ /\ Retries(c, out) /\ bucket' = [bucket EXCEPT ![c.t] = Moved(@, "ready")]
                  /\ queue' = Append(queue, Requeued(c)) /\ mem' = left /\ pc' = "settled"
                  /\ UNCHANGED <<revision, lost, processed>>
               \/ /\ MoveSettled(c, Destination(c, out))
                  /\ mem' = Remember(left, ListOf(out), c.t, out)
                  /\ processed' = processed \cup {c.t} /\ pc' = "settled"
                  /\ UNCHANGED <<revision, queue, lost>>
  BY DEF Settle, Raise, board
<1> DEFINE out == Outcome[j.res]
           left == [mem EXCEPT !.in_flight = @ \ {c.t}]
<1>2. /\ pc = "wait" /\ UNCHANGED <<batch, disk, launches>>
      /\ bucket \in [Tickets -> Buckets] /\ mem \in BatchStates
  BY DEF BatchInv, Typed, Settle
<1>3. c.t \in Tickets
  BY CandidatesTyped
<1>4. left \in BatchStates /\ left.in_flight = mem.in_flight \ {c.t} /\ left.status = mem.status
  <2>1. mem.in_flight \ {c.t} \in SUBSET Tickets
    BY <1>2 DEF BatchStates
  <2> QED BY <1>2, <2>1 DEF BatchStates
<1> HIDE DEF left, out
<1>5. CASE /\ mem' = left /\ lost' = lost \cup {c.t} /\ pc' = "unwind"
           /\ UNCHANGED <<bucket, revision, queue, processed>>
  <2>1. Leaves(c, j)
    BY <1>1, <1>2, <1>4, <1>5 DEF Leaves
  <2> QED BY <1>5, <2>1, RaisedKeeps DEF left
<1>6. CASE /\ Retries(c, out) /\ bucket' = [bucket EXCEPT ![c.t] = Moved(@, "ready")]
           /\ queue' = Append(queue, Requeued(c)) /\ mem' = left /\ pc' = "settled"
           /\ UNCHANGED <<revision, lost, processed>>
  <2>1. /\ bucket' \in [Tickets -> Buckets] /\ bucket'[c.t] = "ready"
        /\ \A t \in Tickets : t # c.t => bucket'[t] = bucket[t]
    BY <1>2, <1>3, <1>6, Moves, BucketNames
  <2>2. Leaves(c, j) /\ ~c.resume
    BY <1>1, <1>2, <1>4, <1>6, <2>1 DEF Leaves, Retries
  <2> QED BY <1>6, <2>1, <2>2, RetryKeeps DEF left
<1>7. CASE /\ MoveSettled(c, Destination(c, out))
           /\ mem' = Remember(left, ListOf(out), c.t, out)
           /\ processed' = processed \cup {c.t} /\ pc' = "settled"
           /\ UNCHANGED <<revision, queue, lost>>
  <2>1. Destination(c, out) \subseteq {"for_review", "complete", "ready"}
    BY DEF Destination
  <2>2. bucket' = bucket \/ \E b \in Destination(c, out) : bucket' = [bucket EXCEPT ![c.t] = Moved(bucket[c.t], b)]
    BY <1>7 DEF MoveSettled
  <2>3. /\ bucket' \in [Tickets -> Buckets]
        /\ \A t \in Tickets : t # c.t => bucket'[t] = bucket[t]
    BY <1>2, <1>3, <2>1, <2>2, Moves, BucketNames
  <2>4. mem' \in BatchStates /\ mem'.in_flight = mem.in_flight \ {c.t} /\ mem'.status = mem.status
    BY <1>3, <1>4, <1>7, ListOfResult, Remembered
  <2>5. Leaves(c, j)
    BY <1>1, <1>2, <1>7, <2>3, <2>4 DEF Leaves
  <2> QED BY <1>7, <2>5, ListOfResult, ResultKeeps DEF left
<1> QED BY <1>1, <1>5, <1>6, <1>7 DEF left, out

(* Every step keeps the invariant, and so does one that changes nothing.     *)
LEMMA BatchStepKeeps == BatchInv /\ [Next]_vars => BatchInv'
<1>1. ASSUME BatchInv, Next PROVE BatchInv'
  BY <1>1, StartKeeps, CollectKeeps, ReplanKeeps, ClaimKeeps, RecordLaunchKeeps, SubmitKeeps, FlushKeeps,
     SettleKeeps, PersistSettledKeeps, WaveDoneKeeps, DrainedKeeps, RaisesKeep, UnwindKeeps, RunEndsKeeps,
     CrashKeeps, RecoverKeeps DEF Next, BatchStep
<1>2. ASSUME BatchInv, UNCHANGED vars PROVE BatchInv'
  <2> USE <1>2 DEF vars
  <2>1. Typed'
    BY DEF BatchInv, Typed, Placed
  <2>2. Single' /\ Waiting' = Waiting
    BY DEF BatchInv, Single, Placed, Waiting
  <2>3. Jobbed' /\ Apart' /\ InFile'
    BY DEF BatchInv, Jobbed, Apart, InFile, Placed, NoConflictingRuns, RunsAreRecorded, Running, Mine
  <2>4. Pursued' /\ Kept(mem)' /\ Kept(disk)'
    BY <2>2 DEF BatchInv, Pursued, Kept, Placed, Launched
  <2>5. Listed' /\ Bound'
    BY <2>2 DEF BatchInv, Listed, Bound, Placed
  <2>6. LaunchesAccounted'
    BY DEF BatchInv, LaunchesAccounted
  <2> QED BY <2>1, <2>2, <2>3, <2>4, <2>5, <2>6 DEF BatchInv
<1> QED BY <1>1, <1>2

(* Every reachable state satisfies the invariant.                            *)
LEMMA BatchInvariance == Spec => []BatchInv
BY InitKeeps, BatchStepKeeps, PTL DEF Spec

-----------------------------------------------------------------------------
(* Two runs of one batch never share a conflict key, for any tickets, keys   *)
(* and workers: a candidate is launched only apart from those in flight, and *)
(* the runs still out are theirs (batch_runner.py:1534-1542, 3013-3145).    *)
THEOREM ConflictsExcluded == Spec => []NoConflictingRuns
<1>1. BatchInv => NoConflictingRuns
  BY DEF BatchInv, Apart
<1> QED BY <1>1, BatchInvariance, PTL

(* Every run still out is an in-flight entry of the state file, whenever the *)
(* batch dies or fails: the entry is written before the run is submitted and *)
(* taken out after it was read (batch_runner.py:3068-3087, 3182-3417).      *)
THEOREM RunsRecorded == Spec => []RunsAreRecorded
<1>1. BatchInv => RunsAreRecorded
  BY DEF BatchInv, InFile
<1> QED BY <1>1, BatchInvariance, PTL

(* Outside the windows of `lost`, a launched ticket left in 3 - in_progress  *)
(* is named in the state file (batch_runner.py:3043-3087, 3282-3417).       *)
THEOREM NothingStranded == Spec => []NoTicketStranded
<1>1. BatchInv => NoTicketStranded
  BY DEF BatchInv, Kept, NoTicketStranded, Launched
<1> QED BY <1>1, BatchInvariance, PTL

(* A phase that ends without an exception has settled every launch, or put   *)
(* it back because of a blocker (batch_runner.py:3282-3424).                *)
THEOREM AllAccounted == Spec => []LaunchesAccounted
<1>1. BatchInv => LaunchesAccounted
  BY DEF BatchInv
<1> QED BY <1>1, BatchInvariance, PTL

-----------------------------------------------------------------------------
(* What the atom actions still call ready.  A replanned ticket has left the  *)
(* ready queue and is no candidate for another replanning, and until it is   *)
(* synchronised the phase has it among the pending ones.                     *)
Synced ==
  /\ \A t \in unsynced \ revision : bucket[t] # "ready" /\ \A c \in Waiting : c.t = t => c.resume
  /\ pc \notin {"unwind", "ended"} =>
        \A t \in unsynced \cap mem.failed : Launched(t) \/ t \in pending
  /\ pc \in {"off", "collect", "drained", "wave_done"} => pending = {}
  /\ \A c \in flight : Launched(c.t)
  /\ unsynced \subseteq Tickets
  /\ ReplansAreSynced

(* Steps that neither move a ticket, queue one nor list one as failed.       *)
LEMMA QuietSynced ==
  ASSUME BatchInv, Synced, UNCHANGED <<bucket, revision, unsynced, pending, launches>>,
         Waiting' \subseteq Waiting, flight' \subseteq flight,
         mem'.failed \subseteq mem.failed \/ pc' \in {"unwind", "ended"},
         pc' \in {"unwind", "ended"} \/ pc \notin {"unwind", "ended"},
         pc' \in {"off", "collect", "drained", "wave_done"} => pending = {},
         ReplansAreSynced'
  PROVE  Synced'
BY DEF Synced, Launched

(* The steps between the collection of a wave and the end of the phase.      *)
LEMMA PhaseSynced ==
  ASSUME BatchInv, Synced,
         RecordLaunch \/ Submit \/ Flush \/ PersistSettled \/ WaveDone \/ Drained \/ Unwind \/ Crash
  PROVE  Synced'
<1>1. CASE RecordLaunch
  <2>1. /\ UNCHANGED <<bucket, revision, unsynced, pending, launches, flight, queue>>
        /\ pc = "claimed" /\ pc' = "submit" /\ mem' = [mem EXCEPT !.in_flight = @ \cup {cur.t}]
    BY <1>1 DEF RecordLaunch, board
  <2>2. mem'.failed = mem.failed
    BY <2>1 DEF BatchInv, Typed, BatchStates
  <2> QED BY <2>1, <2>2, QuietSynced DEF Waiting, ReplansAreSynced
<1>2. CASE Submit
  <2>1. /\ UNCHANGED <<bucket, revision, unsynced, pending, mem, queue>>
        /\ pc = "submit" /\ pc' = "launch" /\ flight' = flight \cup {cur}
        /\ launches' = [launches EXCEPT ![cur.t] = @ + 1]
    BY <1>2 DEF Submit, board
  <2>2. launches \in [Tickets -> Nat] /\ cur.t \in Tickets /\ \A c \in flight : c.t \in Tickets
    BY <2>1, CandidatesTyped DEF BatchInv, Typed, Placed, Cands
  <2>3. launches'[cur.t] > 0 /\ \A t \in Tickets : launches[t] > 0 => launches'[t] > 0
    BY <2>1, <2>2
  <2>4. Waiting' = Waiting
    BY <2>1 DEF Waiting
  <2> QED BY <2>1, <2>2, <2>3, <2>4 DEF Synced, ReplansAreSynced, Launched, Placed
<1>3. CASE Flush
  <2>1. /\ UNCHANGED <<bucket, revision, mem, queue, flight, launches>> /\ pc = "launch"
        /\ \/ pending' = {} /\ (unsynced' = {} \/ (unsynced' = unsynced /\ pending = {}))
              /\ pc' \in {"wave_done", "wait"}
           \/ UNCHANGED <<pending, unsynced>> /\ pc' \in {"wait", "unwind"}
    BY <1>3 DEF Flush, Raise
  <2>2. Waiting' = Waiting
    BY <2>1 DEF Waiting
  <2> QED BY <2>1, <2>2 DEF Synced, ReplansAreSynced, Launched
<1>4. CASE PersistSettled
  <2>1. /\ UNCHANGED <<bucket, revision, unsynced, pending, launches, flight, queue, mem>>
        /\ pc = "settled" /\ pc' \in {"launch", "wait"}
    BY <1>4 DEF PersistSettled, board
  <2> QED BY <2>1, QuietSynced DEF Waiting, ReplansAreSynced
<1>5. CASE WaveDone \/ Drained
  <2>1. /\ UNCHANGED <<bucket, revision, unsynced, pending, launches, flight, queue>>
        /\ pc \in {"wave_done", "drained"} /\ pc' \in {"ended", "unwind", "collect"}
        /\ pc' = "ended" => disk' = mem'
        /\ mem' = mem \/ \E st : mem' = [mem EXCEPT !.status = st]
    BY <1>5 DEF WaveDone, Drained, Raise, board, control
  <2>2. mem'.failed = mem.failed /\ pending = {}
    BY <2>1 DEF BatchInv, Typed, BatchStates, Synced
  <2>3. ReplansAreSynced'
    BY <2>1, <2>2 DEF Synced, ReplansAreSynced, Launched
  <2> QED BY <2>1, <2>2, <2>3, QuietSynced DEF Waiting
<1>6. CASE Unwind \/ Crash
  <2>1. /\ UNCHANGED <<bucket, revision, unsynced, launches>> /\ flight' = {} /\ pc' = "ended"
        /\ Waiting' \subseteq Waiting /\ disk'.status \in {"running", "failed"}
    <3>1. CASE Unwind
      <4>1. disk' = [mem EXCEPT !.status = "failed"] /\ mem \in BatchStates
        BY <3>1 DEF Unwind, BatchInv, Typed
      <4> QED BY <3>1, <4>1 DEF Unwind, board, Waiting, BatchStates
    <3>2. CASE Crash
      BY <3>2 DEF Crash, board, Waiting, Elems, BatchInv, Listed
    <3> QED BY <1>6, <3>1, <3>2
  <2> QED BY <2>1 DEF Synced, ReplansAreSynced, Launched
<1> QED BY <1>1, <1>2, <1>3, <1>4, <1>5, <1>6

(* A refresh or a terminal proof that raises: the phase ends as failed.      *)
LEMMA RaisesSynced == BatchInv /\ Synced /\ (RefreshRaises \/ ProofRaises) => Synced'
<1> SUFFICES ASSUME BatchInv, Synced, RefreshRaises \/ ProofRaises PROVE Synced'
  OBVIOUS
<1>1. /\ UNCHANGED <<unsynced, pending, launches, flight, mem, queue>> /\ pc' = "unwind"
  BY DEF RefreshRaises, ProofRaises, Raise, board
<1>2. ASSUME NEW t \in unsynced \ revision', t \in Tickets
      PROVE  t \notin revision /\ bucket'[t] # "ready"
  <2>1. CASE RefreshRaises
    <3>1. PICK S \in SUBSET {u \in Tickets : bucket[u] = "to_plan"} :
            /\ bucket' = [u \in Tickets |-> IF u \in S THEN "ready" ELSE bucket[u]]
            /\ revision' = revision \cup S
      BY <2>1 DEF RefreshRaises
    <3> QED BY <1>2, <3>1 DEF Synced
  <2>2. CASE ProofRaises
    BY <1>2, <2>2 DEF ProofRaises, board, Synced
  <2> QED BY <2>1, <2>2
<1>3. Waiting' = Waiting
  BY <1>1 DEF Waiting
<1> QED BY <1>1, <1>2, <1>3 DEF Synced, ReplansAreSynced, Launched

(* A new wave asks for tickets that are ready: none of them is replanned and *)
(* unsynchronised, unless a refresh bound its plan to the new revision.      *)
LEMMA CollectSynced == BatchInv /\ Synced /\ Collect => Synced'
<1> SUFFICES ASSUME BatchInv, Synced, Collect PROVE Synced'
  OBVIOUS
<1>1. /\ UNCHANGED <<unsynced, pending, launches, flight, mem>>
      /\ pc = "collect" /\ pc' \in {"launch", "drained"}
  BY DEF Collect, board
<1>2. ASSUME NEW t \in unsynced \ revision', t \in Tickets
      PROVE  bucket'[t] # "ready" /\ \A c \in Waiting' : c.t = t => c.resume
  <2>1. CASE Wave # {} /\ queue' \in Waves(Wave) /\ UNCHANGED <<board, mem>>
    <3>1. bucket[t] # "ready"
      BY <1>2, <2>1 DEF Synced, board
    <3>2. ASSUME NEW c \in Waiting', c.t = t PROVE c.resume
      <4>1. Wave \in SUBSET Tickets
        BY DEF Wave, ReadyWork
      <4>2. c.t \in Wave /\ c = Candidate(c.t)
        BY <2>1, <4>1, WaveQueue DEF Waiting
      <4>3. c = [t |-> t, retry |-> 0, resume |-> resumable[t] >= 0]
        BY <3>2, <4>2 DEF Candidate
      <4>4. resumable[t] >= 0
        BY <3>1, <3>2, <4>2 DEF Wave, ReadyWork
      <4> QED BY <4>3, <4>4
    <3> QED BY <2>1, <3>1, <3>2 DEF board
  <2>2. CASE pc' = "drained" /\ UNCHANGED <<board, mem, queue>>
    BY <1>2, <2>2 DEF Synced, Waiting, board
  <2>3. ASSUME NEW S \in SUBSET {u \in Tickets : bucket[u] = "to_plan"},
               bucket' = [u \in Tickets |-> IF u \in S THEN "ready" ELSE bucket[u]],
               revision' = revision \cup S, queue' \in Waves(S \ processed)
        PROVE  bucket'[t] # "ready" /\ \A c \in Waiting' : c.t = t => c.resume
    <3>1. t \notin S /\ S \ processed \in SUBSET Tickets
      BY <1>2, <2>3
    <3>2. \A c \in Waiting' : c.t \in S
      BY <2>3, <3>1, WaveQueue DEF Waiting
    <3> QED BY <1>2, <2>3, <3>1, <3>2 DEF Synced
  <2> QED BY <2>1, <2>2, <2>3 DEF Collect
<1> QED BY <1>1, <1>2 DEF Synced, ReplansAreSynced, Launched

(* A replanned ticket joins the pending ones; one that stays a candidate had *)
(* not been replanned since the last synchronisation.                        *)
LEMMA ReplanSynced == BatchInv /\ Synced /\ Replan => Synced'
<1> SUFFICES ASSUME BatchInv, Synced, Replan PROVE Synced'
  OBVIOUS
<1>1. PICK i \in Picks : LET c == queue[i] IN
        /\ ~c.resume /\ c.t \notin revision /\ queue' = RemoveAt(queue, i)
        /\ \/ /\ bucket' = [bucket EXCEPT ![c.t] = Moved(bucket[c.t], "to_plan")]
              /\ pending' = pending \cup {c.t} /\ unsynced' = unsynced \cup {c.t}
              /\ mem' = [mem EXCEPT !.failed = @ \cup {c.t}]
           \/ /\ mem' = [mem EXCEPT !.failed = @ \cup {c.t}, !.retryable = @ \cup {c.t}]
              /\ UNCHANGED <<bucket, pending, unsynced>>
  BY DEF Replan
<1> DEFINE c == queue[i]
<1>2. /\ pc = "launch" /\ UNCHANGED <<pc, flight, launches, revision>>
      /\ bucket \in [Tickets -> Buckets] /\ mem \in BatchStates /\ queue \in Seq(Cands)
  BY DEF BatchInv, Typed, Replan
<1>3. i \in DOMAIN queue /\ c \in Waiting
  BY DEF Picks, Launchable, Waiting, Elems
<1>4. c.t \in Tickets /\ c \in Cands
  BY <1>3, CandidatesTyped
<1>5. Waiting' = Waiting \ {c}
  BY <1>1, <1>2, <1>3, RemovedFromQueue DEF BatchInv, Single, Waiting
<1>6. \A d \in Waiting' : d \in Waiting /\ d.t # c.t
  BY <1>3, <1>5 DEF Waiting, Elems, BatchInv, Single, Unique
<1>7. c.t \notin unsynced
  BY <1>1, <1>3 DEF Synced
<1>8. mem'.failed = mem.failed \cup {c.t}
  BY <1>1, <1>2 DEF BatchStates
<1>9. /\ \A t \in Tickets : t # c.t => bucket'[t] = bucket[t]
      /\ \/ bucket'[c.t] = "to_plan" /\ pending' = pending \cup {c.t} /\ unsynced' = unsynced \cup {c.t}
         \/ UNCHANGED <<bucket, pending, unsynced>>
  BY <1>1, <1>2, <1>4, Moves
<1> HIDE DEF c
<1> QED BY <1>2, <1>4, <1>6, <1>7, <1>8, <1>9 DEF Synced, ReplansAreSynced, Launched

(* A claim that moves its ticket synchronises every pending one, a resumed   *)
(* candidate moves none.                                                     *)
LEMMA ClaimSynced == BatchInv /\ Synced /\ Claim => Synced'
<1> SUFFICES ASSUME BatchInv, Synced, Claim PROVE Synced'
  OBVIOUS
<1>1. PICK i \in Picks : LET c == queue[i] IN
        /\ queue' = RemoveAt(queue, i)
        /\ \/ pc' = "claimed" /\ UNCHANGED <<bucket, unsynced, pending>>
           \/ pc' = "claimed" /\ unsynced' = {} /\ pending' = {}
           \/ /\ pc' = "unwind" /\ UNCHANGED <<unsynced, pending>>
              /\ \E b \in {bucket[c.t], Moved(bucket[c.t], "in_progress")} :
                   bucket' = [bucket EXCEPT ![c.t] = b]
  BY DEF Claim, Raise
<1>2. /\ pc = "launch" /\ UNCHANGED <<flight, launches, revision, mem>>
      /\ bucket \in [Tickets -> Buckets] /\ queue \in Seq(Cands)
  BY DEF BatchInv, Typed, Claim
<1>3. i \in DOMAIN queue /\ queue[i] \in Waiting /\ queue[i].t \in Tickets
  BY CandidatesTyped DEF Picks, Launchable, Waiting, Elems
<1>4. Waiting' \subseteq Waiting
  BY <1>1, <1>2, <1>3, RemovedFromQueue DEF BatchInv, Single, Waiting
<1>5. \/ unsynced' = {} /\ pc' = "claimed"
      \/ /\ pc' = "unwind" /\ unsynced' = unsynced
         /\ \A t \in Tickets : bucket'[t] \in {bucket[t], "in_progress"}
      \/ pc' = "claimed" /\ UNCHANGED <<bucket, unsynced, pending>>
  BY <1>1, <1>2, <1>3, Moves
<1> QED BY <1>2, <1>4, <1>5 DEF Synced, ReplansAreSynced, Launched

(* A settlement that moves its ticket synchronises; one that does not moves  *)
(* nothing, and the ticket it may list as failed was launched.               *)
LEMMA SettleSynced == BatchInv /\ Synced /\ (\E c \in flight : Settle(c)) => Synced'
<1> SUFFICES ASSUME BatchInv, Synced, NEW c \in flight, Settle(c) PROVE Synced'
  OBVIOUS
<1>1. PICK j \in jobs :
        /\ flight' = flight \ {c}
        /\ LET out == Outcome[j.res]
               left == [mem EXCEPT !.in_flight = @ \ {c.t}]
           IN  \/ mem' = left /\ pc' = "unwind" /\ UNCHANGED <<bucket, unsynced, queue>>
               \/ mem' = left /\ pc' = "settled" /\ unsynced' = {}
               \/ /\ mem' = Remember(left, ListOf(out), c.t, out) /\ pc' = "settled"
                  /\ unsynced' = {} \/ UNCHANGED <<bucket, unsynced>>
                  /\ UNCHANGED queue
  BY DEF Settle, Raise, board, MoveSettled
<1> DEFINE out == Outcome[j.res]
           left == [mem EXCEPT !.in_flight = @ \ {c.t}]
<1>2. /\ pc = "wait" /\ UNCHANGED <<pending, launches, revision>>
      /\ mem \in BatchStates /\ c.t \in Tickets /\ Launched(c.t)
  BY CandidatesTyped DEF BatchInv, Typed, Settle, board, Synced
<1>3. left \in BatchStates /\ left.failed = mem.failed
  <2>1. mem.in_flight \ {c.t} \in SUBSET Tickets
    BY <1>2 DEF BatchStates
  <2> QED BY <1>2, <2>1 DEF BatchStates
<1> HIDE DEF left, out
<1>4. mem'.failed \subseteq mem.failed \cup {c.t} /\ pc' \in {"unwind", "settled"}
  <2>1. CASE mem' = left
    BY <1>1, <1>3, <2>1 DEF left
  <2>2. CASE mem' = Remember(left, ListOf(out), c.t, out)
    <3>1. mem' \in BatchStates /\ \A u \in Tickets, l \in Lists : u # c.t => (u \in mem'[l] <=> u \in left[l])
      BY <1>2, <1>3, <2>2, ListOfResult, Remembered
    <3> QED BY <1>1, <1>3, <3>1 DEF BatchStates, Lists
  <2> QED BY <1>1, <2>1, <2>2 DEF left, out
<1>5. unsynced' = {} \/ (UNCHANGED <<bucket, unsynced>> /\ Waiting' = Waiting)
  BY <1>1 DEF Waiting
<1>6. flight' \subseteq flight
  BY <1>1
<1> QED BY <1>2, <1>4, <1>5, <1>6 DEF Synced, ReplansAreSynced, Launched

(* What other processes do to the buckets: a run moves its ticket to review  *)
(* or completion, and recover synchronises what it moves.                    *)
LEMMA OutsideSynced == BatchInv /\ Synced /\ (StartBatch \/ RunStep \/ Recover) => Synced'
<1> SUFFICES ASSUME BatchInv, Synced, StartBatch \/ RunStep \/ Recover PROVE Synced'
  OBVIOUS
<1>1. CASE StartBatch
  BY <1>1 DEF StartBatch, Synced, ReplansAreSynced, board, Waiting, Elems, EmptyState
<1>2. CASE RunStep
  <2>1. PICK j \in Running, res \in Results : RunEnds(j, res)
    BY <1>2 DEF RunStep
  <2>2. bucket = bucket' \/ \E b \in {bucket[j.t], "for_review", "complete"} : bucket' = [bucket EXCEPT ![j.t] = b]
    BY <2>1, Moves DEF RunEnds
  <2>3. UNCHANGED <<revision, unsynced, pending, pc, queue, flight, mem, disk, launches>>
    BY <2>1 DEF RunEnds
  <2>4. j.t \in Tickets /\ bucket \in [Tickets -> Buckets]
    BY DEF BatchInv, Typed, Running, Jobs
  <2>5. \A t \in Tickets : bucket'[t] \in {bucket[t], "for_review", "complete"}
    BY <2>2, <2>4
  <2>6. Waiting' = Waiting
    BY <2>3 DEF Waiting
  <2> QED BY <2>3, <2>5, <2>6 DEF Synced, ReplansAreSynced, Launched
<1>3. CASE Recover
  <2>1. /\ UNCHANGED <<revision, pending, pc, queue, flight, mem, disk, launches>>
        /\ unsynced' = {} \/ (unsynced' = unsynced /\ bucket' = bucket)
    BY <1>3 DEF Recover
  <2>2. Waiting' = Waiting
    BY <2>1 DEF Waiting
  <2> QED BY <2>1, <2>2 DEF Synced, ReplansAreSynced, Launched
<1> QED BY <1>1, <1>2, <1>3

(* Every step keeps Synced as well.                                          *)
LEMMA SyncedStep == BatchInv /\ Synced /\ [Next]_vars => Synced'
<1>1. ASSUME BatchInv, Synced, Next PROVE Synced'
  BY <1>1, PhaseSynced, RaisesSynced, CollectSynced, ReplanSynced, ClaimSynced, SettleSynced, OutsideSynced DEF Next, BatchStep
<1>2. ASSUME Synced, UNCHANGED vars PROVE Synced'
  BY <1>2 DEF vars, Synced, ReplansAreSynced, Launched, Waiting, Elems
<1> QED BY <1>1, <1>2

(* A phase that ends without an exception has synchronised every ticket it   *)
(* replanned, however many synchronisations failed on the way and whatever   *)
(* an earlier batch left behind (batch_runner.py:3036-3067, 3146-3175).      *)
THEOREM ReplansSynced == Spec => []ReplansAreSynced
<1>1. Init => Synced
  BY DEF Init, Synced, ReplansAreSynced, Waiting, Elems
<1>2. BatchInv /\ Synced /\ [Next]_vars => Synced'
  BY SyncedStep
<1>3. Synced => ReplansAreSynced
  BY DEF Synced
<1> QED BY <1>1, <1>2, <1>3, BatchInvariance, PTL DEF Spec

=============================================================================
