---------------------------- MODULE BatchRunner ----------------------------
(***************************************************************************)
(* usertest_implement batch: one process claims ready tickets, runs them in *)
(* worker processes, settles their results and keeps a state file, and an   *)
(* operator recovers what a dead batch left behind.  The model follows      *)
(* _drain_phase for one phase: waves of candidates, a launch loop that      *)
(* skips tickets whose conflict keys are in use, deferred replanning,       *)
(* retries, blockers and the exception path, with crashes between any two   *)
(* of its writes.  A ticket run is a process of its own: it may move its    *)
(* ticket to review, and it outlives a batch that dies.                     *)
(*                                                                          *)
(* Abstracted: a ticket has one copy, whose moves follow PlanBuckets (see   *)
(* TicketBoard for the files); persist_state is one step, and recover is    *)
(* one step, run only when no batch is alive.                               *)
(***************************************************************************)
EXTENDS PlanBuckets, FiniteSets, FiniteSetsExt, SequencesExt

CONSTANTS Tickets,
          TicketOrder,   \* candidates sorted by severity, domain, title, key
          ConflictKeys,  \* ConflictKeys[t]: execution_conflict_keys
          Workers,       \* len(workers)
          InfraRetryLimit, ResumeRetryLimit,
          MaxCycles,     \* max_phase_cycles
          Results,       \* the outcomes ticket runs may have
          MaxBatches,    \* bound: batches started
          MaxFaults      \* bound: crashes, failed moves and failed syncs

ASSUME BatchAssumption ==
    /\ TicketOrder \in Seq(Tickets) /\ Range(TicketOrder) = Tickets
    /\ \A i, j \in DOMAIN TicketOrder : TicketOrder[i] = TicketOrder[j] => i = j
    /\ {Workers, InfraRetryLimit, ResumeRetryLimit, MaxCycles, MaxBatches, MaxFaults} \subseteq Nat
    /\ Workers > 0

VARIABLES bucket,    \* where each ticket's plan is
          revision,  \* tickets whose plan is bound to the wave's base revision
          resumable, \* resumable[t]: -1, or the resume attempts made so far
          jobs,      \* ticket runs: [t, batch, resume, res]
          pc, batch, cycle, queue, flight, cur, pending, processed, blocked,
          mem, disk, \* the batch state in memory and in the state file
          unsynced,  \* replanned tickets the atom actions still call ready
          launches,  \* launches[t] in this batch
          lost,      \* claimed tickets whose record fell into a crash or an exception
          faults

vars == <<bucket, revision, resumable, jobs, pc, batch, cycle, queue, flight, cur, pending,
          processed, blocked, mem, disk, unsynced, launches, lost, faults>>
board == <<bucket, revision, resumable, unsynced>>
control == <<batch, cycle, processed, blocked>>

Lists == {"parked", "resume_ready", "completed", "failed"}
EmptyState == [status |-> "running", in_flight |-> {}, parked |-> {}, resume_ready |-> {},
               completed |-> {}, failed |-> {}, retryable |-> {}, with_dir |-> {}, with_pr |-> {}]
NoCandidate == [t |-> Head(TicketOrder), retry |-> 0, resume |-> FALSE]

\* What one run came to: its lifecycle state, whether a PR exists, whether a
\* run directory exists, and the class of the failure.
Outcome ==
    [review    |-> [life |-> "parked_review", pr |-> TRUE,  dir |-> TRUE,  class |-> "success"],
     waiting   |-> [life |-> "parked",        pr |-> FALSE, dir |-> TRUE,  class |-> "blocker"],
     resumable |-> [life |-> "resume_ready",  pr |-> FALSE, dir |-> TRUE,  class |-> "regression"],
     merged    |-> [life |-> "complete",      pr |-> TRUE,  dir |-> TRUE,  class |-> "success"],
     local     |-> [life |-> "none",          pr |-> FALSE, dir |-> TRUE,  class |-> "success"],
     infra     |-> [life |-> "none",          pr |-> FALSE, dir |-> TRUE,  class |-> "infra_transient"],
     regressed |-> [life |-> "none",          pr |-> FALSE, dir |-> TRUE,  class |-> "regression"],
     red       |-> [life |-> "none",          pr |-> TRUE,  dir |-> TRUE,  class |-> "blocker"],
     vanished  |-> [life |-> "none",          pr |-> FALSE, dir |-> FALSE, class |-> "blocker"],
     exhausted |-> [life |-> "none",          pr |-> FALSE, dir |-> FALSE, class |-> "regression"]]

\* move_ticket_file on a ticket with one copy: never back among the actioned
\* buckets, and into 5 - complete only with an outcome record.
Moved(b, to) == IF Further({b}, to) # {} THEN b ELSE to
Movable(b, to) == to = "complete" => b \in {"complete", "archived"}

Mine(j) == j.batch = batch
Running == {j \in jobs : j.res = "running"}
ActiveKeys == UNION {ConflictKeys[c.t] : c \in flight}
Fault == faults < MaxFaults /\ faults' = faults + 1

Init ==
    /\ bucket \in [Tickets -> {"to_plan", "ready", "in_progress", "for_review"}]
    /\ revision \in SUBSET Tickets
    /\ resumable \in [Tickets -> {-1, 0}]
    /\ \A t \in Tickets : bucket[t] \in IF resumable[t] >= 0
                                        THEN {"ready", "in_progress", "for_review"}
                                        ELSE {"to_plan", "ready"}
    /\ jobs = {} /\ pc = "off" /\ batch = 0 /\ cycle = 0
    /\ queue = <<>> /\ flight = {} /\ cur = NoCandidate /\ pending = {}
    /\ processed = {} /\ blocked = FALSE
    /\ mem = EmptyState /\ disk = EmptyState
    /\ unsynced = {} /\ launches = [t \in Tickets |-> 0] /\ lost = {} /\ faults = 0

\* run_batch: a new batch directory and a fresh state.
StartBatch ==
    /\ pc \in {"off", "ended"} /\ batch < MaxBatches
    /\ batch' = batch + 1 /\ pc' = "collect" /\ cycle' = 1
    /\ mem' = EmptyState /\ disk' = EmptyState
    /\ queue' = <<>> /\ flight' = {} /\ pending' = {} /\ processed' = {} /\ blocked' = FALSE
    /\ launches' = [t \in Tickets |-> 0] /\ lost' = {}
    /\ UNCHANGED <<board, jobs, cur, faults>>

-----------------------------------------------------------------------------
\* An exception anywhere in the phase leaves the executor's block, which waits
\* for the runs still out.
Raise == pc' = "unwind"

Earlier(t, u) == \E i, j \in DOMAIN TicketOrder : i < j /\ TicketOrder[i] = t /\ TicketOrder[j] = u
Candidate(t) == [t |-> t, retry |-> 0, resume |-> resumable[t] >= 0]
\* The queue of a wave: the candidates of S, sorted.
Waves(S) == {q \in [1..Cardinality(S) -> {Candidate(t) : t \in S}] :
                \A i, j \in DOMAIN q : i < j => Earlier(q[i].t, q[j].t)}
ReadyWork == {t \in Tickets : bucket[t] = "ready"}
Wave == {t \in Tickets : resumable[t] >= 0 \/ t \in ReadyWork} \ processed

\* _collect_wave_candidates: resumable tickets and the ready queue; with no
\* such candidate and no ready work at all, a refresh exports planned tickets.
Collect ==
    /\ pc = "collect"
    /\ \/ /\ Wave # {}
          /\ queue' \in Waves(Wave) /\ pc' = "launch"
          /\ UNCHANGED <<board, mem>>
       \/ /\ Wave = {} /\ ReadyWork # {}
          /\ pc' = "drained" /\ UNCHANGED <<board, mem, queue>>
       \/ /\ Wave = {} /\ ReadyWork = {}
          /\ \E S \in SUBSET {t \in Tickets : bucket[t] = "to_plan"} :
               /\ bucket' = [t \in Tickets |-> IF t \in S THEN "ready" ELSE bucket[t]]
               /\ revision' = revision \cup S
               /\ queue' \in Waves(S \ processed)
               /\ pc' = IF S \subseteq processed THEN "drained" ELSE "launch"
          /\ UNCHANGED <<resumable, unsynced, mem>>
    /\ UNCHANGED <<jobs, control, flight, cur, pending, disk, launches, lost, faults>>

\* A refresh that raises may have exported some of the tickets it plans.
RefreshRaises ==
    /\ pc = "collect" /\ Wave = {} /\ ReadyWork = {} /\ Fault /\ Raise
    /\ \E S \in SUBSET {t \in Tickets : bucket[t] = "to_plan"} :
         /\ bucket' = [t \in Tickets |-> IF t \in S THEN "ready" ELSE bucket[t]]
         /\ revision' = revision \cup S
    /\ UNCHANGED <<resumable, unsynced, jobs, control, queue, flight, cur, pending, mem, disk,
                   launches, lost>>

\* Faulty variant: only the ticket itself is compared.
AnyIdle == {i \in DOMAIN queue : \A c \in flight : c.t # queue[i].t}

Launchable == {i \in DOMAIN queue : ConflictKeys[queue[i].t] \cap ActiveKeys = {}}

Picks == {i \in Launchable : \A j \in Launchable : i <= j}
CanLaunch == ~blocked /\ Cardinality(flight) < Workers /\ Launchable # {}

\* _record_candidate_plan_contract_failure: the plan is not bound to the wave's
\* revision.  Moved back to planning it is done for this phase, its atom
\* actions to be synchronised later; not moved, it stays a candidate.
Replan ==
    /\ pc = "launch" /\ CanLaunch
    /\ \E i \in Picks : LET c == queue[i] IN
       /\ ~c.resume /\ c.t \notin revision
       /\ queue' = RemoveAt(queue, i)
       /\ \/ /\ bucket' = [bucket EXCEPT ![c.t] = Moved(@, "to_plan")]
             /\ processed' = processed \cup {c.t}
             /\ pending' = pending \cup {c.t}
             /\ unsynced' = unsynced \cup {c.t}
             /\ mem' = [mem EXCEPT !.failed = @ \cup {c.t}]
             /\ UNCHANGED faults
          \/ /\ Fault
             /\ mem' = [mem EXCEPT !.failed = @ \cup {c.t}, !.retryable = @ \cup {c.t}]
             /\ UNCHANGED <<bucket, processed, pending, unsynced>>
       /\ disk' = mem'
    /\ UNCHANGED <<revision, resumable, jobs, pc, batch, cycle, flight, cur, blocked, launches, lost>>

\* _claim_ticket: move to 3 - in_progress, then synchronise every ticket's atom
\* actions, which also serves the pending replans.  Either may raise.
Claim ==
    /\ pc = "launch" /\ CanLaunch
    /\ \E i \in Picks : LET c == queue[i] IN
       /\ c.resume \/ c.t \in revision
       /\ queue' = RemoveAt(queue, i)
       /\ cur' = c
       /\ \/ /\ c.resume
             /\ pc' = "claimed" /\ UNCHANGED <<bucket, unsynced, pending, lost, faults>>
          \/ /\ ~c.resume
             /\ bucket' = [bucket EXCEPT ![c.t] = Moved(@, "in_progress")]
             /\ unsynced' = {} /\ pending' = {}
             /\ pc' = "claimed" /\ UNCHANGED <<lost, faults>>
          \/ /\ ~c.resume /\ Fault /\ Raise
             /\ \E b \in {bucket[c.t], Moved(bucket[c.t], "in_progress")} :
                  bucket' = [bucket EXCEPT ![c.t] = b]
             /\ lost' = lost \cup {c.t}
             /\ UNCHANGED <<unsynced, pending>>
    /\ UNCHANGED <<revision, resumable, jobs, control, flight, mem, disk, launches>>

\* Faulty variant: the entry waits for the next settlement to be written.
RecordInMemory ==
    /\ pc = "claimed"
    /\ mem' = [mem EXCEPT !.in_flight = @ \cup {cur.t}]
    /\ pc' = "submit"
    /\ UNCHANGED <<board, jobs, control, queue, flight, cur, pending, disk, launches, lost, faults>>

\* The in-flight entry is in the state file before the run is submitted.
RecordLaunch ==
    /\ pc = "claimed"
    /\ mem' = [mem EXCEPT !.in_flight = @ \cup {cur.t}]
    /\ disk' = mem'
    /\ pc' = "submit"
    /\ UNCHANGED <<board, jobs, control, queue, flight, cur, pending, launches, lost, faults>>

Job(c, res) == [t |-> c.t, batch |-> batch, resume |-> c.resume, res |-> res]

\* A resume beyond the limit is settled without a process.
Submit ==
    /\ pc = "submit"
    /\ jobs' = jobs \cup {Job(cur, IF cur.resume /\ resumable[cur.t] >= ResumeRetryLimit
                                 THEN "exhausted" ELSE "running")}
    /\ flight' = flight \cup {cur}
    /\ launches' = [launches EXCEPT ![cur.t] = @ + 1]
    /\ pc' = "launch"
    /\ UNCHANGED <<board, control, queue, cur, pending, mem, disk, lost, faults>>

\* Faulty variant: the last flush's failure is swallowed.
FlushQuietly ==
    /\ pc = "launch" /\ ~CanLaunch
    /\ \/ /\ pending' = {}
          /\ unsynced' = IF pending = {} THEN unsynced ELSE {}
          /\ pc' = IF flight = {} THEN "wave_done" ELSE "wait"
          /\ UNCHANGED faults
       \/ /\ pending # {} /\ Fault
          /\ \/ flight # {} /\ pc' = "wait"
             \/ flight = {} /\ pc' = "wave_done"
          /\ UNCHANGED <<pending, unsynced>>
    /\ disk' = IF pending = {} THEN disk ELSE mem
    /\ UNCHANGED <<bucket, revision, resumable, jobs, control, queue, flight, cur, mem, launches, lost>>

\* Faulty variant: a wave is done when nothing can be launched.
FlushAndFinish ==
    /\ pc = "launch" /\ ~CanLaunch
    /\ \/ /\ pending' = {}
          /\ unsynced' = IF pending = {} THEN unsynced ELSE {}
          /\ pc' = "wave_done"
          /\ UNCHANGED faults
       \/ /\ pending # {} /\ Fault
          /\ \/ flight # {} /\ pc' = "wait"
             \/ flight = {} /\ Raise
          /\ UNCHANGED <<pending, unsynced>>
    /\ disk' = IF pending = {} THEN disk ELSE mem
    /\ UNCHANGED <<bucket, revision, resumable, jobs, control, queue, flight, cur, mem, launches, lost>>

\* Faulty variant: the loop waits also when no run is out.
FlushAndWait ==
    /\ pc = "launch" /\ ~CanLaunch
    /\ \/ /\ pending' = {}
          /\ unsynced' = IF pending = {} THEN unsynced ELSE {}
          /\ pc' = "wait"
          /\ UNCHANGED faults
       \/ /\ pending # {} /\ Fault
          /\ \/ flight # {} /\ pc' = "wait"
             \/ flight = {} /\ Raise
          /\ UNCHANGED <<pending, unsynced>>
    /\ disk' = IF pending = {} THEN disk ELSE mem
    /\ UNCHANGED <<bucket, revision, resumable, jobs, control, queue, flight, cur, mem, launches, lost>>

\* Nothing more can be launched: flush the deferred synchronisation, twice
\* when nothing is in flight, and go on only if it succeeded or runs are out.
Flush ==
    /\ pc = "launch" /\ ~CanLaunch
    /\ \/ /\ pending' = {}
          /\ unsynced' = IF pending = {} THEN unsynced ELSE {}
          /\ pc' = IF flight = {} THEN "wave_done" ELSE "wait"
          /\ UNCHANGED faults
       \/ /\ pending # {} /\ Fault
          /\ \/ flight # {} /\ pc' = "wait"
             \/ flight = {} /\ Raise
          /\ UNCHANGED <<pending, unsynced>>
    /\ disk' = IF pending = {} THEN disk ELSE mem
    /\ UNCHANGED <<bucket, revision, resumable, jobs, control, queue, flight, cur, mem, launches, lost>>

-----------------------------------------------------------------------------
\* Faulty variant: a blocker is recorded among the blockers only.
RememberUnlessBlocker(s, list, t, out) ==
    IF out.class = "blocker" THEN s
    ELSE [s EXCEPT !.parked = IF list = "parked" THEN @ \cup {t} ELSE @,
                   !.completed = IF list = "completed" THEN @ \cup {t} ELSE @,
                   !.failed = IF list = "failed" THEN @ \cup {t} ELSE @]

\* _remember_state_entry: the ticket leaves every other list.
Remember(s, list, t, out) ==
    LET add(S, yes) == IF yes THEN S \cup {t} ELSE S \ {t}
    IN  [s EXCEPT !.parked = add(@, list = "parked"), !.resume_ready = add(@, list = "resume_ready"),
                  !.completed = add(@, list = "completed"), !.failed = add(@, list = "failed"),
                  !.retryable = @ \ {t}, !.with_dir = add(@, out.dir), !.with_pr = add(@, out.pr)]

\* The list a result ends in, and the bucket the ticket is then moved to.
ListOf(out) ==
    CASE out.life \in {"parked", "parked_review"} -> "parked"
      [] out.life = "resume_ready" -> "resume_ready"
      [] out.life = "complete" \/ out.class = "success" -> "completed"
      [] OTHER -> "failed"
Destination(c, out) ==
    CASE out.life = "parked_review" -> {"for_review"}
      [] out.life \in {"parked", "resume_ready"} -> {}
      [] out.life = "complete" -> {"complete"}
      [] out.class = "success" \/ out.pr -> {"for_review"}
      [] OTHER -> IF c.resume THEN {} ELSE {"ready"}

Retries(c, out) ==
    /\ out.life = "none" /\ out.class = "infra_transient"
    /\ c.retry < InfraRetryLimit /\ ~c.resume

Requeued(c) == [c EXCEPT !.retry = @ + 1]

\* The moves of a settled ticket.  Every one but the retry's is in a try block
\* that swallows what it raises; the ones that succeed synchronise.
MoveSettled(c, to) ==
    \/ /\ to # {} /\ \A b \in to : Movable(bucket[c.t], b)
       /\ bucket' = [bucket EXCEPT ![c.t] = Moved(@, CHOOSE b \in to : TRUE)]
       /\ unsynced' = {} /\ UNCHANGED faults
    \/ /\ to = {} \/ \E b \in to : ~Movable(bucket[c.t], b)
       /\ UNCHANGED <<bucket, unsynced, faults>>
    \/ to # {} /\ Fault /\ UNCHANGED <<bucket, unsynced>>

\* A future is done: it leaves the in-flight entries first, then its result is
\* read, which may raise, and the ticket is moved, requeued and recorded.
Settle(c) ==
    /\ pc = "wait" /\ c \in flight
    /\ \E j \in jobs :
         /\ Mine(j) /\ j.t = c.t /\ j.res # "running"
         /\ flight' = flight \ {c} /\ jobs' = jobs \ {j}
         /\ IF j.res = "raised"
            THEN /\ mem' = [mem EXCEPT !.in_flight = @ \ {c.t}]
                 /\ lost' = lost \cup {c.t} /\ Raise
                 /\ UNCHANGED <<board, queue, processed, blocked, faults>>
            ELSE LET out == Outcome[j.res]
                     left == [mem EXCEPT !.in_flight = @ \ {c.t}]
                 IN  IF Retries(c, out)
                     THEN \/ /\ bucket' = [bucket EXCEPT ![c.t] = Moved(@, "ready")]
                             /\ queue' = Append(queue, Requeued(c))
                             /\ mem' = left /\ pc' = "settled" /\ unsynced' = {}
                             /\ UNCHANGED <<revision, resumable, processed, blocked, lost, faults>>
                          \/ /\ Fault /\ Raise /\ mem' = left /\ lost' = lost \cup {c.t}
                             /\ UNCHANGED <<board, queue, processed, blocked>>
                     ELSE /\ MoveSettled(c, Destination(c, out))
                          /\ mem' = Remember(left, ListOf(out), c.t, out)
                          /\ processed' = processed \cup {c.t}
                          /\ blocked' = (blocked \/ (ListOf(out) = "failed" /\ out.class = "blocker"))
                          /\ pc' = "settled"
                          /\ UNCHANGED <<revision, resumable, queue, lost>>
    /\ UNCHANGED <<batch, cycle, cur, pending, disk, launches>>

\* persist_state after each future; the other futures that were done with it
\* come before the next launches.
PersistSettled ==
    /\ pc = "settled"
    /\ disk' = mem
    /\ \/ pc' = "launch"
       \/ pc' = "wait" /\ \E c \in flight : \E j \in jobs : Mine(j) /\ j.t = c.t /\ j.res # "running"
    /\ UNCHANGED <<board, jobs, control, queue, flight, cur, pending, mem, launches, lost, faults>>

\* The end of a wave: stop when blocked, else the next cycle, up to the limit.
WaveDone ==
    /\ pc = "wave_done"
    /\ IF blocked
       THEN /\ mem' = [mem EXCEPT !.status = "blocked"] /\ disk' = mem' /\ pc' = "ended"
            /\ UNCHANGED cycle
       ELSE IF cycle >= MaxCycles THEN Raise /\ UNCHANGED <<mem, disk, cycle>>
       ELSE cycle' = cycle + 1 /\ pc' = "collect" /\ UNCHANGED <<mem, disk>>
    /\ UNCHANGED <<board, jobs, batch, processed, blocked, queue, flight, cur, pending, launches,
                   lost, faults>>

\* run_batch after the phases: resume_ready, parked or complete.
Drained ==
    /\ pc = "drained"
    /\ \E proof \in {"completed", "awaiting_terminal_proof"} :
         mem' = [mem EXCEPT !.status = IF mem.resume_ready # {} THEN "resume_ready"
                                       ELSE IF mem.parked # {} THEN "parked" ELSE proof]
    /\ disk' = mem' /\ pc' = "ended"
    /\ UNCHANGED <<board, jobs, control, queue, flight, cur, pending, launches, lost, faults>>

\* The terminal proof, built when nothing is left, may itself raise.
ProofRaises ==
    /\ pc = "drained" /\ mem.resume_ready = {} /\ mem.parked = {} /\ Fault /\ Raise
    /\ UNCHANGED <<board, jobs, control, queue, flight, cur, pending, mem, disk, launches, lost>>

\* The exception path: once every run is over, the batch is failed; the results
\* of those runs are dropped.
Unwind ==
    /\ pc = "unwind" /\ \A j \in Running : ~Mine(j)
    /\ mem' = [mem EXCEPT !.status = "failed"] /\ disk' = mem' /\ pc' = "ended"
    /\ jobs' = Running /\ flight' = {}
    /\ UNCHANGED <<board, control, queue, cur, pending, launches, lost, faults>>

-----------------------------------------------------------------------------
\* A ticket run ends.  It may have moved its ticket to review, or, merged, to
\* complete with the outcome record; a resume counts its attempt; the ledger
\* says whether the ticket can be resumed.
RunEnds(j, res) ==
    /\ j \in Running
    /\ jobs' = (jobs \ {j}) \cup (IF \E c \in flight : Mine(j) /\ c.t = j.t
                                THEN {[j EXCEPT !.res = res]} ELSE {})
    /\ IF res = "raised" THEN UNCHANGED <<bucket, resumable>>
       ELSE /\ \E b \in {bucket[j.t]}
                   \cup (IF res \in {"review", "waiting", "resumable", "local", "red"}
                         THEN {Moved(bucket[j.t], "for_review")} ELSE {})
                   \cup (IF res = "merged" THEN {Moved(bucket[j.t], "complete")} ELSE {}) :
                 bucket' = [bucket EXCEPT ![j.t] = b]
            /\ resumable' = [resumable EXCEPT ![j.t] =
                   IF res \in {"review", "waiting", "merged"} THEN -1
                   ELSE IF j.resume THEN @ + 1
                   ELSE IF res = "resumable" THEN 0 ELSE @]
    /\ UNCHANGED <<revision, unsynced, pc, control, queue, flight, cur, pending, mem, disk,
                   launches, lost, faults>>

\* The batch process dies; its runs go on.
Crash ==
    /\ pc \notin {"off", "ended"} /\ Fault
    /\ pc' = "ended"
    /\ lost' = IF pc = "claimed" /\ ~cur.resume THEN lost \cup {cur.t} ELSE lost
    /\ mem' = disk /\ queue' = <<>> /\ flight' = {} /\ pending' = {} /\ jobs' = Running
    /\ UNCHANGED <<board, control, cur, disk, launches>>

\* batch_recover: failed tickets with a run directory go to review or back to
\* ready, then every in-flight ticket goes back to ready.
Recovered(t) ==
    LET tried == IF t \in disk.failed \cap disk.with_dir
                 THEN Moved(bucket[t], IF t \in disk.with_pr THEN "for_review" ELSE "ready")
                 ELSE bucket[t]
    IN  IF t \in disk.in_flight THEN Moved(tried, "ready") ELSE tried
Recover ==
    /\ pc = "ended"
    /\ bucket' = [t \in Tickets |-> Recovered(t)]
    /\ unsynced' = IF bucket' = bucket THEN unsynced ELSE {}
    /\ UNCHANGED <<revision, resumable, jobs, pc, control, queue, flight, cur, pending, mem, disk,
                   launches, lost, faults>>

BatchStep ==
    \/ Collect \/ RefreshRaises \/ Replan \/ Claim \/ RecordLaunch \/ Submit \/ Flush
    \/ (\E c \in flight : Settle(c)) \/ PersistSettled \/ WaveDone \/ Drained \/ ProofRaises \/ Unwind
RunStep == \E j \in Running : \E res \in Results : RunEnds(j, res)

Next == StartBatch \/ BatchStep \/ RunStep \/ Crash \/ Recover

Spec == Init /\ [][Next]_vars /\ WF_vars(BatchStep) /\ WF_vars(RunStep)

-----------------------------------------------------------------------------
Named(s) == s.parked \cup s.resume_ready \cup s.completed \cup s.failed
StateOK(s) ==
    /\ s.status \in {"running", "blocked", "resume_ready", "parked", "completed",
                     "awaiting_terminal_proof", "failed"}
    /\ s.in_flight \cup Named(s) \cup s.retryable \cup s.with_dir \cup s.with_pr \subseteq Tickets

TypeOK ==
    /\ bucket \in [Tickets -> Buckets]
    /\ revision \cup pending \cup processed \cup unsynced \cup lost \subseteq Tickets
    /\ resumable \in [Tickets -> -1..(ResumeRetryLimit + MaxBatches)]
    /\ \A j \in jobs : j.t \in Tickets /\ j.batch \in 1..batch
    /\ pc \in {"off", "collect", "launch", "claimed", "submit", "wait", "settled", "wave_done",
              "drained", "unwind", "ended"}
    /\ StateOK(mem) /\ StateOK(disk)
    /\ Cardinality(flight) <= Workers
    /\ cycle \in 0..MaxCycles /\ batch \in 0..MaxBatches /\ faults \in 0..MaxFaults

\* Two runs of one batch never share a conflict key, however claims, retries
\* and settlements interleave (_pick_launchable_candidate_index).
NoConflictingRuns ==
    \A i, j \in Running : i # j /\ Mine(i) /\ Mine(j) => ConflictKeys[i.t] \cap ConflictKeys[j.t] = {}

\* Every run still out is an in-flight entry of the state file, also after the
\* batch died or failed: recover can find it.
RunsAreRecorded == \A j \in Running : Mine(j) => j.t \in disk.in_flight

\* A ticket this batch launched and that still is in 3 - in_progress is named
\* in the state file.  The exceptions are the windows of `lost`: a crash
\* between the claim and its record, a result or a requeue that raises.
NoTicketStranded ==
    \A t \in Tickets :
        launches[t] > 0 /\ bucket[t] = "in_progress" =>
            \/ t \in disk.in_flight \cup Named(disk) \cup lost
            \/ pc = "claimed" /\ cur.t = t

\* A phase that ends without an exception has settled what it launched: no
\* entry is in flight, every launched ticket is in one list only, or is ready
\* again because a blocker stopped its retry.
LaunchesAccounted ==
    pc = "ended" /\ disk.status \notin {"running", "failed"} =>
        /\ disk.in_flight = {}
        /\ \A t \in Tickets : launches[t] > 0 =>
             \/ \E l \in Lists : {k \in Lists : t \in disk[k]} = {l}
             \/ disk.status = "blocked" /\ bucket[t] # "in_progress" /\ t \notin Named(disk)

\* "cannot silently complete with stale derived atom-action state": a phase
\* that ends without an exception has synchronised every ticket it replanned.
ReplansAreSynced ==
    pc = "ended" /\ disk.status \notin {"running", "failed"} =>
        \A t \in unsynced : t \in disk.failed => launches[t] > 0

\* A started phase ends, blocked, drained or failed, provided runs end.
DrainEnds == pc = "collect" ~> pc = "ended"
=============================================================================
