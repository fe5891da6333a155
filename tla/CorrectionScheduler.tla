------------------------ MODULE CorrectionScheduler ------------------------
(***************************************************************************)
(* The scheduler of qualification corrections in the backlog pipeline       *)
(* (workflows/staged.py): scoring commands resume, group by group, the      *)
(* authors whose work an adjudication has rejected.  Everything it knows    *)
(* between calls is in files written once: a chain of checkpoints, a claim  *)
(* before every author run, a completion.  A call holds a process lock that *)
(* the system releases when the process dies.                               *)
(*                                                                          *)
(* Abstracted: a checkpoint is what a later call reads of it; the documents *)
(* of current_runtime are the set of groups whose repairs they contain; the *)
(* author run (run_stage456_qualification_repairs) is its outcome; the      *)
(* causal plan after an accepted problem-mining repair is any plan.         *)
(***************************************************************************)
EXTENDS Integers, Sequences, FiniteSets

CONSTANTS Scorers, NoScorer,
          Groups,        \* author groups of one correction
          PlanOrder,     \* the plan's order: causal stage first
          MinerGroups,   \* groups whose authoring stage is problem_mining
          MaxAttempts,   \* bound: invocation numbers
          MaxCrashes     \* bound: crashes and exceptions of the author run

ASSUME SchedulerAssumption ==
    /\ NoScorer \notin Scorers
    /\ PlanOrder \in Seq(Groups) /\ PlanOrder # <<>>
    /\ \A g \in Groups : \E i \in DOMAIN PlanOrder : PlanOrder[i] = g
    /\ MinerGroups \subseteq Groups
    /\ MaxAttempts \in Nat \ {0} /\ MaxCrashes \in Nat

VARIABLES plan,      \* the immutable plan: what each group's routes allow
          ckpt,      \* the last checkpoint of the chain
          forked,    \* two checkpoints name the same parent
          claims,    \* claim files
          torn,      \* files whose writer died
          done,      \* the completion file exists
          lock, pc,
          mem,       \* the checkpoint a scorer works from
          attempted, \* attempted_group_ids of its call
          job,       \* the attempt in hand and its outcome
          runs,      \* author runs started for each claim
          crashes

vars == <<plan, ckpt, forked, claims, torn, done, lock, pc, mem, attempted, job, runs, crashes>>
files == <<ckpt, forked, claims, torn, done>>
local == <<mem, attempted, job>>

Kinds == {"primary", "reconciliation"}
Claims == [g : Groups, n : 1..MaxAttempts, kind : Kinds]
Outcomes == {"accepted", "repairable_paused", "retained_pending_not_invoked",
             "terminal_nonprogress", "external_wait"}
Routes == {"invocable", "uncorrectable", "unattributed", "retained"}

\* _qualification_scheduler_initial_state; generation -1 stands for no file.
Untouched(gen, status) == [gen |-> gen, status |-> status, count |-> [g \in Groups |-> 0],
                           active |-> [g \in Groups |-> 0], docs |-> {}]
NoCheckpoint == Untouched(-1, [g \in Groups |-> "none"])
InitialStatus == [invocable |-> "pending_invocation", uncorrectable |-> "terminal_nonprogress",
                  unattributed |-> "repairable_paused",
                  retained |-> "retained_pending_causal_predecessor"]
Root == Untouched(0, [g \in Groups |-> InitialStatus[plan[g]]])
NoJob == [g |-> PlanOrder[1], n |-> 1, kind |-> "primary", out |-> "accepted"]

Init ==
    /\ plan \in [Groups -> Routes] /\ plan[PlanOrder[1]] # "retained"
    /\ ckpt = NoCheckpoint /\ forked = FALSE /\ claims = {} /\ done = FALSE
    /\ torn = [checkpoint |-> FALSE, completion |-> FALSE, claims |-> {}]
    /\ lock = NoScorer /\ pc = [s \in Scorers |-> "idle"]
    /\ mem = [s \in Scorers |-> NoCheckpoint]
    /\ attempted = [s \in Scorers |-> {}]
    /\ job = [s \in Scorers |-> NoJob]
    /\ runs = [c \in Claims |-> 0] /\ crashes = 0

Goto(s, l) == pc' = [pc EXCEPT ![s] = l]
Leave(s) ==
    /\ Goto(s, "idle") /\ lock' = NoScorer
    /\ mem' = [mem EXCEPT ![s] = NoCheckpoint]
    /\ attempted' = [attempted EXCEPT ![s] = {}] /\ job' = [job EXCEPT ![s] = NoJob]
Claim(j) == [g |-> j.g, n |-> j.n, kind |-> j.kind]

Adopt(s) == mem' = [mem EXCEPT ![s] = ckpt']

\* A new checkpoint names the one the scorer works from as its parent; with a
\* parent that has a child already, the chain is ambiguous.
Extend(s, new) ==
    /\ ckpt' = new
    /\ forked' = (forked \/ mem[s] # ckpt)

-----------------------------------------------------------------------------
\* _qualification_execution_lock does not wait: a call that finds it held
\* returns correction_in_progress and has changed nothing.
Acquire(s) ==
    /\ pc[s] = "idle" /\ lock = NoScorer /\ \A g \in Groups : ckpt.count[g] < MaxAttempts
    /\ lock' = s /\ Goto(s, "open")
    /\ UNCHANGED <<plan, files, local, runs, crashes>>

Unreadable == torn.completion \/ (~done /\ (forked \/ torn.checkpoint))

\* Completion and checkpoints are read under the lock.  A completion is
\* reused; a file that does not parse, or two children, end the call.
Open(s) ==
    /\ pc[s] = "open" /\ ~Unreadable /\ ~done
    /\ IF ckpt.gen >= 0
       THEN mem' = [mem EXCEPT ![s] = ckpt] /\ Goto(s, "select")
       ELSE Goto(s, "root") /\ UNCHANGED mem
    /\ UNCHANGED <<plan, files, lock, attempted, job, runs, crashes>>

OpenEnds(s) ==
    /\ pc[s] = "open" /\ (Unreadable \/ done)
    /\ Leave(s)
    /\ UNCHANGED <<plan, files, runs, crashes>>

WriteRoot(s) ==
    /\ pc[s] = "root"
    /\ Extend(s, Root) /\ Adopt(s) /\ Goto(s, "select")
    /\ UNCHANGED <<plan, claims, torn, done, lock, attempted, job, runs, crashes>>

-----------------------------------------------------------------------------
\* Faulty variant: what has_pending calls pending is invoked.
InvocablePending(state, tried) ==
    {i \in DOMAIN PlanOrder :
        /\ PlanOrder[i] \notin tried /\ plan[PlanOrder[i]] = "invocable"
        /\ state.status[PlanOrder[i]] \notin {"accepted", "terminal_nonprogress"}}

Invocable(state, tried) ==
    {i \in DOMAIN PlanOrder :
        /\ PlanOrder[i] \notin tried /\ plan[PlanOrder[i]] = "invocable"
        /\ state.status[PlanOrder[i]] \in {"pending_invocation", "invoking", "repairable_paused"}}

\* Faulty variant: the next free claim directory.
NumberFree(state, g) == 1 + Cardinality({c \in claims \cup torn.claims : c.g = g /\ c.kind = "primary"})

\* An attempt that a checkpoint calls active is taken up again.
Number(state, g) == IF state.active[g] > 0 THEN state.active[g] ELSE state.count[g] + 1

File(state, g, kind) == [g |-> g, n |-> Number(state, g), kind |-> kind]
OnDisk == claims \cup torn.claims
Take(s, c) ==
    /\ job' = [job EXCEPT ![s] = [g |-> c.g, n |-> c.n, kind |-> c.kind, out |-> "accepted"]]
    /\ Goto(s, "claim")
    /\ UNCHANGED <<lock, mem, attempted>>

\* Faulty variant: the call goes on instead of ending.
SelectNext(s) ==
    /\ pc[s] = "select"
    /\ \E i \in Invocable(mem[s], attempted[s]) :
         /\ \A j \in Invocable(mem[s], attempted[s]) : i <= j
         /\ LET primary == File(mem[s], PlanOrder[i], "primary")
                reconciliation == File(mem[s], PlanOrder[i], "reconciliation")
            IN  \/ primary \notin OnDisk /\ Take(s, primary)
                \/ /\ primary \in claims \ torn.claims /\ reconciliation \notin OnDisk
                   /\ Take(s, reconciliation)
                \/ /\ primary \in OnDisk
                   /\ primary \in torn.claims \/ reconciliation \in OnDisk
                   /\ UNCHANGED <<pc, lock, local>>
    /\ UNCHANGED <<plan, files, runs, crashes>>

\* The first group of the plan that may be invoked and has not been in this
\* call.  Its attempt is claimed already when an earlier call died or raised
\* in it: then one reconciliation of the same session is claimed, and when
\* that was claimed too, the call ends without an author run.
Select(s) ==
    /\ pc[s] = "select"
    /\ \E i \in Invocable(mem[s], attempted[s]) :
         /\ \A j \in Invocable(mem[s], attempted[s]) : i <= j
         /\ LET primary == File(mem[s], PlanOrder[i], "primary")
                reconciliation == File(mem[s], PlanOrder[i], "reconciliation")
            IN  \/ primary \notin OnDisk /\ Take(s, primary)
                \/ /\ primary \in claims \ torn.claims /\ reconciliation \notin OnDisk
                   /\ Take(s, reconciliation)
                \/ /\ primary \in OnDisk
                   /\ primary \in torn.claims \/ reconciliation \in OnDisk
                   /\ Leave(s)
    /\ UNCHANGED <<plan, files, runs, crashes>>

\* The claim is on disk before the checkpoint, the checkpoint before the run.
WriteClaim(s) ==
    /\ pc[s] = "claim"
    /\ claims' = claims \cup {Claim(job[s])}
    /\ Goto(s, "mark")
    /\ UNCHANGED <<plan, ckpt, forked, torn, done, lock, local, runs, crashes>>

Marked(state, j) ==
    [gen |-> state.gen + 1, status |-> [state.status EXCEPT ![j.g] = "invoking"],
     count |-> state.count, active |-> [state.active EXCEPT ![j.g] = j.n], docs |-> state.docs]
Mark(s) ==
    /\ pc[s] = "mark"
    /\ Extend(s, Marked(mem[s], job[s]))
    /\ Adopt(s) /\ Goto(s, "invoke")
    /\ UNCHANGED <<plan, claims, torn, done, lock, attempted, job, runs, crashes>>

Invoke(s) ==
    /\ pc[s] = "invoke"
    /\ runs' = [runs EXCEPT ![Claim(job[s])] = @ + 1]
    /\ Goto(s, "author")
    /\ UNCHANGED <<plan, files, lock, local, crashes>>

\* The author run comes back, or raises and ends the call.
AuthorReturns(s, out) ==
    /\ pc[s] = "author"
    /\ job' = [job EXCEPT ![s].out = out]
    /\ Goto(s, "settle")
    /\ UNCHANGED <<plan, files, lock, mem, attempted, runs, crashes>>

AuthorRaises(s) ==
    /\ pc[s] = "author" /\ crashes < MaxCrashes
    /\ crashes' = crashes + 1 /\ Leave(s)
    /\ UNCHANGED <<plan, files, runs>>

-----------------------------------------------------------------------------
\* Faulty variant: the run started from the source documents.
DocumentsFromSource(state, j) ==
    IF j.out = "accepted" THEN {{j.g}} ELSE {{}}

\* The groups whose repairs a merge of j's may regenerate or remove.  Two
\* groups that may run share no problem, until a problem-mining repair merges
\* problems; the author of a later stage leaves problem_mining as it is.
Overlapping(state, j) ==
    IF j.g \in MinerGroups THEN Groups
    ELSE IF state.docs \cap MinerGroups # {} THEN Groups \ MinerGroups ELSE {}

\* What the documents may contain after the run of j: an accepted repair is
\* merged in and the stages downstream of it are regenerated for its problems;
\* the provider may ask to wait before that, or in the middle of it.
Documents(state, j) ==
    LET merged == {(state.docs \ lost) \cup {j.g} : lost \in SUBSET Overlapping(state, j)}
    IN  CASE j.out = "accepted" -> merged
          [] j.out = "external_wait" -> merged \cup {state.docs}
          [] OTHER -> {state.docs}

\* The attempt is over, whatever came of it; the runtime it returned is the
\* current one.
Settled(state, j, documents) ==
    [gen |-> state.gen + 1,
     status |-> [state.status EXCEPT ![j.g] =
                   IF j.out = "external_wait" THEN "repairable_paused" ELSE j.out],
     count |-> [state.count EXCEPT ![j.g] = j.n],
     active |-> [state.active EXCEPT ![j.g] = 0],
     docs |-> documents]

\* _qualification_scheduler_apply_current_causal_plan: groups that the plan
\* after an accepted problem-mining repair retains are held back for good.
Replanned(state, retained) ==
    [state EXCEPT !.status = [g \in Groups |->
        IF g \in retained /\ state.status[g] \notin {"accepted", "terminal_nonprogress"}
        THEN "retained_pending_causal_predecessor" ELSE state.status[g]]]

Settle(s) ==
    /\ pc[s] = "settle"
    /\ \E documents \in Documents(mem[s], job[s]) :
         LET j == job[s]
             after == Settled(mem[s], j, documents)
         IN  IF j.out = "accepted" /\ j.g \in MinerGroups
             THEN \E retained \in SUBSET (Groups \ {j.g, PlanOrder[1]}) :
                    Extend(s, Replanned(after, retained))
             ELSE Extend(s, after)
    /\ IF job[s].out = "external_wait" THEN Leave(s)
       ELSE /\ Adopt(s) /\ attempted' = [attempted EXCEPT ![s] = @ \cup {job[s].g}]
            /\ Goto(s, "select") /\ UNCHANGED <<lock, job>>
    /\ UNCHANGED <<plan, claims, torn, done, runs, crashes>>

\* Faulty variant: only what this scheduler may still invoke is pending.
PendingActive(state) ==
    \E g \in Groups : state.status[g] \in {"pending_invocation", "invoking", "repairable_paused"}

\* _qualification_scheduler_has_pending
Pending(state) ==
    \E g \in Groups : state.status[g] \notin {"accepted", "terminal_nonprogress"}

\* No group is left for this call: the repairs are materialised, and the
\* completion is written when nothing is pending.
Finish(s) ==
    /\ pc[s] = "select" /\ Invocable(mem[s], attempted[s]) = {}
    /\ IF Pending(mem[s]) THEN Leave(s) ELSE Goto(s, "complete") /\ UNCHANGED <<lock, local>>
    /\ UNCHANGED <<plan, files, runs, crashes>>

Complete(s) ==
    /\ pc[s] = "complete"
    /\ done' = TRUE /\ Leave(s)
    /\ UNCHANGED <<plan, ckpt, forked, claims, torn, runs, crashes>>

\* The process dies: the lock is free, and the file it was writing may be cut
\* short.  A claim cut short is a claim that cannot be read.
CutShort(s) ==
    CASE pc[s] \in {"root", "mark", "settle"} -> [torn EXCEPT !.checkpoint = TRUE]
      [] pc[s] = "claim" -> [torn EXCEPT !.claims = @ \cup {Claim(job[s])}]
      [] pc[s] = "complete" -> [torn EXCEPT !.completion = TRUE]
      [] OTHER -> torn
Crash(s) ==
    /\ pc[s] # "idle" /\ crashes < MaxCrashes
    /\ crashes' = crashes + 1 /\ Leave(s)
    /\ torn' \in {torn, CutShort(s)}
    /\ UNCHANGED <<plan, ckpt, forked, claims, done, runs>>

Step(s) ==
    \/ Open(s) \/ OpenEnds(s) \/ WriteRoot(s) \/ Select(s) \/ WriteClaim(s) \/ Mark(s)
    \/ Invoke(s) \/ (\E out \in Outcomes : AuthorReturns(s, out)) \/ Settle(s)
    \/ Finish(s) \/ Complete(s)

Next == \E s \in Scorers : Acquire(s) \/ Step(s) \/ AuthorRaises(s) \/ Crash(s)

Spec == Init /\ [][Next]_vars /\ \A s \in Scorers : WF_vars(Step(s))
-----------------------------------------------------------------------------
Statuses == {"pending_invocation", "invoking", "repairable_paused", "terminal_nonprogress",
             "retained_pending_causal_predecessor", "retained_pending_not_invoked", "accepted"}
Concluded == {"accepted", "terminal_nonprogress", "retained_pending_causal_predecessor"}
States == [gen : Int, status : [Groups -> Statuses \cup {"none"}], count : [Groups -> 0..MaxAttempts],
           active : [Groups -> 0..MaxAttempts], docs : SUBSET Groups]
Jobs == [g : Groups, n : 1..MaxAttempts, kind : Kinds, out : Outcomes]

TypeOK ==
    /\ plan \in [Groups -> Routes]
    /\ ckpt \in States /\ mem \in [Scorers -> States]
    /\ forked \in BOOLEAN /\ done \in BOOLEAN
    /\ claims \subseteq Claims /\ torn \in [checkpoint : BOOLEAN, completion : BOOLEAN, claims : SUBSET Claims]
    /\ lock \in Scorers \cup {NoScorer}
    /\ pc \in [Scorers -> {"idle", "open", "root", "select", "claim", "mark", "invoke", "author",
                           "settle", "complete"}]
    /\ attempted \in [Scorers -> SUBSET Groups]
    /\ job \in [Scorers -> Jobs]
    /\ runs \in [Claims -> Nat] /\ crashes \in Nat

\* "without ... a duplicate fresh author invocation": a claim is good for one
\* author run, whoever dies where and whichever scorers call at once, and
\* however often an attempt is abandoned, no later one is run before a
\* checkpoint has settled it.
NoDuplicateRun ==
    \A c \in Claims :
        /\ runs[c] <= 1
        /\ runs[c] > 0 => c.n <= ckpt.count[c.g] + 1

\* Concurrent and repeated calls never leave two checkpoints of one parent,
\* which no later call would read past.
ChainIsLinear == ~forked

\* A group that is accepted, at an end, or held back because an accepted
\* upstream repair made it stale stays so: its author is never run again.
ConcludedForGood ==
    [][\A g \in Groups : ckpt.status[g] \in Concluded => ckpt'.status[g] = ckpt.status[g]]_vars

\* A group that becomes accepted has its repair in the current documents, and
\* across calls, crashes, waits and scorers no repair leaves them, unless a
\* problem-mining repair, which may merge problems, is in them.
RepairsAccumulate ==
    [][\A g \in Groups :
        /\ (ckpt.status[g] # "accepted" /\ ckpt'.status[g] = "accepted") => g \in ckpt'.docs
        /\ g \in ckpt.docs \ ckpt'.docs => ckpt'.docs \cap MinerGroups # {}]_vars

\* A completion, which every later call reuses, is written only when every
\* group is accepted or at an end.
CompletionIsTerminal ==
    done => \A g \in Groups : ckpt.status[g] \in {"accepted", "terminal_nonprogress"}

\* Every call comes to an end, provided author runs do.
CallEnds == \A s \in Scorers : pc[s] = "open" ~> pc[s] = "idle"
=============================================================================
