--------------------- MODULE CorrectionSchedulerProofs ---------------------
(***************************************************************************)
(* Proofs about the correction scheduler, for any number of scorers and     *)
(* groups, any plan and any number of crashes.                              *)
(***************************************************************************)
EXTENDS CorrectionScheduler, TLAPS

Attempting == {"claim", "mark", "invoke", "author", "settle"}

(* One call at a time, working from the last checkpoint of the chain. *)
Exclusive ==
  /\ \A s \in Scorers : pc[s] # "idle" => lock = s
  /\ \A s \in Scorers : pc[s] \in {"idle", "open"} => mem[s] = NoCheckpoint /\ attempted[s] = {}
  /\ \A s \in Scorers : pc[s] \notin {"idle", "open"} => mem[s] = ckpt
  /\ ckpt.gen < 0 => ckpt = NoCheckpoint
  /\ \A s \in Scorers : pc[s] = "root" => ckpt = NoCheckpoint
  /\ ~forked

(* The attempt in hand is the one after those that were settled. *)
Numbered ==
  /\ \A g \in Groups : ckpt.active[g] \in {0, ckpt.count[g] + 1}
  /\ \A s \in Scorers : pc[s] # "idle" =>
        \A g \in Groups \ attempted[s] : ckpt.count[g] < MaxAttempts
  /\ \A s \in Scorers : pc[s] \in Attempting =>
        job[s].n = ckpt.count[job[s].g] + 1 /\ job[s].g \notin attempted[s]

(* A run is claimed first, and by one claim only. *)
Claimed ==
  /\ \A c \in Claims : runs[c] > 0 => c \in claims /\ c.n <= ckpt.count[c.g] + 1
  /\ \A s \in Scorers : pc[s] = "claim" => Claim(job[s]) \notin claims
  /\ \A s \in Scorers : pc[s] \in {"mark", "invoke"} =>
        Claim(job[s]) \in claims /\ runs[Claim(job[s])] = 0
  /\ \A c \in Claims : runs[c] <= 1

(* What the checkpoint says of the groups. *)
Recorded ==
  /\ \A s \in Scorers : pc[s] \in {"claim", "mark"} => ckpt.status[job[s].g] \notin Concluded
  /\ \A s \in Scorers : pc[s] \in {"invoke", "author", "settle"} => ckpt.status[job[s].g] = "invoking"
  /\ CompletionIsTerminal
  /\ \A s \in Scorers : pc[s] = "complete" => ~Pending(ckpt)
  /\ done => \A s \in Scorers : pc[s] \in {"idle", "open"}

SchedulerInv == TypeOK /\ Exclusive /\ Numbered /\ Claimed /\ Recorded

(* The operators the checkpoints are built with keep their types, and say   *)
(* what they change (staged.py:3459-3523 and 4100-4290).                    *)
LEMMA StateTypes ==
  /\ NoCheckpoint \in States /\ NoJob \in Jobs
  /\ plan \in [Groups -> Routes] => Root \in States
<1> USE SchedulerAssumption DEF SchedulerAssumption
<1>1. PlanOrder[1] \in Groups
  OBVIOUS
<1>2. NoCheckpoint \in States
  BY DEF NoCheckpoint, Untouched, States, Statuses
<1>3. NoJob \in Jobs
  BY <1>1 DEF NoJob, Jobs, Kinds, Outcomes
<1>4. ASSUME plan \in [Groups -> Routes] PROVE Root \in States
  <2>1. [g \in Groups |-> InitialStatus[plan[g]]] \in [Groups -> Statuses \cup {"none"}]
    BY <1>4 DEF Routes, InitialStatus, Statuses
  <2> QED
    BY <2>1 DEF Root, Untouched, States
<1> QED
  BY <1>2, <1>3, <1>4

(* A call that ends leaves the files as they are, and every part of the     *)
(* invariant with them (staged.py:3849-3901, 4356-4379).                    *)
LEMMA LeaveKeeps ==
  ASSUME SchedulerInv, NEW s \in Scorers, Leave(s), pc[s] # "idle",
         UNCHANGED <<plan, ckpt, forked, claims, done, runs>>,
         torn' \in [checkpoint : BOOLEAN, completion : BOOLEAN, claims : SUBSET Claims],
         crashes' \in Nat
  PROVE  SchedulerInv'
<1> USE SchedulerAssumption, StateTypes DEF SchedulerAssumption
<1> USE DEF SchedulerInv, Leave, Goto
<1>1. TypeOK'
  BY DEF TypeOK
<1>2. \A t \in Scorers : pc'[t] = "idle"
  BY DEF Exclusive, TypeOK
<1>3. Exclusive'
  BY <1>2 DEF Exclusive, TypeOK
<1>4. Numbered'
  BY <1>2 DEF Numbered, TypeOK, Attempting
<1>5. Claimed'
  BY <1>2 DEF Claimed, TypeOK
<1>6. Recorded'
  BY <1>2 DEF Recorded, TypeOK, CompletionIsTerminal
<1> QED
  BY <1>1, <1>3, <1>4, <1>5, <1>6

(* The scheduler starts with the invariant (staged.py:3459-3523).           *)
LEMMA InitKeeps == Init => SchedulerInv
<1> SUFFICES ASSUME Init PROVE SchedulerInv
  OBVIOUS
<1> USE SchedulerAssumption, StateTypes DEF SchedulerAssumption, Init
<1>1. TypeOK
  BY DEF TypeOK
<1>2. Exclusive
  BY DEF Exclusive, NoCheckpoint, Untouched
<1>3. Numbered
  BY DEF Numbered, NoCheckpoint, Untouched, Attempting
<1>4. Claimed
  BY DEF Claimed
<1>5. Recorded
  BY DEF Recorded, CompletionIsTerminal, NoCheckpoint, Untouched
<1> QED
  BY <1>1, <1>2, <1>3, <1>4, <1>5 DEF SchedulerInv

(* Marking an attempt changes the status and the active attempt of its group *)
(* (staged.py:4093-4115).                                                   *)
LEMMA MarkTypes ==
  ASSUME NEW c \in States, NEW j \in Jobs
  PROVE  Marked(c, j) \in States
BY SchedulerAssumption, SMTT(30) DEF SchedulerAssumption, States, Statuses, Marked, Jobs

(* A run returns documents of the groups, which hold its repair when it was  *)
(* accepted and lack one they held only beside a problem-mining repair       *)
(* (qualification_repair_runtime.py:1636-2034).                             *)
LEMMA DocumentTypes ==
  ASSUME NEW c \in States, NEW j \in Jobs, NEW d \in Documents(c, j)
  PROVE  /\ d \in SUBSET Groups
         /\ j.out = "accepted" => j.g \in d
         /\ \A g \in c.docs \ d : d \cap MinerGroups # {}
<1>1. c.docs \in SUBSET Groups /\ j.g \in Groups
  BY DEF States, Jobs
<1>2. CASE d = c.docs /\ j.out # "accepted"
  BY <1>1, <1>2
<1>3. ASSUME NEW lost \in SUBSET Overlapping(c, j), d = (c.docs \ lost) \cup {j.g}
      PROVE  /\ d \in SUBSET Groups /\ j.g \in d
             /\ \A g \in c.docs \ d : d \cap MinerGroups # {}
  <2>1. d \in SUBSET Groups /\ j.g \in d
    BY <1>1, <1>3
  <2>2. ASSUME NEW g \in c.docs \ d PROVE d \cap MinerGroups # {}
    <3>1. g \in Overlapping(c, j)
      BY <1>3, <2>2
    <3>2. CASE j.g \in MinerGroups
      BY <2>1, <3>2
    <3>3. CASE j.g \notin MinerGroups
      <4>1. c.docs \cap MinerGroups # {} /\ Overlapping(c, j) = Groups \ MinerGroups
        BY <3>1, <3>3 DEF Overlapping
      <4>2. PICK m \in c.docs : m \in MinerGroups
        BY <4>1
      <4>3. m \in d
        BY <1>3, <4>1, <4>2
      <4> QED BY <4>2, <4>3
    <3> QED BY <3>2, <3>3
  <2> QED BY <2>1, <2>2
<1>4. \/ d = c.docs /\ j.out # "accepted"
      \/ \E lost \in SUBSET Overlapping(c, j) : d = (c.docs \ lost) \cup {j.g}
  BY DEF Documents
<1> QED
  BY <1>2, <1>3, <1>4

(* Settling an attempt changes its count, its status and the documents      *)
(* (staged.py:4175-4271).                                                   *)
LEMMA SettleTypes ==
  ASSUME NEW c \in States, NEW j \in Jobs, NEW d \in SUBSET Groups
  PROVE  Settled(c, j, d) \in States
BY SchedulerAssumption, SMTT(30)
DEF SchedulerAssumption, States, Statuses, Settled, Jobs, Outcomes

(* A later plan changes only the statuses of the groups it retains           *)
(* (staged.py:3582-3626).                                                   *)
LEMMA ReplanTypes ==
  ASSUME NEW c \in States, NEW R \in SUBSET Groups
  PROVE  /\ Replanned(c, R) \in States
         /\ Replanned(c, R).gen = c.gen /\ Replanned(c, R).count = c.count
         /\ Replanned(c, R).active = c.active /\ Replanned(c, R).docs = c.docs
         /\ \A g \in Groups : Replanned(c, R).status[g] =
              IF g \in R /\ c.status[g] \notin {"accepted", "terminal_nonprogress"}
              THEN "retained_pending_causal_predecessor" ELSE c.status[g]
<1> DEFINE f == [g \in Groups |->
              IF g \in R /\ c.status[g] \notin {"accepted", "terminal_nonprogress"}
              THEN "retained_pending_causal_predecessor" ELSE c.status[g]]
<1>1. f \in [Groups -> Statuses \cup {"none"}]
  BY DEF States, Statuses
<1>2. Replanned(c, R) = [c EXCEPT !.status = f]
  BY DEF Replanned
<1> HIDE DEF f
<1>3. [c EXCEPT !.status = f] \in States
  BY <1>1 DEF States
<1>4. [c EXCEPT !.status = f].status = f /\ [c EXCEPT !.status = f].gen = c.gen
      /\ [c EXCEPT !.status = f].count = c.count /\ [c EXCEPT !.status = f].docs = c.docs
      /\ [c EXCEPT !.status = f].active = c.active
  BY DEF States
<1> QED
  BY <1>2, <1>3, <1>4 DEF f

(* A claim is named by the group and the number of its attempt, whatever the *)
(* outcome (staged.py:4028-4042).                                           *)
LEMMA ClaimTypes ==
  ASSUME NEW j \in Jobs
  PROVE  /\ Claim(j) \in Claims /\ Claim(j).g = j.g /\ Claim(j).n = j.n
         /\ \A out \in Outcomes : [j EXCEPT !.out = out] \in Jobs
         /\ \A out \in Outcomes : [j EXCEPT !.out = out].g = j.g
         /\ \A out \in Outcomes : [j EXCEPT !.out = out].n = j.n
BY DEF Jobs, Claims, Claim

(* The steps that write no checkpoint keep the invariant.                    *)
LEMMA QuietKeeps ==
  ASSUME SchedulerInv, NEW s \in Scorers,
         Acquire(s) \/ Open(s) \/ WriteClaim(s) \/ Invoke(s)
           \/ (\E out \in Outcomes : AuthorReturns(s, out))
  PROVE  SchedulerInv'
<1> USE SchedulerAssumption, StateTypes DEF SchedulerAssumption, SchedulerInv, Goto, files, local
<1>0. \A t \in Scorers \ {s} : pc[t] = "idle"
  BY DEF Exclusive, TypeOK, Acquire, Open, WriteClaim, Invoke, AuthorReturns
<1>1. CASE Acquire(s)
  <2> USE <1>1 DEF Acquire
  <2>1. TypeOK'
    BY <1>0 DEF TypeOK, Jobs, Claims, Claim, Kinds
  <2>2. Exclusive'
    BY <1>0 DEF TypeOK, Exclusive
  <2>3. Numbered'
    BY <1>0 DEF TypeOK, Exclusive, Numbered, Attempting
  <2>4. Claimed'
    BY <1>0 DEF TypeOK, Exclusive, Claimed, Numbered, Attempting
  <2>5. Recorded'
    BY <1>0 DEF TypeOK, Exclusive, Recorded, CompletionIsTerminal
  <2> QED
    BY <2>1, <2>2, <2>3, <2>4, <2>5
<1>2. CASE Open(s)
  <2>1. /\ pc[s] = "open"
        /\ \/ ckpt.gen >= 0 /\ mem' = [mem EXCEPT ![s] = ckpt] /\ pc' = [pc EXCEPT ![s] = "select"]
           \/ ~(ckpt.gen >= 0) /\ mem' = mem /\ pc' = [pc EXCEPT ![s] = "root"]
        /\ UNCHANGED <<plan, ckpt, forked, claims, torn, done, lock, attempted, job, runs, crashes>>
        /\ ~done
    BY <1>2 DEF Open
  <2>2. /\ pc' \in [Scorers -> {"idle", "open", "root", "select"}]
        /\ pc'[s] \in {"select", "root"} /\ \A t \in Scorers \ {s} : pc'[t] = "idle"
        /\ mem' \in [Scorers -> States]
    <3>1. mem \in [Scorers -> States] /\ ckpt \in States /\ DOMAIN pc = Scorers
          /\ \A f : pc' = [pc EXCEPT ![s] = f] => \A t \in Scorers : pc'[t] = IF t = s THEN f ELSE pc[t]
      BY DEF TypeOK
    <3>2. mem' \in [Scorers -> States]
      BY <2>1, <3>1
    <3>3. \A t \in Scorers : pc'[t] = IF t = s THEN pc'[s] ELSE "idle"
      BY <1>0, <2>1, <3>1
    <3>4. pc'[s] \in {"select", "root"}
      BY <2>1, <3>1
    <3>5. DOMAIN pc' = Scorers /\ pc' = [t \in Scorers |-> pc'[t]]
      BY <2>1 DEF TypeOK
    <3> QED
      BY <3>2, <3>3, <3>4, <3>5
  <2>3. TypeOK'
    BY <2>1, <2>2 DEF TypeOK
  <2>4. Exclusive'
    <3>1. \A t \in Scorers \ {s} : mem'[t] = NoCheckpoint /\ attempted[t] = {}
      BY <1>0, <2>1 DEF Exclusive, TypeOK
    <3>2. lock = s
      BY <2>1 DEF Exclusive
    <3>3. CASE ckpt.gen >= 0
      <4>1. ckpt.gen \in Int
        BY DEF TypeOK, States
      <4>2. mem'[s] = ckpt /\ pc'[s] = "select" /\ ~(ckpt.gen < 0)
        BY <2>1, <3>3, <4>1 DEF TypeOK
      <4> QED
        BY <2>1, <2>2, <3>1, <3>2, <4>2 DEF Exclusive
    <3>4. CASE ~(ckpt.gen >= 0)
      <4>1. ckpt.gen \in Int
        BY DEF TypeOK, States
      <4>2. ckpt = NoCheckpoint
        BY <3>4, <4>1 DEF Exclusive
      <4>3. mem'[s] = NoCheckpoint
        BY <2>1, <3>4 DEF Exclusive
      <4> QED
        BY <2>1, <2>2, <3>1, <3>2, <4>2, <4>3 DEF Exclusive
    <3> QED
      BY <3>3, <3>4
  <2>5. Numbered'
    BY <2>1, <2>2 DEF Numbered, Attempting
  <2>6. Claimed'
    BY <2>1, <2>2 DEF Claimed
  <2>7. Recorded'
    BY <2>1, <2>2 DEF Recorded, CompletionIsTerminal
  <2> QED
    BY <2>3, <2>4, <2>5, <2>6, <2>7
<1>3. CASE WriteClaim(s)
  <2> USE <1>3 DEF WriteClaim
  <2>0. job[s] \in Jobs /\ Claim(job[s]) \in Claims /\ Claim(job[s]).g = job[s].g
        /\ Claim(job[s]).n = job[s].n
    BY ClaimTypes DEF TypeOK
  <2>1. TypeOK'
    BY <1>0, <2>0 DEF TypeOK
  <2>2. Exclusive'
    BY <1>0 DEF TypeOK, Exclusive
  <2>3. Numbered'
    BY <1>0 DEF TypeOK, Exclusive, Numbered, Attempting
  <2>4. Claimed'
    BY <1>0, <2>0 DEF TypeOK, Exclusive, Claimed, Numbered, Attempting
  <2>5. Recorded'
    BY <1>0 DEF TypeOK, Exclusive, Recorded, CompletionIsTerminal
  <2> QED
    BY <2>1, <2>2, <2>3, <2>4, <2>5
<1>4. CASE Invoke(s)
  <2> USE <1>4 DEF Invoke
  <2>0. job[s] \in Jobs /\ Claim(job[s]) \in Claims /\ Claim(job[s]).g = job[s].g
        /\ Claim(job[s]).n = job[s].n
    BY ClaimTypes DEF TypeOK
  <2>1. TypeOK'
    BY <1>0, <2>0 DEF TypeOK
  <2>2. Exclusive'
    BY <1>0 DEF TypeOK, Exclusive
  <2>3. Numbered'
    BY <1>0 DEF TypeOK, Exclusive, Numbered, Attempting
  <2>4. Claimed'
    <3>0. runs[Claim(job[s])] = 0
      BY DEF Claimed
    <3>1. runs' = [runs EXCEPT ![Claim(job[s])] = 1]
      BY <2>0, <3>0 DEF TypeOK
    <3>2. job[s].n = ckpt.count[job[s].g] + 1 /\ Claim(job[s]) \in claims
      BY DEF Numbered, Attempting, Claimed
    <3>3. \A t \in Scorers : pc'[t] \notin {"claim", "mark", "invoke"}
      BY <1>0 DEF TypeOK
    <3>4. \A c \in Claims : runs'[c] = IF c = Claim(job[s]) THEN 1 ELSE runs[c]
      BY <3>1 DEF TypeOK
    <3>5. \A c \in Claims : runs'[c] > 0 => c \in claims /\ c.n <= ckpt.count[c.g] + 1
      <4> SUFFICES ASSUME NEW c \in Claims, runs'[c] > 0
                   PROVE  c \in claims /\ c.n <= ckpt.count[c.g] + 1
        OBVIOUS
      <4>1. CASE c = Claim(job[s])
        <5>1. c.g = job[s].g /\ c.n = job[s].n /\ c.n \in Nat
          BY <4>1, <2>0 DEF Claims
        <5> QED
          BY <4>1, <5>1, <3>2
      <4>2. CASE c # Claim(job[s])
        BY <4>2, <3>4 DEF Claimed
      <4> QED
        BY <4>1, <4>2
    <3>6. \A c \in Claims : runs'[c] <= 1
      BY <3>4 DEF Claimed
    <3> QED
      BY <3>3, <3>5, <3>6 DEF Claimed
  <2>5. Recorded'
    BY <1>0 DEF TypeOK, Exclusive, Recorded, CompletionIsTerminal
  <2> QED
    BY <2>1, <2>2, <2>3, <2>4, <2>5
<1>5. CASE \E out \in Outcomes : AuthorReturns(s, out)
  <2> USE <1>5 DEF AuthorReturns
  <2>0. job[s] \in Jobs /\ Claim(job[s]) \in Claims /\ Claim(job[s]).g = job[s].g
        /\ Claim(job[s]).n = job[s].n
    BY ClaimTypes DEF TypeOK
  <2>1. TypeOK'
    <3>1. job' \in [Scorers -> Jobs]
      <4>1. PICK out \in Outcomes : job' = [job EXCEPT ![s] = [job[s] EXCEPT !.out = out]]
        BY DEF TypeOK
      <4> QED
        BY <4>1, <2>0, ClaimTypes DEF TypeOK
    <3> QED
      BY <3>1 DEF TypeOK
  <2>2. Exclusive'
    BY <1>0 DEF TypeOK, Exclusive
  <2>3. Numbered'
    BY <1>0 DEF TypeOK, Exclusive, Numbered, Attempting
  <2>4. Claimed'
    BY <1>0, <2>0 DEF TypeOK, Exclusive, Claimed, Numbered, Attempting
  <2>5. Recorded'
    BY <1>0 DEF TypeOK, Exclusive, Recorded, CompletionIsTerminal
  <2> QED
    BY <2>1, <2>2, <2>3, <2>4, <2>5
<1> QED
  BY <1>1, <1>2, <1>3, <1>4, <1>5

(* Choosing an attempt: it is numbered after the settled ones, its claim is  *)
(* new, and its group may still be invoked (staged.py:3996-4091).           *)
LEMMA TakeKeeps ==
  ASSUME SchedulerInv, NEW s \in Scorers, pc[s] = "select",
         NEW g \in Groups, g \notin attempted[s], ckpt.status[g] \notin Concluded,
         NEW k \in Kinds, NEW c, c = File(mem[s], g, k), c \notin claims,
         Take(s, c), UNCHANGED <<plan, files, runs, crashes>>
  PROVE  SchedulerInv'
<1> USE SchedulerAssumption DEF SchedulerAssumption, SchedulerInv, Goto, Take, files
<1>0. \A t \in Scorers \ {s} : pc[t] = "idle"
  BY DEF Exclusive, TypeOK
<1>1. ckpt \in States /\ mem[s] = ckpt
  BY DEF TypeOK, Exclusive
<1>2. c = [g |-> g, n |-> ckpt.count[g] + 1, kind |-> k]
  <2>1. Number(ckpt, g) = ckpt.count[g] + 1
    BY <1>1 DEF Number, Numbered, States
  <2> QED
    BY <1>1, <2>1 DEF File
<1>3. ckpt.count[g] + 1 \in 1..MaxAttempts
  <2>1. ckpt.count[g] \in 0..MaxAttempts
    BY <1>1 DEF States
  <2>2. ckpt.count[g] < MaxAttempts
    BY DEF Numbered
  <2> QED
    BY <2>1, <2>2
<1> DEFINE j == [g |-> g, n |-> ckpt.count[g] + 1, kind |-> k, out |-> "accepted"]
<1>4. j \in Jobs /\ Claim(j) = c
  BY <1>2, <1>3 DEF Jobs, Kinds, Outcomes, Claim
<1>5. job' = [job EXCEPT ![s] = j] /\ j.g = g /\ j.n = ckpt.count[g] + 1
  BY <1>2
<1> HIDE DEF j
<1>6. TypeOK'
  BY <1>4, <1>5 DEF TypeOK
<1>7. Exclusive'
  BY <1>0 DEF Exclusive, TypeOK
<1>8. Numbered'
  BY <1>0, <1>5 DEF Numbered, TypeOK, Attempting
<1>9. Claimed'
  BY <1>0, <1>4, <1>5 DEF Claimed, TypeOK
<1>10. Recorded'
  BY <1>0, <1>5 DEF Recorded, TypeOK, CompletionIsTerminal
<1> QED
  BY <1>6, <1>7, <1>8, <1>9, <1>10

(* The steps that end a call, or go on to the completion, and the choice of  *)
(* the next attempt.                                                        *)
LEMMA CallKeeps ==
  ASSUME SchedulerInv, NEW s \in Scorers,
         OpenEnds(s) \/ Select(s) \/ AuthorRaises(s) \/ Finish(s) \/ Crash(s)
  PROVE  SchedulerInv'
<1> USE SchedulerAssumption DEF SchedulerAssumption
<1>0. /\ torn \in [checkpoint : BOOLEAN, completion : BOOLEAN, claims : SUBSET Claims]
      /\ crashes \in Nat /\ job[s] \in Jobs
      /\ \A t \in Scorers \ {s} : pc[s] # "idle" => pc[t] = "idle"
  BY DEF SchedulerInv, TypeOK, Exclusive
<1>1. CASE OpenEnds(s)
  BY <1>0, <1>1, LeaveKeeps DEF OpenEnds, files
<1>2. CASE Select(s)
  <2>1. mem[s] = ckpt
    BY <1>2 DEF SchedulerInv, Exclusive, Select
  <2>2. PICK i \in Invocable(mem[s], attempted[s]) :
          \/ /\ File(mem[s], PlanOrder[i], "primary") \notin OnDisk
             /\ Take(s, File(mem[s], PlanOrder[i], "primary"))
          \/ /\ File(mem[s], PlanOrder[i], "reconciliation") \notin OnDisk
             /\ Take(s, File(mem[s], PlanOrder[i], "reconciliation"))
          \/ Leave(s)
    BY <1>2 DEF Select
  <2>3. pc[s] = "select" /\ UNCHANGED <<plan, files, runs, crashes>>
    BY <1>2 DEF Select
  <2>4. /\ PlanOrder[i] \in Groups /\ PlanOrder[i] \notin attempted[s]
        /\ ckpt.status[PlanOrder[i]] \notin Concluded
    BY <2>1 DEF Invocable, Concluded
  <2>5. CASE Leave(s)
    BY <2>3, <2>5, <1>0, LeaveKeeps DEF files
  <2>6. ASSUME NEW k \in Kinds, File(mem[s], PlanOrder[i], k) \notin OnDisk,
               Take(s, File(mem[s], PlanOrder[i], k))
        PROVE  SchedulerInv'
    <3>1. File(mem[s], PlanOrder[i], k) \notin claims
      BY <2>6 DEF OnDisk
    <3> QED
      BY <2>3, <2>4, <2>6, <3>1, TakeKeeps
  <2> QED
    BY <2>2, <2>5, <2>6 DEF Kinds
<1>3. CASE AuthorRaises(s)
  BY <1>0, <1>3, LeaveKeeps DEF AuthorRaises, files
<1>4. CASE Finish(s)
  <2>1. CASE Leave(s)
    BY <1>0, <1>4, <2>1, LeaveKeeps DEF Finish, files
  <2>2. CASE ~Pending(mem[s]) /\ Goto(s, "complete") /\ UNCHANGED <<lock, local>>
    <3> USE <1>0, <1>4, <2>2 DEF SchedulerInv, Finish, Goto, files, local
    <3>1. TypeOK'
      BY DEF TypeOK
    <3>2. Exclusive'
      BY DEF Exclusive, TypeOK
    <3>3. Numbered'
      BY DEF Numbered, TypeOK, Attempting
    <3>4. Claimed'
      BY DEF Claimed, TypeOK
    <3>5. ~Pending(ckpt)
      BY DEF Exclusive
    <3>6. Recorded'
      BY <3>5 DEF Recorded, TypeOK, CompletionIsTerminal, Pending
    <3> QED
      BY <3>1, <3>2, <3>3, <3>4, <3>6
  <2> QED
    BY <1>4, <2>1, <2>2 DEF Finish
<1>5. CASE Crash(s)
  <2>1. CutShort(s) \in [checkpoint : BOOLEAN, completion : BOOLEAN, claims : SUBSET Claims]
    <3>1. Claim(job[s]) \in Claims
      BY <1>0, ClaimTypes
    <3>2. torn.claims \cup {Claim(job[s])} \in SUBSET Claims
      BY <1>0, <3>1
    <3>3. ASSUME NEW C \in SUBSET Claims
          PROVE  [torn EXCEPT !.claims = C] \in
                    [checkpoint : BOOLEAN, completion : BOOLEAN, claims : SUBSET Claims]
      BY <1>0
    <3>4. /\ [torn EXCEPT !.checkpoint = TRUE] \in
                    [checkpoint : BOOLEAN, completion : BOOLEAN, claims : SUBSET Claims]
          /\ [torn EXCEPT !.completion = TRUE] \in
                    [checkpoint : BOOLEAN, completion : BOOLEAN, claims : SUBSET Claims]
      BY <1>0
    <3> QED
      BY <1>0, <3>2, <3>3, <3>4 DEF CutShort
  <2> QED
    BY <1>0, <1>5, <2>1, LeaveKeeps DEF Crash
<1> QED
  BY <1>1, <1>2, <1>3, <1>4, <1>5

(* The steps that write a file others read.                                  *)
LEMMA WriteKeeps ==
  ASSUME SchedulerInv, NEW s \in Scorers,
         WriteRoot(s) \/ Mark(s) \/ Settle(s) \/ Complete(s)
  PROVE  SchedulerInv'
<1> USE SchedulerAssumption DEF SchedulerAssumption, SchedulerInv, Goto, files
<1>0. /\ \A t \in Scorers \ {s} : pc[t] = "idle"
      /\ mem[s] = ckpt /\ ckpt \in States /\ ~forked
      /\ job[s] \in Jobs /\ Claim(job[s]) \in Claims
      /\ Claim(job[s]).g = job[s].g /\ Claim(job[s]).n = job[s].n
  BY ClaimTypes DEF Exclusive, TypeOK, WriteRoot, Mark, Settle, Complete
<1>1. CASE WriteRoot(s)
  <2> USE <1>0, <1>1 DEF WriteRoot, Extend, Adopt
  <2>1. ckpt' \in States /\ ckpt'.gen = 0 /\ ckpt'.docs = {} /\ ckpt = NoCheckpoint
        /\ \A g \in Groups : /\ ckpt'.status[g] # "accepted"
                             /\ ckpt'.count[g] = 0 /\ ckpt'.active[g] = 0 /\ ckpt.count[g] = 0
    BY StateTypes DEF Root, Untouched, InitialStatus, TypeOK, Exclusive, Routes, NoCheckpoint
  <2>2. TypeOK'
    BY <2>1 DEF TypeOK
  <2>3. Exclusive'
    BY <2>1 DEF Exclusive, TypeOK
  <2>4. Numbered'
    BY <2>1 DEF Numbered, TypeOK, Attempting
  <2>5. Claimed'
    BY <2>1 DEF Claimed, TypeOK, Claims
  <2>6. Recorded'
    BY <2>1, ZenonT(60) DEF Recorded, TypeOK, CompletionIsTerminal
  <2> QED
    BY <2>2, <2>3, <2>4, <2>5, <2>6
<1>2. CASE Mark(s)
  <2>0. /\ ckpt' = Marked(ckpt, job[s]) /\ forked' = FALSE
        /\ mem' = [mem EXCEPT ![s] = ckpt'] /\ pc' = [pc EXCEPT ![s] = "invoke"]
        /\ pc[s] = "mark"
        /\ UNCHANGED <<plan, claims, torn, done, lock, attempted, job, runs, crashes>>
    BY <1>0, <1>2 DEF Mark, Extend, Adopt
  <2>a. ckpt' \in States
    BY <1>0, <2>0, MarkTypes
  <2>1. /\ ckpt'.gen = ckpt.gen + 1
        /\ ckpt'.docs = ckpt.docs /\ ckpt'.count = ckpt.count
        /\ ckpt'.status = [ckpt.status EXCEPT ![job[s].g] = "invoking"]
        /\ ckpt'.active = [ckpt.active EXCEPT ![job[s].g] = job[s].n]
    BY <2>0 DEF Marked
  <2>b. /\ job[s].g \in Groups /\ job[s].n = ckpt.count[job[s].g] + 1
        /\ ckpt.count \in [Groups -> 0..MaxAttempts] /\ ckpt.active \in [Groups -> 0..MaxAttempts]
        /\ ckpt.status \in [Groups -> Statuses \cup {"none"}] /\ ckpt.gen \in Int
    BY <1>0, <2>0 DEF States, Jobs, Numbered, Attempting
  <2>c. \A g \in Groups :
          /\ ckpt'.status[g] = IF g = job[s].g THEN "invoking" ELSE ckpt.status[g]
          /\ ckpt'.active[g] = IF g = job[s].g THEN ckpt.count[g] + 1 ELSE ckpt.active[g]
          /\ ckpt'.count[g] = ckpt.count[g]
    BY <2>1, <2>b
  <2>d. ckpt'.gen \in Nat
    <3>1. ckpt.gen < 0 => ckpt.count[job[s].g] = 0 /\ ckpt.gen = -1
      BY <2>b DEF Exclusive, NoCheckpoint, Untouched
    <3> QED BY <3>1, <2>1, <2>b, SMTT(30)
  <2>e. /\ \A t \in Scorers : /\ pc'[t] = IF t = s THEN "invoke" ELSE "idle"
                              /\ mem'[t] = IF t = s THEN ckpt' ELSE NoCheckpoint
                              /\ t # s => attempted'[t] = {}
        /\ lock' = s /\ ~forked'
    <3>1. \A t \in Scorers \ {s} : mem[t] = NoCheckpoint /\ attempted[t] = {}
      BY <1>0 DEF Exclusive
    <3>2. lock = s
      BY <2>0 DEF Exclusive
    <3> QED BY <1>0, <2>0, <3>1, <3>2 DEF TypeOK
  <2>2. TypeOK'
    BY <2>0, <2>a DEF TypeOK
  <2>3. Exclusive'
    BY <2>0, <2>d, <2>e DEF Exclusive
  <2>4. Numbered'
    <3>1. \A g \in Groups : ckpt'.active[g] \in {0, ckpt'.count[g] + 1}
      BY <2>c DEF Numbered
    <3>2. \A t \in Scorers : pc'[t] # "idle" =>
             \A g \in Groups \ attempted'[t] : ckpt'.count[g] < MaxAttempts
      <4>1. \A g \in Groups \ attempted[s] : ckpt.count[g] < MaxAttempts
        BY <2>0 DEF Numbered
      <4> QED BY <2>0, <2>c, <2>e, <4>1
    <3>3. \A t \in Scorers : pc'[t] \in Attempting =>
             job'[t].n = ckpt'.count[job'[t].g] + 1 /\ job'[t].g \notin attempted'[t]
      BY <1>0, <2>0, <2>b, <2>c, SMTT(30) DEF Numbered, TypeOK, Attempting
    <3> QED BY <3>1, <3>2, <3>3 DEF Numbered
  <2>5. Claimed'
    BY <1>0, <2>0, <2>1 DEF Claimed, TypeOK
  <2>6. Recorded'
    <3>1. ~done
      BY <1>0, <2>0 DEF Recorded
    <3>2. \A t \in Scorers : pc'[t] = IF t = s THEN "invoke" ELSE "idle"
      BY <1>0, <2>0 DEF TypeOK
    <3> QED BY <2>0, <2>b, <2>c, <3>1, <3>2, SMTT(30) DEF Recorded, CompletionIsTerminal
  <2> QED
    BY <2>2, <2>3, <2>4, <2>5, <2>6
<1>4. CASE Complete(s)
  <2> USE <1>0, <1>4, StateTypes DEF Complete, Leave
  <2>2. TypeOK'
    BY DEF TypeOK
  <2>3. Exclusive'
    BY DEF Exclusive, TypeOK
  <2>4. Numbered'
    BY DEF Numbered, TypeOK, Attempting
  <2>5. Claimed'
    BY DEF Claimed, TypeOK
  <2>6. Recorded'
    BY DEF Recorded, TypeOK, CompletionIsTerminal, Pending
  <2> QED
    BY <2>2, <2>3, <2>4, <2>5, <2>6
<1>3. CASE Settle(s)
  <2> DEFINE j == job[s]
  <2>d. PICK d \in Documents(ckpt, j) :
            LET after == Settled(ckpt, j, d)
            IN  ckpt' = after \/ \E R \in SUBSET Groups : ckpt' = Replanned(after, R)
    BY <1>0, <1>3 DEF Settle, Extend
  <2>e. d \in SUBSET Groups
    BY <1>0, DocumentTypes
  <2> DEFINE after == Settled(ckpt, j, d)
             gone == /\ pc' = [pc EXCEPT ![s] = "idle"] /\ lock' = NoScorer
                     /\ mem' = [mem EXCEPT ![s] = NoCheckpoint]
                     /\ attempted' = [attempted EXCEPT ![s] = {}]
                     /\ job' = [job EXCEPT ![s] = NoJob]
             next == /\ pc' = [pc EXCEPT ![s] = "select"] /\ lock' = lock
                     /\ mem' = [mem EXCEPT ![s] = ckpt']
                     /\ attempted' = [attempted EXCEPT ![s] = @ \cup {j.g}]
                     /\ job' = job
  <2>0. /\ pc[s] = "settle" /\ forked' = FALSE /\ (gone \/ next)
        /\ UNCHANGED <<plan, claims, torn, done, runs, crashes>>
    <3>1. forked' = FALSE
      BY <1>0, <1>3 DEF Settle, Extend
    <3>2. gone \/ next
      BY <1>3 DEF Settle, Leave, Adopt
    <3> QED BY <1>3, <3>1, <3>2 DEF Settle
  <2>a. after \in States
    BY <1>0, <2>e, SettleTypes
  <2>1. /\ after.gen = ckpt.gen + 1
        /\ after.count = [ckpt.count EXCEPT ![j.g] = j.n]
        /\ after.active = [ckpt.active EXCEPT ![j.g] = 0]
        /\ after.status = [ckpt.status EXCEPT ![j.g] =
                             IF j.out = "external_wait" THEN "repairable_paused" ELSE j.out]
    BY DEF Settled
  <2>2. ckpt' = after \/ \E R \in SUBSET Groups : ckpt' = Replanned(after, R)
    BY <2>d
  <2> HIDE DEF after
  <2>3. /\ ckpt' \in States /\ ckpt'.gen = ckpt.gen + 1 /\ ckpt'.docs = after.docs
        /\ ckpt'.count = after.count /\ ckpt'.active = after.active
        /\ \A g \in Groups : ckpt'.status[g] = "accepted" => after.status[g] = "accepted"
    <3>1. CASE ckpt' = after
      BY <2>a, <2>1, <3>1
    <3>2. ASSUME NEW R \in SUBSET Groups, ckpt' = Replanned(after, R)
          PROVE  /\ ckpt' \in States /\ ckpt'.gen = after.gen /\ ckpt'.docs = after.docs
                 /\ ckpt'.count = after.count /\ ckpt'.active = after.active
                 /\ \A g \in Groups : ckpt'.status[g] = "accepted" => after.status[g] = "accepted"
      <4>1. /\ Replanned(after, R) \in States
            /\ Replanned(after, R).gen = after.gen /\ Replanned(after, R).count = after.count
            /\ Replanned(after, R).active = after.active /\ Replanned(after, R).docs = after.docs
            /\ \A g \in Groups : Replanned(after, R).status[g] =
                 IF g \in R /\ after.status[g] \notin {"accepted", "terminal_nonprogress"}
                 THEN "retained_pending_causal_predecessor" ELSE after.status[g]
        BY <2>a, ReplanTypes
      <4> QED BY <3>2, <4>1
    <3> QED BY <2>1, <2>2, <3>1, <3>2
  <2>4. TypeOK'
    <3> j.g \in Groups
      BY <1>0 DEF Jobs
    <3>1. CASE gone   BY <2>0, <2>3, <3>1, StateTypes DEF TypeOK
    <3>2. CASE next
      <4>1. mem' \in [Scorers -> States] /\ attempted' \in [Scorers -> SUBSET Groups]
        BY <2>3, <3>2 DEF TypeOK
      <4>2. job' \in [Scorers -> Jobs] /\ lock' \in Scorers \cup {NoScorer}
        BY <3>2 DEF TypeOK
      <4> QED BY <2>0, <2>3, <3>2, <4>1, <4>2 DEF TypeOK
    <3> QED BY <2>0, <3>1, <3>2
  <2>5. \A t \in Scorers : /\ pc'[t] \in {"idle", "select"}
                           /\ t # s => pc'[t] = "idle"
    <3>1. CASE gone   BY <1>0, <3>1 DEF TypeOK
    <3>2. CASE next   BY <1>0, <3>2 DEF TypeOK
    <3> QED BY <2>0, <3>1, <3>2
  <2>7. /\ j.g \in Groups /\ j.n = ckpt.count[j.g] + 1
        /\ ckpt.count \in [Groups -> 0..MaxAttempts] /\ ckpt.active \in [Groups -> 0..MaxAttempts]
        /\ ckpt.status \in [Groups -> Statuses \cup {"none"}] /\ ckpt.gen \in Int
    <3>1. /\ ckpt.count \in [Groups -> 0..MaxAttempts] /\ ckpt.active \in [Groups -> 0..MaxAttempts]
          /\ ckpt.status \in [Groups -> Statuses \cup {"none"}] /\ ckpt.gen \in Int
      BY <1>0 DEF States
    <3>2. j.g \in Groups
      BY <1>0 DEF Jobs
    <3>3. j.n = ckpt.count[j.g] + 1
      BY <2>0 DEF Numbered, Attempting
    <3> QED BY <3>1, <3>2, <3>3
  <2>c. ckpt'.gen \in Nat
    <3>1. ckpt.gen < 0 => ckpt.gen = -1
      BY <2>7 DEF Exclusive, NoCheckpoint, Untouched
    <3>2. ckpt'.gen = ckpt.gen + 1 /\ ckpt.gen \in Int
      BY <2>3, <2>7
    <3> QED BY <3>1, <3>2
  <2>6. Exclusive'
    <3>1. \A t \in Scorers \ {s} : mem[t] = NoCheckpoint /\ attempted[t] = {}
      BY <1>0 DEF Exclusive
    <3>2. lock = s
      BY <2>0 DEF Exclusive
    <3>3. CASE gone
      <4>1. \A t \in Scorers : pc'[t] = "idle" /\ mem'[t] = NoCheckpoint /\ attempted'[t] = {}
        BY <1>0, <3>1, <3>3 DEF TypeOK
      <4> QED BY <2>0, <2>c, <4>1 DEF Exclusive
    <3>4. CASE next
      <4>1. \A t \in Scorers : /\ pc'[t] = IF t = s THEN "select" ELSE "idle"
                               /\ mem'[t] = IF t = s THEN ckpt' ELSE NoCheckpoint
                               /\ t # s => attempted'[t] = {}
        BY <1>0, <3>1, <3>4 DEF TypeOK
      <4> QED BY <2>0, <2>c, <3>2, <3>4, <4>1 DEF Exclusive
    <3> QED BY <2>0, <3>3, <3>4
  <2>8. \A g \in Groups : /\ ckpt'.count[g] = IF g = j.g THEN ckpt.count[g] + 1 ELSE ckpt.count[g]
                          /\ ckpt'.active[g] = IF g = j.g THEN 0 ELSE ckpt.active[g]
    <3>1. ckpt'.count = [ckpt.count EXCEPT ![j.g] = j.n]
      BY <2>1, <2>3
    <3>2. ckpt'.active = [ckpt.active EXCEPT ![j.g] = 0]
      BY <2>1, <2>3
    <3> QED BY <2>7, <3>1, <3>2
  <2>9. Numbered'
    <3>1. \A g \in Groups : ckpt'.active[g] \in {0, ckpt'.count[g] + 1}
      BY <2>8 DEF Numbered
    <3>2. \A t \in Scorers : pc'[t] # "idle" =>
             \A g \in Groups \ attempted'[t] : ckpt'.count[g] < MaxAttempts
      <4> SUFFICES ASSUME NEW t \in Scorers, pc'[t] # "idle", NEW g \in Groups \ attempted'[t]
                   PROVE  ckpt'.count[g] < MaxAttempts
        OBVIOUS
      <4>1. t = s
        BY <2>5
      <4>2. next
        <5>1. ~gone
          BY <4>1 DEF TypeOK
        <5> QED BY <5>1, <2>0
      <4>3. g # j.g /\ g \notin attempted[s]
        BY <4>1, <4>2 DEF TypeOK
      <4>4. ckpt.count[g] < MaxAttempts
        <5>1. \A h \in Groups \ attempted[s] : ckpt.count[h] < MaxAttempts
          BY <2>0 DEF Numbered
        <5> QED BY <5>1, <4>3
      <4> QED BY <2>8, <4>3, <4>4
    <3> QED
      BY <2>5, <3>1, <3>2 DEF Numbered, Attempting
  <2>10. Claimed'
    <3>1. \A c \in Claims : c.n <= ckpt.count[c.g] + 1 => c.n <= ckpt'.count[c.g] + 1
      <4> SUFFICES ASSUME NEW c \in Claims, c.n <= ckpt.count[c.g] + 1
                   PROVE  c.n <= ckpt'.count[c.g] + 1
        OBVIOUS
      <4>1. c.g \in Groups /\ c.n \in Int
        BY DEF Claims
      <4>2. ckpt.count[c.g] \in Int
        BY <2>7, <4>1
      <4>3. ckpt'.count[c.g] \in {ckpt.count[c.g], ckpt.count[c.g] + 1}
        BY <2>8, <4>1
      <4> QED BY <4>1, <4>2, <4>3, SMTT(30)
    <3> QED
      BY <2>0, <2>5, <3>1 DEF Claimed
  <2>11. Recorded'
    <3>1. ~done /\ ~done'
      <4>1. pc[s] \notin {"idle", "open"} /\ done' = done
        BY <2>0
      <4> QED BY <4>1 DEF Recorded
    <3> QED
      BY <2>5, <3>1 DEF Recorded, CompletionIsTerminal
  <2> QED
    BY <2>4, <2>6, <2>9, <2>10, <2>11
<1> QED
  BY <1>1, <1>2, <1>3, <1>4

(* Every step keeps the invariant, and so does a step that changes nothing.  *)
LEMMA NextKeeps == SchedulerInv /\ [Next]_vars => SchedulerInv'
<1>1. ASSUME SchedulerInv, Next PROVE SchedulerInv'
  <2>1. PICK s \in Scorers : Acquire(s) \/ Step(s) \/ AuthorRaises(s) \/ Crash(s)
    BY <1>1 DEF Next
  <2> QED
    BY <1>1, <2>1, QuietKeeps, CallKeeps, WriteKeeps DEF Step
<1>2. ASSUME SchedulerInv, UNCHANGED vars PROVE SchedulerInv'
  <2> USE <1>2 DEF SchedulerInv, vars
  <2>1. TypeOK'     BY DEF TypeOK
  <2>2. Exclusive'  BY DEF Exclusive
  <2>3. Numbered'   BY DEF Numbered
  <2>4. Claimed'    BY DEF Claimed
  <2>5. Recorded'   BY DEF Recorded, CompletionIsTerminal, Pending
  <2> QED
    BY <2>1, <2>2, <2>3, <2>4, <2>5
<1> QED
  BY <1>1, <1>2

(* Every reachable state satisfies the invariant.                            *)
LEMMA Invariance == Spec => []SchedulerInv
BY InitKeeps, NextKeeps, PTL DEF Spec

(* The variables keep their types in every behaviour of the scheduler        *)
(* (staged.py:3849-4379).                                                   *)
THEOREM SchedulerTypeCorrect == Spec => []TypeOK
<1>1. SchedulerInv => TypeOK
  BY DEF SchedulerInv
<1> QED
  BY <1>1, Invariance, PTL

(* No claim is ever run twice, for any number of scorers and crashes: the    *)
(* claim is new when it is chosen, on disk before the run, and never chosen  *)
(* again; its number is the one after the last attempt a checkpoint has      *)
(* settled (staged.py:4028-4135).                                           *)
THEOREM RunsOnce == Spec => []NoDuplicateRun
<1>1. SchedulerInv => NoDuplicateRun
  BY DEF SchedulerInv, Claimed, NoDuplicateRun
<1> QED
  BY <1>1, Invariance, PTL

(* Calls that overlap, die and are repeated leave one chain of checkpoints,  *)
(* since a call extends the chain only with its end in hand and the lock     *)
(* (staged.py:3383-3446, 3849-3901).                                        *)
THEOREM Linear == Spec => []ChainIsLinear
<1>1. SchedulerInv => ChainIsLinear
  BY DEF SchedulerInv, Exclusive, ChainIsLinear
<1> QED
  BY <1>1, Invariance, PTL

(* Where there is a completion, every group is accepted or at an end         *)
(* (staged.py:3629-3643, 4335-4353).                                        *)
THEOREM CompletesAtTheEnd == Spec => []CompletionIsTerminal
<1>1. SchedulerInv => CompletionIsTerminal
  BY DEF SchedulerInv, Recorded
<1> QED
  BY <1>1, Invariance, PTL

(* A step leaves the status of a concluded group alone: only the group of    *)
(* the attempt in hand, which is not concluded, gets a new one, and the      *)
(* groups a later plan retains (staged.py:3582-3626).                       *)
LEMMA ConcludedStep ==
  ASSUME SchedulerInv, Next
  PROVE  \A g \in Groups : ckpt.status[g] \in Concluded => ckpt'.status[g] = ckpt.status[g]
<1>1. PICK s \in Scorers : Acquire(s) \/ Step(s) \/ AuthorRaises(s) \/ Crash(s)
  BY DEF Next
<1>2. ckpt' = ckpt \/ WriteRoot(s) \/ Mark(s) \/ Settle(s)
  BY <1>1 DEF Step, Acquire, AuthorRaises, Crash, Open, OpenEnds, Select, WriteClaim, Invoke,
              AuthorReturns, Finish, Complete, files
<1>3. CASE ckpt' = ckpt
  BY <1>3
<1>4. CASE WriteRoot(s)
  <2>1. \A g \in Groups : ckpt.status[g] = "none"
    BY <1>4 DEF SchedulerInv, Exclusive, WriteRoot, NoCheckpoint, Untouched
  <2> QED
    BY <2>1 DEF Concluded
<1> DEFINE j == job[s]
<1>5. /\ ckpt \in States /\ j \in Jobs
      /\ ckpt.status \in [Groups -> Statuses \cup {"none"}] /\ j.g \in Groups
  BY DEF SchedulerInv, TypeOK, States, Jobs
<1>6. CASE Mark(s)
  <2>1. pc[s] = "mark" /\ mem[s] = ckpt /\ ckpt.status[j.g] \notin Concluded
    BY <1>6 DEF SchedulerInv, Exclusive, Recorded, Mark
  <2>2. ckpt' = Marked(ckpt, j)
    BY <1>6, <2>1 DEF Mark, Extend
  <2>3. ckpt'.status = [ckpt.status EXCEPT ![j.g] = "invoking"]
    BY <2>2 DEF Marked
  <2> QED
    BY <1>5, <2>1, <2>3
<1>7. CASE Settle(s)
  <2>1. mem[s] = ckpt /\ ckpt.status[j.g] = "invoking"
    BY <1>7 DEF SchedulerInv, Exclusive, Recorded, Settle
  <2>d. PICK d \in Documents(ckpt, j) :
            LET after == Settled(ckpt, j, d)
            IN  ckpt' = after \/ \E R \in SUBSET Groups : ckpt' = Replanned(after, R)
    BY <1>7, <2>1 DEF Settle, Extend
  <2> DEFINE after == Settled(ckpt, j, d)
  <2>2. ckpt' = after \/ \E R \in SUBSET Groups : ckpt' = Replanned(after, R)
    BY <2>d
  <2>3. after \in States
    BY <1>5, DocumentTypes, SettleTypes
  <2>4. after.status = [ckpt.status EXCEPT ![j.g] =
                          IF j.out = "external_wait" THEN "repairable_paused" ELSE j.out]
    BY DEF Settled
  <2> HIDE DEF after
  <2>5. ASSUME NEW g \in Groups, ckpt.status[g] \in Concluded
        PROVE  after.status[g] = ckpt.status[g]
    <3>1. g # j.g
      BY <2>1, <2>5 DEF Concluded
    <3> QED
      BY <1>5, <2>4, <3>1
  <2>6. ASSUME NEW R \in SUBSET Groups, ckpt' = Replanned(after, R),
               NEW g \in Groups, ckpt.status[g] \in Concluded
        PROVE  ckpt'.status[g] = ckpt.status[g]
    <3>1. ckpt'.status[g] = IF g \in R /\ after.status[g] \notin {"accepted", "terminal_nonprogress"}
                            THEN "retained_pending_causal_predecessor" ELSE after.status[g]
      BY <2>3, <2>6, ReplanTypes
    <3> QED
      BY <2>5, <2>6, <3>1 DEF Concluded
  <2> QED
    BY <2>2, <2>5, <2>6
<1> QED
  BY <1>2, <1>3, <1>4, <1>6, <1>7

(* In every behaviour a group that is accepted, at an end or held back for   *)
(* its predecessor keeps that status (staged.py:3996-4020, 4217-4271).      *)
THEOREM ConcludedStays == Spec => ConcludedForGood
<1> DEFINE A == \A g \in Groups : ckpt.status[g] \in Concluded => ckpt'.status[g] = ckpt.status[g]
<1>1. SchedulerInv /\ [Next]_vars => [A]_vars
  BY ConcludedStep
<1> HIDE DEF A
<1>2. Spec => [][A]_vars
  BY <1>1, Invariance, PTL DEF Spec
<1> QED
  BY <1>2 DEF ConcludedForGood, A

(* What a checkpoint may do to the documents: only one that settles an       *)
(* attempt changes them, or makes a group accepted (staged.py:4208-4271).   *)
LEMMA DocumentStep ==
  ASSUME SchedulerInv, Next, NEW g \in Groups
  PROVE  /\ (ckpt.status[g] # "accepted" /\ ckpt'.status[g] = "accepted") => g \in ckpt'.docs
         /\ g \in ckpt.docs \ ckpt'.docs => ckpt'.docs \cap MinerGroups # {}
<1>1. PICK s \in Scorers : Acquire(s) \/ Step(s) \/ AuthorRaises(s) \/ Crash(s)
  BY DEF Next
<1>2. ckpt' = ckpt \/ WriteRoot(s) \/ Mark(s) \/ Settle(s)
  BY <1>1 DEF Step, Acquire, AuthorRaises, Crash, Open, OpenEnds, Select, WriteClaim, Invoke,
              AuthorReturns, Finish, Complete, files
<1>3. CASE ckpt' = ckpt
  BY <1>3
<1>4. CASE WriteRoot(s)
  <2>1. ckpt.docs = {} /\ ckpt' = Root
    BY <1>4 DEF SchedulerInv, Exclusive, WriteRoot, Extend, NoCheckpoint, Untouched
  <2>2. Root.status[g] # "accepted"
    BY DEF SchedulerInv, TypeOK, Root, Untouched, InitialStatus, Routes
  <2> QED
    BY <2>1, <2>2
<1> DEFINE j == job[s]
<1>5. /\ ckpt \in States /\ j \in Jobs
      /\ ckpt.status \in [Groups -> Statuses \cup {"none"}] /\ j.g \in Groups
  BY DEF SchedulerInv, TypeOK, States, Jobs
<1>6. CASE Mark(s)
  <2>1. ckpt' = Marked(ckpt, j)
    BY <1>6 DEF SchedulerInv, Exclusive, Mark, Extend
  <2>2. ckpt'.docs = ckpt.docs /\ ckpt'.status = [ckpt.status EXCEPT ![j.g] = "invoking"]
    BY <2>1 DEF Marked
  <2> QED
    BY <1>5, <2>2
<1>7. CASE Settle(s)
  <2>1. mem[s] = ckpt
    BY <1>7 DEF SchedulerInv, Exclusive, Settle
  <2>2. PICK d \in Documents(ckpt, j) :
            LET after == Settled(ckpt, j, d)
            IN  ckpt' = after \/ \E R \in SUBSET Groups : ckpt' = Replanned(after, R)
    BY <1>7, <2>1 DEF Settle, Extend
  <2> DEFINE after == Settled(ckpt, j, d)
  <2>3. /\ d \in SUBSET Groups
        /\ j.out = "accepted" => j.g \in d
        /\ \A h \in ckpt.docs \ d : d \cap MinerGroups # {}
    BY <1>5, DocumentTypes
  <2>4. after \in States
    BY <1>5, <2>3, SettleTypes
  <2>5. /\ after.docs = d
        /\ after.status = [ckpt.status EXCEPT ![j.g] =
                             IF j.out = "external_wait" THEN "repairable_paused" ELSE j.out]
    BY DEF Settled
  <2> HIDE DEF after
  <2>6. ckpt'.docs = d /\ (ckpt'.status[g] = "accepted" => after.status[g] = "accepted")
    <3>1. CASE ckpt' = after
      BY <2>5, <3>1
    <3>2. ASSUME NEW R \in SUBSET Groups, ckpt' = Replanned(after, R)
          PROVE  /\ ckpt'.docs = d
                 /\ ckpt'.status[g] = "accepted" => after.status[g] = "accepted"
      <4>1. /\ Replanned(after, R).docs = after.docs
            /\ Replanned(after, R).status[g] =
                 IF g \in R /\ after.status[g] \notin {"accepted", "terminal_nonprogress"}
                 THEN "retained_pending_causal_predecessor" ELSE after.status[g]
        BY <2>4, ReplanTypes
      <4> QED BY <2>5, <3>2, <4>1
    <3> QED BY <2>2, <3>1, <3>2 DEF after
  <2>7. ASSUME ckpt.status[g] # "accepted", ckpt'.status[g] = "accepted" PROVE g \in ckpt'.docs
    <3>1. after.status[g] = "accepted"
      BY <2>6, <2>7
    <3>2. g = j.g /\ j.out = "accepted"
      BY <1>5, <2>5, <2>7, <3>1
    <3> QED BY <2>3, <2>6, <3>2
  <2> QED
    BY <2>3, <2>6, <2>7
<1> QED
  BY <1>2, <1>3, <1>4, <1>6, <1>7

(* In every behaviour a group is accepted with its repair in the documents,  *)
(* and a repair leaves them only beside a problem-mining repair, whichever   *)
(* calls accepted or paused the others (staged.py:4129-4271).               *)
THEOREM RepairsKept == Spec => RepairsAccumulate
<1> DEFINE A == \A g \in Groups :
        /\ (ckpt.status[g] # "accepted" /\ ckpt'.status[g] = "accepted") => g \in ckpt'.docs
        /\ g \in ckpt.docs \ ckpt'.docs => ckpt'.docs \cap MinerGroups # {}
<1>1. SchedulerInv /\ [Next]_vars => [A]_vars
  BY DocumentStep
<1> HIDE DEF A
<1>2. Spec => [][A]_vars
  BY <1>1, Invariance, PTL DEF Spec
<1> QED
  BY <1>2 DEF RepairsAccumulate, A
=============================================================================
