# A TLA+ model of usertest's durable state

The repository is a Python monorepo around three programs: `usertest` runs an
agent on a repository and keeps what it did as artifacts, `usertest-backlog`
mines those artifacts into tickets, and `usertest-implement` has agents
implement the tickets, merges the results and proves their outcome. Several
processes, started by operators, by batch workers and by an outer loop, share
files: a ledger, ticket files in bucket directories, event logs, request and
response files. There is no database and no server; every guarantee rests on
lock files, renames, and on functions that refuse to write an illegal record.

This directory models that core: the lock and the ledger behind it, the
outcome of a ticket and the two files it is stored in, the commands that carry
an outcome from the merge of a pull request to its resolution, the broker
through which an agent has its work verified, the plan folders in which the
copies of a ticket are moved about, the batch that runs tickets in parallel
and what an operator can recover of it, and the scheduler that resumes rejected
authors of the backlog pipeline. TLC checks the models on small instances, TLAPS
proves the most important results for every value of the constants. Paths below
are relative to `src/`; `implement/` is
`apps/usertest_implement/src/usertest_implement/`, `staged.py` is
`apps/usertest_backlog/src/usertest_backlog/workflows/staged.py`.

## 1. Inventory

| Part | State | Operations | Shared with, and hard because |
|---|---|---|---|
| Ledger lock, `implement/ledger.py` | a lock file, its mtime | create exclusively, poll, take over when stale, time out, release | every writer of the ledger; stat and unlink are two system calls, a holder may die |
| Implementation ledger, `implement/ledger.py` | one YAML document, one entry per ticket | load, change one entry, write the whole text in place | every command; readers do not lock; truncation before the write |
| Outcome record, `backlog_repo/outcomes.py` | state, scope, provenance, evidence lists, amendment, recurrence, risks | validate, transition, bind an amendment, prune blockers, reconcile | pure functions, but composed in long sequences by callers that disagree about who is ahead |
| Outcome transactions, `implement/ledger.py` | ticket and ledger | transition, bind, prune over both files | two renames, a rollback, a crash in between |
| Outcome workflow, `implement/commands/review.py`, `outcome_progression.py`, `commands/outcome.py`, `tickets.py` | the same two files and the pull request | review merge and its retry, post-merge progression, sweep before a refresh, outcome advance, amendment | records are read without a lock, roles run for minutes, one writer of the ticket takes no lock |
| Verification broker, `runner_core/verification_broker.py`, and its use in `runner_core/runner.py` | request and response files, a worker thread with results | ask, serve, answer, stop, drain, a second broker, choice and reuse of a proof | clients that outlive the agent, a worker that may die, files that change after a proof |
| Ticket board, `implement/tickets.py`, `backlog_repo/plan_index.py` | the copies of a ticket in bucket directories | move, deduplicate, sweep, archive | renames, copies and unlinks by name of several processes, without a lock; a stop between any two |
| Batch runner, `implement/batch_runner.py`, `batch_state.py`, `batch_failure.py` | batch state file, futures, queue, deferred synchronisations | collect, replan, claim, launch, settle, requeue, recover | a crash between a bucket move and the state file; swallowed failures; runs that outlive the batch |
| Qualification correction scheduler, `staged.py`, `qualification_repair_runtime.py` | write-once checkpoints, claims, a completion | lock, select, claim, invoke, settle, complete | two scoring commands; a call that dies between claim, checkpoint and author run |
| Resume and handoff, `implement/resume_state.py`, `commands/resume.py`, `commands/handoff.py`, `finalize.py` | run directory, branch, pull request | save and restore a workspace, hand off | restart after each step |
| Lifecycle log, `run_artifacts/lifecycle_events.py` | a JSONL file, an artifact lock | append once per key, repair a torn tail, read | two appenders, a crash while appending |
| Backlog refresh, `implement/backlog_refresh.py` | an OS lock, the shadow state | ordered external steps, guarded export | a stale shadow cycle |
| Continuous loop and watchdog, `tools/continuous_implement_loop.py`, `tools/batch_watchdog.py` | counters, child processes | select, retry, restart | timeouts and retries |
| Selection, provenance, outcome verification | none of their own | filters and checks over files | - |
| Runner, target acquisition, execution backend, remote effects | a workspace | one sequential run of an agent | external processes |
| Agent adapters, sandbox_runner, the rest of the backlog pipeline, reporting, token monitoring | artifacts | parsing, rendering, document computations | - |

How they interact. The continuous loop starts refreshes and batches; a batch
claims tickets on the board and runs workers; a worker runs an agent through
the runner, which offers it the broker; a finished run becomes a pull request;
`review merge` merges it and records the first outcome in the ticket and in the
ledger; the progression, called at the end of that command and at the start of
every refresh, runs the roles the plan demands and advances the outcome in both
files; `outcome advance` and `outcome bind-verification-amendment` do the same
for an operator. Everything that changes the ledger goes through its lock.

What makes each part correct:

- lock: at most one process inside; no holder's file deleted by another; every
  request ends; a dead holder's lock is reclaimed;
- ledger: no returned update is lost; a torn document is never taken for empty;
- record: a claim is backed by a receipt on the commit to be verified;
  provenance is written once; closed cases stay closed; a retry never demotes;
- transactions: both files or neither; a disagreement is refused, not resolved;
- workflow: the files agree between commands; a resolved outcome stays so;
  receipts are never dropped; a merged ticket reaches the claim of its plan;
  one blocked ticket does not stop the others;
- broker: whatever was accepted is answered once, before the broker ends; a
  proof is reused only for the files it was made on; a verdict is always reached;
- board: no text of a copy is lost; the ticket stays where it can be claimed or
  finished; a move that returns has landed; nothing written by hand is archived
  as a duplicate;
- batch: runs side by side share no conflict key; every run is recorded before it
  starts; a launched ticket is recoverable or accounted for; no replanned ticket
  is forgotten; a phase ends;
- correction scheduler: an attempt runs once; a group that is finished or held back
  stays so; an accepted repair stays in the documents until a mining repair replaces its items;
  a completion is final; a call ends;
- lifecycle log (not modelled): each key once, readers see a prefix, torn tails heal;
- refresh (not modelled): the export sees only a cycle validated in this refresh.

## 2. Modules

```
LedgerStore  <-- refined by --  LedgerUpdates  -- INSTANCE -->  LockFile
                                LedgerUpdatesProofs             LockFileProofs
OutcomeRecord <-- EXTENDS -- OutcomeLifecycle  <-- EXTENDS --  OutcomeLifecycleProofs
              <-- EXTENDS -- OutcomeStore  <-- refined by --  OutcomeTransaction
OutcomeTransaction  <-- EXTENDS -- OutcomeWorkflow  <-- EXTENDS -- OutcomeWorkflowProofs
                                   (which extends OutcomeLifecycleProofs as well)
VerificationBroker  <-- EXTENDS -- VerificationReuse  <-- EXTENDS -- VerificationReuseProofs
PlanBuckets  <-- EXTENDS -- TicketBoard  <-- EXTENDS -- TicketBoardProofs
             <-- EXTENDS -- BatchRunner  <-- EXTENDS -- BatchRunnerProofs
CorrectionScheduler  <-- EXTENDS -- CorrectionSchedulerProofs
```

`MC*` modules hold the constants of the TLC runs. Operators marked "Faulty
variant" next to a definition are what a plausible bug would make of it; no
specification uses them; each property of a run is violated by one of them.

**LockFile** (`implement/ledger.py:134-182`). `file` is the directory entry:
absent, left by a dead process, or the process that created it; `aged` says
whether its mtime is beyond `_LOCK_STALE_SECONDS`. The system calls of
`_acquire_lock` (create exclusively, stat, unlink, write the identity) are
separate steps, so a waiter deletes by name a file whose age it read earlier.
`Crash` leaves the file behind, `Age` lets a file become stale: that of a dead
holder always, that of a running one only with `SlowHolder`. `everStale` is a
history variable.

**LedgerUpdates** (`ledger.py:30-131,171-182`) puts `update_ledger_file` over
that lock: load, truncate, fill, release. The document is abstracted to how
often each process's entry has been updated; a truncated file is `Torn`, and
loading it raises (its keys are written sorted and `schema_version` is not the
first, so a proper prefix never passes the checks of `load_ledger`). `Fill` of a
text that somebody else has written meanwhile leaves this document or an
unreadable mixture. **LedgerStore** is the promise: updates of single entries,
atomically, and a document that may only be lost for good.

**OutcomeRecord** (`backlog_repo/outcomes.py`) has the record and the six
operations as operators that return a record or `Refused`. Evidence is the set
of receipts that passed; a receipt is bound to the merge or to one amendment's
commit. The transition table, the controlled, identity and free fields and the
validation of each state are the source's. **OutcomeLifecycle** lets one record
go through all of them in any order. **OutcomeStore** is one record changed by
whole operations.

**OutcomeTransaction** (`ledger.py:185-591`) is the three operations over two
files: acquire the lock, read and compare, check and stage, replace the ledger,
replace the ticket, put the ledger back if that fails, release. The lock is
taken as exclusive here, which LockFile proves as long as none is stale.

**OutcomeWorkflow** adds the commands around it, each as a sequence of steps of
one process: review merge (`Preflight`, `MergePR`, `Propose`, `ReadTicket`,
`WriteTicket`, `RecordInLedger`), the progression (`Load` to `Blocked`), the
operator's commands. `outcome advance` takes any state the command line offers and one receipt, of a
role or of the recurrence check, or the statement that nothing was there to observe,
with or without a replacement of the remaining risks (`Brought`, `WithRisks`).
`copy` is what the command read without the lock, `at` its
place. `WriteTicket` is `move_ticket_file`, the only writer of an outcome that
does not take the lock (`tickets.py:321`).

**VerificationBroker** (`verification_broker.py:796-1389`) is one attempt:
clients add requests, the worker thread scans the directory, marks a request as
processed, serves it, hashes the workspace, records the result and only then
writes the response; a graceful stop drains. **VerificationReuse**
(`runner.py:6600-6980`) is the runner's side: it stops the broker when the
agent returns, and if nobody had asked, starts a second broker over the same
directories for a request of its own; then it chooses a result and reuses it or
runs the commands again.

**PlanBuckets** has what the two next modules share: the buckets, the rank of
the actioned ones, and from which bucket `move_ticket_file` takes a copy.

**TicketBoard** (`tickets.py:142-156,267-397`, `plan_index.py:502-591,988-1302`,
`outcomes.py:1024-1045`) is one ticket's copies and the processes that move it. A move
is the sequence of passes of `move_ticket_file`: repair the duplicates, sweep the queue,
index, rename, repair and sweep again; `todo` are the copies a pass has still to
archive. Archiving is read, open over the destination (`CutDestination`), fill, read
back, unlink, each a step. On the way to `5 - complete` the copy needs an outcome:
`ReadOutcome` reads the file as it is now, and the record of a merge (`rec`) is written
into it where it stands, again by opening (`CutRecord`) and filling it (`FillRecord`). So
two movers interleave, and a crash leaves a copy cut short. `body` says where the text
ends: whole, before the generated marker, or after it; `block` what follows: an
outcome, the relation of an archived duplicate, an `open` block without its end, or a
`broken` one, an open block with a second behind it, which the pattern of
`outcomes.py:42` takes for one. `Follow` keeps track of an open file that is renamed or
unlinked. `calm` and `spoiled` are history variables.

**BatchRunner** (`batch_runner.py:1372-1542,2706-3687,3723-3798`) is `_drain_phase`
for one phase, `run_batch` around it and `batch recover`. `queue` is the wave,
`cur` the candidate between claim and submission, `flight` the futures, `jobs` the
run processes, `mem` and `disk` the batch state in memory and in the file.
`pending` are the replanned tickets whose synchronisation is deferred, `unsynced`
those the atom actions still call ready. `Crash` ends the batch process and leaves its
runs; `Fault` bounds crashes, failed moves, failed synchronisations, a refresh and a
terminal proof that raise. A result is
one of the classes of `Outcome`, which says what the code reads of a run's files.
`lost` is a history variable: tickets claimed in a window in which no file names
them.

**CorrectionScheduler** (`staged.py:3259-3643,3894-4379`) is
`_execute_qualification_correction`: the lock that does not wait, the chain of
checkpoints, the claim before the checkpoint before the author run, selection,
settlement and completion. `Documents` says which repairs the documents may contain
after a run (`qualification_repair_runtime.py:1636-2034`): an accepted repair is merged
in and the stages below it are regenerated for its problems, and a run that has to wait
for its provider may have got that far. `torn` are files whose writer died: they are written
once and in place, with `open("xb")`.

## 3. Runs

| Run | Asks | Answer |
|---|---|---|
| `lock` | does the lock exclude, end and recover? 3 processes, 2 crashes | yes, exclusion until a file has been stale |
| `ledger` | are updates atomic, with crashes, slow holders, denied unlinks, failing writes? 2 writers, 2 updates each | they implement LedgerStore, and none is lost, until a file is stale; a torn document stays torn in any case |
| `outcome_lifecycle` | all sequences of operations on one record, 2 commits, 2 receipts | claims are current, closed stays closed, a retry never demotes, and the ledger's reconciliation follows the ticket's transition |
| `transaction` | 2 processes, 10 operations, 1 crash, failing writes and rollbacks | the files agree outside a transaction, or are frozen; the ticket is an atomic store |
| `workflow_single` | all commands one after the other, 1 crash, failing writes | files agree between commands unless a crash or a failed write of the ledger kept them apart, a claim that is reached stays, only a merge retry drops receipts |
| `workflow_live` | does a recorded merge reach its claim? 1 crash, failing roles | yes |
| `workflow_sweep` | can one ticket stop the sweep? | **yes**, 6.1 |
| `verification_reuse` | 2 clients, one malformed, 2 edits, a worker that may die | drained, answered once, reused only when proved, always a verdict |
| `board` | 3 moves of a ticket with 3 copies, by hand or generated, with an outcome or without, 1 crash between or inside the writes | nothing lost but what a death in a rewrite, or a move onto an archived copy, takes; still on the board, landed, hand-written copies kept |
| `board_race` | and when two processes move it at once? 2 moves, no crash | **a text is lost**, 6.2 |
| `batch` | 3 tickets, 2 of one conflict key, 2 workers, retries, replans, blockers, 1 crash or failed move or synchronisation | no conflicting runs, all recorded, recoverable, accounted for and synchronised, and the phase ends |
| `scheduler` | 2 scorers, 3 groups, 2 attempts each, 2 crashes or exceptions | no attempt runs twice, concluded groups stay, repairs leave the documents only beside a problem-mining one, completion is final, every call ends |

Every `TypeOK` in the modules holds on these instances; only the ledger's is
listed in a run, and those of LockFile, LedgerUpdates, OutcomeLifecycle,
VerificationReuse, CorrectionScheduler and TicketBoard are proved (BatchRunner's by `Typed`). `ChainIsLinear` is proved and not listed.

Bounds. Two crashes reach everything one stale takeover can do and a second
takeover of it; a third process is what makes a waiter's late unlink hit
somebody else's file. Two updates per writer let an old copy be written over a
newer one. Two commits, with one receipt executed on each, are what an
amendment can mix up; the other workflow runs have a second receipt of the merge commit
(`r2`), which `workflow_single`, with every form of advance, does without. An operator
brings evidence for the roles `original` and `live` or the recurrence check (`Brings`),
one receipt a call, and the one list of risks that a resolution can need (`RiskLists`). One crash in the workflow reaches each
of its places; the files have no state two crashes could add but the ones the
first leaves, which every command refuses. Two clients cover a valid and a malformed
request, and a late one while the other is served; two edits put one before and
one after a verification. `Times` has one element: no operation compares
`recorded_at`.

On the board, three copies are a duplicate, the copy it duplicates, and one that is neither:
queued, actioned and idle or archived; with fewer no repair is ambiguous. Three moves
let one repair what the second left behind and the third go on from there, among them a
retry of a merge that died in its outcome; one crash cuts any of them. The race needs one
move each, and nothing in the archive at first. In the batch, two tickets that share a key
and one that does not, with two workers, are the least at which a ticket must wait while
another overtakes it; two cycles let a ticket come back once (its retry, its refresh);
one fault falls anywhere. The results are one of each way a settlement branches:
`review` (success, moved by its run), `infra` (retried once, then failed), `red`
(a blocker with a pull request) and `raised`. The invariants of the proofs were also checked
with two batches and two faults; those of the board with two movers, taking turns and
racing; those of the workflow with two processes. In the scheduler three groups are one that mines
problems, one its repair may hold back, and a third; two attempts and two
crashes abandon the primary and the reconciliation of one attempt.

Deadlock checking is off where a run may end: when the updates or moves are used
up, when a closed record has no further operation, when an attempt, a batch or
a correction is done. It is on for the lock, the transactions and the workflow,
where somebody can always do something.

Symmetry is not used: several runs check liveness, and the state spaces do not
need it.

## 4. Fairness

- `LockFile`: a running process keeps executing (WF of its steps), time passes
  (WF of `Age`), a waiter that keeps polling runs out of `_LOCK_TIMEOUT_SECONDS`
  (SF of `GiveUp`), and a denied unlink is transient (SF). Without the last, a
  waiter spins at `ledger.py:146-151` without looking at its deadline. The run
  has neither slow holders nor denied unlinks.
- `OutcomeWorkflow`: a command that was started proceeds; the progression of a ticket that is
  still pending is started again by every refresh (SF of `StartRefresh`);
  a role that is run again and again passes some time (SF of `RolePasses`).
  Nobody has to retry a merge, advance an outcome by hand, or
  stay alive.
- `VerificationReuse`: the worker and the runner proceed; a verification ends by
  its internal deadline; settle times pass while no request renews them (SF,
  as the wait is interrupted by every new one). Nothing is assumed of the agent,
  its clients or of exceptions.
- `BatchRunner`: the batch process and the runs proceed (WF of `BatchStep` and
  `RunStep`): a worker polls its child, and stops it after `ticket_timeout_seconds` where
  that is configured (`batch_runner.py:1850`), and `_drain_phase` waits for the first
  future done. Without a timeout, that runs end is an assumption. Starting a batch, crashes and recover are outside.
  `DrainEnds` says that a phase that is collecting ends, blocked, drained or failed,
  within `max_phase_cycles`.
- `CorrectionScheduler`: a scorer that is in a call proceeds, the author run
  included (WF of `Step(s)`); nobody has to call, and crashes may end a call, which
  is an end too.
- `TicketBoard` states no fairness: its properties are safety, and a move is a finite
  sequence of file operations.

## 5. Proofs

TLAPS proves the following for any set of processes and any bound, from the
constants' assumptions only (`LockAssumption`, `UpdatesAssumption` of LedgerUpdates and
of OutcomeLifecycle, `RecordAssumption`, `TransactionAssumption`, `WorkflowAssumption`,
`BrokerAssumption`, `BoardAssumption`, `BatchAssumption`, `SchedulerAssumption`: sentinels are
distinct from processes, requests, records and documents, bounds are natural numbers, updates
of a record are typed, the orders list every ticket or group, a ticket once; and the two
`StartAssumption`: the stores of the workflow start empty or with the outcome of a first merge,
the board with finitely many whole copies, one at a path, relation copies in the archive only
and at least one copy of another kind).

- **LockFileProofs**: `TypeCorrect`; `Exclusion` and `Ownership`, i.e.
  `MutualExclusion` and `HolderOwnsFile`. Neither is inductive: an
  unlink of a waiter could delete the holder's file. `ExclusionInv` adds that
  while no file has been stale, no waiter is at `unlink` and the file names
  whoever is past the exclusive create.
- **LedgerUpdatesProofs**: `UpdatesTypeCorrect`, `UpdatesKept`
  (`NoLostUpdate`), `TornForGood` (`NeverResets`) and `UpdatesImplementStore`
  (`ImplementsStore`). `UpdatesInv` adds to the
  exclusion what a process inside knows of the file at each step: its copy is
  the document, then the file is torn and its copy has every returned update,
  then the file has its own. TornForGood needs the types only: a torn file that
  nobody is about to write is met by loads, and those raise. The refinement needs
  `Counted`: until a lock file is stale, an entry of the document, or of the text about to
  be written, is ahead of the updates that returned by one at most.
- **OutcomeLifecycleProofs**: `RecordTyped`, `ProofStaysCurrent` (`ProofIsCurrent`),
  `ClosedForGood` (`ClosedStaysClosed`), `RetryKeepsProgress` (`RetryPreserves`),
  `LedgerRepeatsTicket` (`LedgerFollowsTicket`). The invariant is `Sound`: the record
  is typed and passes validation, which every operation ends with. Validation alone gives
  ProofIsCurrent; the others follow from the transition table and the cases of
  reconciliation, for any receipts, commits and updates.
- **OutcomeWorkflowProofs**, first about the transactions alone: `AgreementHolds`, `NoGuess`
  (`DivergedFrozen`), `Implementation` (the refinement of OutcomeStore, step by step: only
  `ReplaceTicket` changes the ticket, and what is staged is then the result of
  the operation on what the ticket still holds). `TransactionInv` says that the
  lock holder's staged record and its saved ledger belong to the present ticket.
  Here the operators of OutcomeRecord stay opaque: this part holds whatever validation
  and transitions are.

  Then about the commands. `StoresStaySound` holds for every interleaving: what is stored
  is typed and valid, never the mere plan, never `implemented` if tests were
  required, and in the ledger only if in the ticket. `CommandInv` carries it: the record that a
  command has read, wishes for or has staged is one that validation passed, at each of its
  places. `StoresStayTogether` (`StoresAgree`) and `ResolvedIsFinal` (`TerminalIsFinal`)
  need `MergesAlone`: while a review merge is between its reading of the ticket and its
  entry in the ledger, no other process is in a transaction or at those steps. Nothing in the code
  sees to that, since `move_ticket_file` writes the ticket without the lock, and without it
  a merge retry overwrites a resolution that is recorded in between (6). `StoresInv` adds to
  CommandInv what each writer knows of the files. ResolvedIsFinal is for
  plans that are to be resolved: a claim of `mitigated` may be taken back by an operator.
  `OnlyRetryUnproves` (`OnlyRetryDropsProof`) needs `Serial`, one command at a time, as two
  that append receipts at once lose one of them (6); `SerialInv` adds that the copy in a
  command's hand is still what the ticket holds. `OneProcess` states all three for one
  process, where both conditions hold of themselves.
- **VerificationReuseProofs**: `ReuseTypeCorrect`, `DrainAnswersAll` (`Drained`),
  `ReusedProofsHold` (`ReuseIsVerified`),
  `AnswersStay` (`AnswersAreFinal`). `ReuseInv` has five parts beside the types.
  `Served`: a request is processed from the moment it is in hand, and answered when it is
  not in hand any more. `Recorded`: who was answered has a result, of this broker or the
  one before. `Stopped`: the worker ends of its own accord only when told to, with every
  earlier request processed, and the runner goes on only then. `Judged`: what the runner has
  in hand, and when. `Proved`: a passed result with the hash of the present files belongs to
  a request verified on them. `LargestIndex` shows that the last result of a set of requests
  exists, by well-founded induction on indices.
- **CorrectionSchedulerProofs**: `SchedulerTypeCorrect`, `RunsOnce`
  (`NoDuplicateRun`), `Linear` (`ChainIsLinear`), `RepairsKept`,
  `CompletesAtTheEnd`, `ConcludedStays`. `SchedulerInv` has four parts beside the
  types. `Exclusive`: a call past `open` works from the last checkpoint, so no
  second child of a parent is written. `Numbered`: the attempt in hand is the one
  after those that were settled, whether it is new or taken up again. `Claimed`: a run
  has a claim on disk, and a claim about to be run has had no run. `Recorded`: what
  the checkpoint says of a group agrees with where its attempt stands, and a call about
  to complete has nothing pending. `RepairsKept` (`RepairsAccumulate`) is about steps, and
  follows from that invariant and from `DocumentStep`, what one attempt may make of the
  documents it started from, which are those of the last checkpoint.
- **BatchRunnerProofs**: `ConflictsExcluded` (`NoConflictingRuns`), `RunsRecorded`
  (`RunsAreRecorded`), `NothingStranded` (`NoTicketStranded`), `AllAccounted`
  (`LaunchesAccounted`), `ReplansSynced` (`ReplansAreSynced`). `BatchInv` says that a
  ticket is one candidate, in the queue, between claim and submission, or in flight
  (`Single`); that the runs of the batch are those of the flight (`Jobbed`), which
  share no key (`Apart`) and are in the state file (`InFile`); that a launched ticket
  is processed or still a candidate (`Pursued`) and, in `in_progress`, is named by what
  is or will be written (`Kept`); that the lists follow what has been processed
  (`Listed`); and that a listed but unprocessed ticket is one that could not be moved
  back to planning (`Bound`), which is why a retry that a blocker stops is in no list.
  `Synced` adds for the replans that an unsynchronised ticket is neither ready nor a
  candidate for another replanning, and that the phase has it among the pending ones
  unless its list entry is that of a launch.

- **TicketBoardProofs**. `TypeCorrect` holds for any movers, however they interleave: no
  operation leaves two files at one path. The others hold in behaviours with `Alone`, one
  mover at work at a time. Nothing in the code enforces that either: `board_race` is what
  happens without. Any target is allowed, the archive included, and any crash.
  `TextsSurvive` (`NothingLost`), `TicketStays` (`StaysOnBoard`) and `ManualKept`
  (`ProtectedKept`) follow from `LoneInv`. `Sound` says where a mover stands with its copy: the
  archive copy is chosen free or in place, then cut there, then whole with its source beside
  it (`Chosen`, `Writing`, `Written`); the copy that gets an outcome is outside the archive, as read or
  cut (`Recording`); and the one to rename is there (`Renaming`). What a repair or a sweep
  has still to archive is generated (`Picked`); each text is whole in a file with a
  sound block, or with the mover that rewrites it, or `spoiled` (`Safe`); and a copy that stands
  for the ticket is on no list of copies to archive (`OnBoard`). A source is
  unlinked only after its text was read back from a file whose block is sound, which is why an
  archive copy with a broken block does not count in `Safe`. `MoveLands` (`Landed`) is for a
  single mover, crashes included; `LandInv` follows the passes of its move. After the repair
  one actioned copy is left that the index knows, or what is left to archive makes it so
  (`OneLeft`, `OneAtMost`); after the sweep no generated copy is queued beside it
  (`Sweeping`, `Swept`); the copy a move has chosen is one no pass will take at the target
  (`Source`); and after the rename nothing takes it away (`Firm`), but for the two cases
  Landed names (`Excused`, `Beaten`). Two lemmas on the
  operators carry these proofs: `BestExists`, that a set of copies has one that the order of the
  repair prefers to all others, from a counterexample of least cardinality, and
  `NameIsFree`, that the numbering of archive names finds a free one, as finitely many files
  cannot take them all.

Only model-checked: all liveness (`LockFile`, `OutcomeWorkflow`, `VerificationReuse`,
`BatchRunner`, `CorrectionScheduler`). Liveness under fairness, ENABLED and induction over data
are beyond this prover. Without `MergesAlone`, `Serial` or `Alone`, `TerminalIsFinal`,
`OnlyRetryDropsProof`, `NothingLost` and `ProtectedKept` are false, and section 6 says how.

## 6. Disagreements with the documentation

1. `workflow_sweep`. After a crash of review merge between the ticket and the
   ledger, the progression of that ticket fails, its handler records the block in a
   transaction of its own, that raises as well, and nothing catches it in
   `progress_pending_outcomes_before_refresh`: the sweep, and the refresh, end
   for every ticket, though "pending outcome proof is case-local, not a global
   backlog stop".
2. `board_race`. The repair of one mover is writing the archive copy of a generated
   duplicate (`plan_index.py:587`). The repair of another scans the archive: what is there
   of the copy has no relation block yet, so it counts as an actioned duplicate; it is read as
   it is, and as it lies in the archive already, it will be written back to the same path
   (`plan_index.py:583-585`). The first mover finishes its copy, reads it back and removes
   the source; then the second writes its half of the text over the copy. No file holds the
   whole text, though `plan_index.py:496-499` promises that a partial failure "cannot lose
   the only copy of a plan". The model has two more ways to the same end: two movers find the
   same archive name free (`plan_index.py:526-535`) and the second overwrites the first's
   copy; and the unlink of the source, which is by name (`plan_index.py:590`), removes
   what another mover has renamed onto that path, a copy written by hand for instance.

Met while modelling, without a run of their own:

- Ledger. One process dies with the lock; two waiters stat the stale file; the
  first deletes it and creates its own; the second deletes that one. Both are inside,
  and an update is lost although `test_update_ledger_file_preserves_concurrent_updates`
  promises otherwise. `NoLostUpdate` and `ImplementsStore` are stated for the time
  before a lock file has been stale; `MutualExclusion` likewise.
- Workflow, two processes. `move_ticket_file` reads, reconciles and writes the ticket
  outside the lock; a resolution recorded in between is overwritten by a merge retry.
  `TerminalIsFinal` is checked for one command at a time.
- Workflow, one process. A progression whose live role fails leaves `unverified` with
  the receipts of the original scenario. A merge retry then proposes a fresh
  `tests_verified`, `reconcile_outcome_records` takes it for a legal transition
  of `unverified`, and its empty lists replace the receipts: the exception
  `OnlyRetryDropsProof` names.
- `_VERIFICATION_AMENDMENT_BINDABLE_STATES` lists `original_scenario_verified`
  and `live_verified`, but a binding is always refused there: the claimed state
  lacks a receipt on the amendment's commit.
- The table allows `mitigated -> tests_verified`, which no transaction can
  store: the ledger's reconciliation takes it for a merge retry and keeps
  `mitigated`, and the staged files differ (`LedgerFollowsTicket` names this one
  exception). `reconcile_terminal_outcome_stale_blockers_files` is called only by
  tests.
- Two commands that append receipts at once (`commands/outcome.py:648`,
  `outcome_progression.py:1123`) each write the list they read plus their own: the
  transaction compares the two files with one another, not with what the caller
  read, and the earlier receipt goes, although
  `apps/usertest_implement/README.md:346` says entries are appended. This is why
  `OnlyRetryDropsProof` is checked for one process at a time.
- When the runner's own broker request times out (`runner.py:6830`), its id is
  unknown afterwards, and its result, drained a little later, counts as a late result
  of the agent, which the comment at `runner.py:6835` wants to keep apart. No property is
  about that choice: but for this case it is one comparison.
- Edits made while a verification runs are part of the hash taken at its end
  (`verification_broker.py:1329`), so that proof is reused; `ReuseIsVerified`
  allows exactly this.
- Board, a crash in the middle of a write. Two writes are over the only file that has the
  text: the outcome of a merge (`tickets.py:324,392`), and an archive step on a copy that lies in the
  archive already (`plan_index.py:584`). What is left is cut short, and its text is `spoiled`.
  An archive copy cut before its outcome block no longer looks like a relation copy: a repair that
  scans it takes it for an actioned copy, even for the best one (`calm`).
- Board, a merge retried after a crash inside the outcome block. The pattern that replaces a block
  (`outcomes.py:42-45`) needs its end, so the retry writes a second block behind the open one, and from
  then on the two are read as one that does not parse: the scan passes over the file
  (`integrity_unknown`), while a repair still counts it as an actioned copy, and may keep it, in
  the archive, and archive the copy that was moved. `StaysOnBoard` and `Landed` name this case.
- Board, targets. `tickets move --to-bucket "6 - archived"` renames onto an archived copy of
  the same file name, relation copies of other texts included, and replaces it; the same happens in
  any bucket to a file of that name that the scan passes over. `NothingLost` names the first case.
  Two protected copies of one ticket in one bucket make the strict index raise, and with it every
  move that indexes the same folders, whichever ticket it is for.
- Board, without any crash in the move itself: a ticket is discarded, an archived copy of it that
  counts as an actioned one is left (one cut short by an earlier crash is enough), and the ticket
  is moved back to a queue. The sweep after the rename (`tickets.py:395-396`) takes the copy just
  moved for a queued duplicate and archives it, and `move_ticket_file` returns a path where there is
  no file. `Landed` names this one exception.
- Batch. A crash between the move to `3 - in_progress` and the record, or a
  `future.result()` that raises after the entry was taken out, leaves a claimed ticket
  that `batch recover` never finds (`lost`). Recover sends every in-flight ticket back
  to the ready queue, also one its run had moved to review (moves between actioned
  buckets do not go back, moves to a queued one do), and does not change the state file;
  a failed entry without a run directory is skipped. While a run that outlived its batch
  goes on, recover lets a second one start. After a crash between a replan and its
  synchronisation the atom actions stay stale until the next synchronisation. An empty
  list of conflict keys (`batch_runner.py:1013`) excludes nobody.
- Correction scheduler. A group accepted while the problem-mining group was paused stays
  `accepted` (`staged.py:4254-4266`) when that group's repair is accepted later, though its items are
  regenerated, or removed with their problem (`qualification_repair_runtime.py:1857-2034`): its
  repair may be gone from the documents, and the completion counts it all the same. A provider that asks
  to wait in the middle of that regeneration leaves the merged documents as the current ones
  (`staged.py:4177-4190`) without an accepted repair. `RepairsAccumulate` names these cases.
- Correction scheduler. A checkpoint or completion cut short makes every later call
  raise. An attempt that died twice ends every later call before the groups after it
  (`reconciliation_indeterminate`). A group held back behind a causal predecessor is
  pending for ever, so no completion is written. The author process of a dead scorer may
  still be running when the next one reconciles.

## 7. What is abstracted and what is left out

- Contents: YAML and Markdown text, wording, fingerprints and paths. The
  ledger's other fields. Evidence that did not pass. The transition history.
- The workflow assumes that retained artifacts stay readable and valid, and that a
  ticket is found where its command looks for it. The checks before `gh pr merge`
  (CI, reviews, plan contract) decide only whether the command gets there. A merge
  after an amendment is refused by reconciliation, as in the code. There the ticket
  is one file that is written at once. What a crash in that write leaves, and the moves between
  folders, are in TicketBoard, which does not know what the outcome says; a progression or an advance over a
  ticket cut short, which fails to read an outcome there, is in neither. A receipt of the merge
  is one that passed the comparison with the record's commit where it was brought
  (`commands/outcome.py:174`): validation itself makes it only for amended records. An
  advance may bring several receipts at once; the model brings one.
- Broker: a stop that cancels (`cancel_pending=True`) has no caller outside the
  tests; follow-up attempts each have directories of their own; missing artifacts of a
  response lead to a rerun like a changed workspace; the polling of a client changes
  nothing. The runner is modelled with `verification_reuse` in its mode `auto`.
- Board: one scan of all folders is one step; the parsing of a ticket is what the scan
  finds of it; a cut ends before the generated marker, after it, or inside the block behind the
  text: one inside a character, which the index refuses to decode, is left out; `plan_index_conflicting_active_outcomes`, which refuses folders whose
  actioned copies have different outcomes, is left out; owner repositories are one.
- Batch: a ticket has one copy there; `persist_state` (state, blockers and summary, in
  place) is one step, recover is one step and runs only when no batch is alive; the
  second phase repeats the first on another set of tickets. Selection of severities,
  dry runs, reports and the refresh command's own steps are left out: a refresh exports
  any set of planned tickets. The processes that a killed run has started are not followed.
- Scheduler: the author run is its outcome, the documents are the set of groups whose
  repairs they contain, and the causal plan after an accepted problem-mining repair is
  any plan. An accepted repair has something to repair. The groups of a plan share no
  problem (`qualification_repair_runtime.py:560-634`) until a problem-mining repair merges
  problems; from then on any later repair may regenerate another group's items.

Not modelled:

- Resume and handoff: one command at a time over git, a run directory and GitHub.
  What a batch sees of it, whether a ticket can be resumed and how often it was, is in
  BatchRunner.
- Lifecycle log: an append under a lock whose protocol is the ledger lock's,
  which LockFile shows, its takeover included; readers reject a torn tail.
- Backlog refresh: an ordered list of external commands under an operating-system
  lock; its sweep is in OutcomeWorkflow, its export in BatchRunner.
- Continuous loop and watchdog: they start and restart the commands that are
  modelled, on timers and process tables, with counters of their own.
- Selection, provenance and outcome verification: filters and checks over files.
- Runner: one sequential program around external processes; its concurrent part is
  the broker.
- Agent adapters and sandbox_runner: command lines, parsers and Docker: pure I/O.
- The rest of the backlog pipeline (`backlog_core`, `backlog_miner`, the other
  workflows), most of the repository's lines: validation of and computation over documents
  that language models produce, in one process, from files to files. What they decide is in
  the data, which no finite model tells apart; where they keep durable state across calls is
  CorrectionScheduler.
- Reporting, normalisation, token monitoring: pure functions from artifacts to reports.

Readers of the ledger take no lock (the batch runner, the review context, the
continuous loop); they may meet a document that is being written, which `load_ledger`
refuses as it refuses a torn one.

## 8. What could come next

A lifecycle log refining a set of keys that only grows, and the refresh with its cycle of
shadow validations, are the parts that would gain most from modules of their own. Of what is
modelled, the second phase of a batch and a recover that runs while old runs are still going
are the next steps of BatchRunner; resume and handoff would follow from there.
