-------------------------- MODULE OutcomeWorkflow --------------------------
(***************************************************************************)
(* The commands that create and advance the outcome of one generated       *)
(* ticket, over the transactions of OutcomeTransaction:                    *)
(*   review merge (commands/review.py) merges the PR, writes the outcome   *)
(*     into the ticket without the ledger lock (tickets.py,                *)
(*     move_ticket_file), then into the ledger, then progresses it;        *)
(*   the progression (outcome_progression.py), also started by every       *)
(*     backlog refresh, runs the roles the plan needs and records them;    *)
(*   outcome advance and outcome bind-verification-amendment               *)
(*     (commands/outcome.py) record what an operator brings.               *)
(* All of them compute what they write from a copy of the ticket's outcome *)
(* that they read without the lock.                                        *)
(***************************************************************************)
EXTENDS OutcomeTransaction

CONSTANTS
  Mergers, Refreshers, Operators,   \* who may issue which command
  Brings,        \* bound: the evidence an operator may bring
  RiskLists,     \* bound: the remaining_risks an operator may write
  Expected,      \* the outcome the researched plan claims: resolved or mitigated
  RequiresLive,  \* does the plan cross a live boundary?
  Tested,        \* did the implementation run retain passing test evidence?
  MergeCommit    \* the commit the PR is merged as

ASSUME WorkflowAssumption ==
  /\ Mergers \cup Refreshers \cup Operators \subseteq Procs
  /\ Brings \subseteq {"original", "live", "mitigation", "recurrence"}
  /\ RiskLists \subseteq SUBSET Risks
  /\ Expected \in {"resolved", "mitigated"}
  /\ RequiresLive \in BOOLEAN
  /\ Tested \in BOOLEAN
  /\ MergeCommit \in Commits
  /\ None \notin Record /\ Refused \notin Record
  /\ Times # {}

VARIABLES
  merged,   \* is the pull request merged?
  at,       \* where each process is in its command
  copy,     \* the outcome each process has read
  todo,     \* the roles each progression still has to run
  wish,     \* the outcome a review merge wants in both stores
  torn      \* has a review merge crashed or failed between its two writes? (history)

wvars == <<merged, at, copy, todo, wish, torn>>
allVars == <<vars, wvars>>

Roles == {"original", "live", "mitigation"}

Proves ==
  [original |-> "original_scenario_verified", live |-> "live_verified",
   mitigation |-> "mitigated"]

(* _PROGRESSIBLE_OUTCOME_STATES without "unverified" *)
Demotable ==
  {"implemented", "tests_verified", "original_scenario_verified", "live_verified"}

Sites ==
  {"out", "merge", "propose", "file", "write", "record",
   "load", "restore", "restoring", "plan", "roles", "role", "proving",
   "concluding", "blocked", "blocking", "aborted", "advance", "advancing"}

WorkflowTypeOK ==
  /\ TypeOK
  /\ merged \in BOOLEAN
  /\ at \in [Procs -> Sites]
  /\ copy \in [Procs -> Record \cup {None}]
  /\ todo \in [Procs -> SUBSET Roles]
  /\ wish \in [Procs -> Record \cup {None}]
  /\ torn \in BOOLEAN

WorkflowInit ==
  /\ Init
  /\ merged = FALSE
  /\ at = [p \in Procs |-> "out"]
  /\ copy = [p \in Procs |-> None]
  /\ todo = [p \in Procs |-> {}]
  /\ wish = [p \in Procs |-> None]
  /\ torn = FALSE

-----------------------------------------------------------------------------
(* Steps of a command. *)

Between(p, site) == at[p] = site /\ pc[p] = "idle"

GoOn(p, site) == at' = [at EXCEPT ![p] = site]

(* The command ends: its local variables are gone. *)
Forget(p) ==
  /\ copy' = [copy EXCEPT ![p] = None]
  /\ todo' = [todo EXCEPT ![p] = {}]
  /\ wish' = [wish EXCEPT ![p] = None]

Exit(p, site) == GoOn(p, site) /\ Forget(p)

(* The command goes on at a site, or ends there. *)
GoOnOrExit(p, site) ==
  IF site \in {"out", "aborted"}
  THEN Exit(p, site)
  ELSE GoOn(p, site) /\ UNCHANGED <<copy, todo, wish>>

(* A step of a transaction that a command has called. *)
Within(p) == Inside(p) /\ UNCHANGED wvars

(* The transaction called at `site` is over; its normal and its            *)
(* exceptional end lead to different sites.                                *)
Resume(p, site, normal, exceptional) ==
  /\ at[p] = site
  /\ \/ Return(p) /\ GoOnOrExit(p, normal)
     \/ Raise(p) /\ GoOnOrExit(p, exceptional)
  /\ UNCHANGED <<merged, torn>>

CallFrom(p, site, o) ==
  /\ Call(p, o)
  /\ GoOn(p, site)
  /\ UNCHANGED <<merged, copy, todo, wish, torn>>

Now == CHOOSE t \in Times : TRUE

Move(state, updates) ==
  [kind |-> "advance", state |-> state, at |-> Now, updates |-> updates]

-----------------------------------------------------------------------------
(* review merge. *)

(* _build_merge_outcome_record *)
FreshOutcome ==
  [state |-> IF Tested THEN "tests_verified" ELSE "implemented",
   scope |-> "case", requires_live |-> RequiresLive,
   merged_commit |-> MergeCommit, amendment |-> NoCommit, test |-> Tested,
   original |-> {}, live |-> {}, mitigation |-> {}, recurrence |-> "not_run",
   recurrence_evidence |-> {}, risks |-> {}, related |-> FALSE,
   recorded_at |-> Now]

(* A ticket has no outcome before its pull request is merged.              *)
ASSUME StartAssumption == Start \in {None, FreshOutcome}

(* Faulty variant: the proposal replaces what the store holds. *)
RecordedOver(found, r) == r

(* What a store that holds `found` is to hold when r is recorded. *)
Recorded(found, r) == IF found = None THEN r ELSE Reconcile(found, r)

(* Both stores are read; the command refuses when they disagree. *)
Preflight(p) ==
  /\ p \in Mergers
  /\ Between(p, "out")
  /\ ticket = None \/ ledger = None \/ ticket = ledger
  /\ copy' = [copy EXCEPT ![p] = IF ticket # None THEN ticket ELSE ledger]
  /\ GoOn(p, IF merged THEN "propose" ELSE "merge")
  /\ UNCHANGED <<vars, merged, todo, wish, torn>>

(* gh pr merge; it fails when another process has merged meanwhile. *)
MergePR(p) ==
  /\ Between(p, "merge")
  /\ merged' = TRUE
  /\ GoOnOrExit(p, IF merged THEN "out" ELSE "propose")
  /\ UNCHANGED <<vars, torn>>

(* _reconcile_merge_outcome *)
Propose(p) ==
  LET r == Recorded(copy[p], FreshOutcome)
  IN /\ Between(p, "propose")
     /\ \/ /\ r = Refused
           /\ Exit(p, "out")
        \/ /\ r # Refused
           /\ GoOn(p, "file")
           /\ wish' = [wish EXCEPT ![p] = r]
           /\ UNCHANGED <<copy, todo>>
     /\ UNCHANGED <<vars, merged, torn>>

(* move_ticket_file reads the ticket ... *)
ReadTicket(p) ==
  /\ Between(p, "file")
  /\ copy' = [copy EXCEPT ![p] = ticket]
  /\ GoOn(p, "write")
  /\ UNCHANGED <<vars, merged, todo, wish, torn>>

(* ... and writes it back, when the reconciled outcome is another one.     *)
WriteTicket(p) ==
  LET r == Recorded(copy[p], wish[p])
  IN /\ Between(p, "write")
     /\ \/ /\ r = Refused \/ WriteMayFail
           /\ Exit(p, "out")
           /\ UNCHANGED ticket
        \/ /\ r # Refused
           /\ ticket' = IF r = copy[p] THEN ticket ELSE r
           /\ GoOn(p, "record")
           /\ UNCHANGED <<copy, todo, wish>>
     /\ UNCHANGED <<ledger, holder, pc, op, staged, before, crashes, split, merged, torn>>

(* update_ledger_file with the outcome, under the lock. *)
RecordInLedger(p) ==
  LET r == Recorded(ledger, wish[p])
  IN /\ Between(p, "record")
     /\ holder = Nobody
     /\ \/ /\ r = Refused
           /\ Exit(p, "out")
           /\ UNCHANGED ledger
        \/ /\ r # Refused
           /\ ledger' = r
           /\ GoOn(p, "load")
           /\ UNCHANGED <<copy, todo, wish>>
     /\ UNCHANGED <<ticket, holder, pc, op, staged, before, crashes, split, merged, torn>>

(* Its lock is not free in time, or the ledger cannot be written: the      *)
(* command ends with an exception.                                         *)
RecordFails(p) ==
  /\ Between(p, "record")
  /\ WriteMayFail \/ holder # Nobody
  /\ Exit(p, "out")
  /\ torn' = (torn \/ ledger # None)
  /\ UNCHANGED <<vars, merged>>

ReviewMerge(p) ==
  \/ Preflight(p) \/ MergePR(p) \/ Propose(p)
  \/ ReadTicket(p) \/ WriteTicket(p) \/ RecordInLedger(p) \/ RecordFails(p)

-----------------------------------------------------------------------------
(* progress_post_merge_outcome. *)

(* Faulty variant: a blocked outcome is taken for a final one. *)
StartRefreshUnblocked(p) ==
  /\ p \in Refreshers
  /\ Between(p, "out")
  /\ ticket # None
  /\ ticket.state \in Demotable
  /\ GoOn(p, "load")
  /\ UNCHANGED <<vars, merged, copy, todo, wish, torn>>

(* progress_pending_outcomes_before_refresh finds the ticket. *)
StartRefresh(p) ==
  /\ p \in Refreshers
  /\ Between(p, "out")
  /\ ticket # None
  /\ ticket.state \in Demotable \cup {"unverified"}
  /\ GoOn(p, "load")
  /\ UNCHANGED <<vars, merged, copy, todo, wish, torn>>

Load(p) ==
  LET next ==
        CASE ticket.state = Expected -> "out"
          [] ticket.state \in {"resolved", "mitigated"} \ {Expected} -> "blocked"
          [] ticket.state \in Demotable \ {"implemented"} -> "plan"
          [] OTHER -> IF ticket.test THEN "restore" ELSE "blocked"
  IN /\ Between(p, "load")
     /\ GoOn(p, next)
     /\ IF next = "out"
        THEN Forget(p)
        ELSE /\ copy' = [copy EXCEPT ![p] = ticket]
             /\ UNCHANGED <<todo, wish>>
     /\ UNCHANGED <<vars, merged, torn>>

(* _restore_test_verified_baseline *)
Restore(p) ==
  /\ Between(p, "restore")
  /\ CallFrom(p, "restoring", Move("tests_verified", <<>>))

Restored(p) == Resume(p, "restoring", "plan", "blocked")

(* The roles without a passing receipt from the commit to be verified.     *)
Needed(r) ==
  {role \in Roles :
     /\ ~Effective(r[role], r.amendment)
     /\ role = "live" => Expected = "resolved" /\ RequiresLive
     /\ role = "mitigation" => Expected = "mitigated"}

(* They are computed from what the baseline left, which keeps every        *)
(* receipt of the copy.                                                    *)
Plan(p) ==
  /\ Between(p, "plan")
  /\ todo' = [todo EXCEPT ![p] = Needed(copy[p])]
  /\ GoOn(p, "roles")
  /\ UNCHANGED <<vars, merged, copy, wish, torn>>

Following(roles) ==
  IF "original" \in roles THEN "original"
  ELSE IF "live" \in roles THEN "live" ELSE "mitigation"

(* The current outcome is read, then the role runs for as long as it takes. *)
RunRole(p) ==
  /\ Between(p, "roles")
  /\ todo[p] # {}
  /\ copy' = [copy EXCEPT ![p] = ticket]
  /\ GoOn(p, "role")
  /\ UNCHANGED <<vars, merged, todo, wish, torn>>

RoleFails(p) ==
  /\ Between(p, "role")
  /\ GoOn(p, "blocked")
  /\ UNCHANGED <<vars, merged, copy, todo, wish, torn>>

(* Faulty variant: the new receipt replaces the earlier ones. *)
MergedReplacing(r, role, x) == {x}

(* _merge_evidence, _merge_evidence_entries *)
MergedEvidence(r, role, x) == r[role] \cup {x}

RolePasses(p) ==
  /\ Between(p, "role")
  /\ \E x \in Receipts :
       /\ Executed[x] = copy[p].amendment
       /\ LET role == Following(todo[p])
              evidence == MergedEvidence(copy[p], role, x)
              risks == copy[p].risks \ {"blocked"}
          IN CallFrom(p, "proving",
                      Move(Proves[role], [f \in {role, "risks"} |->
                                            IF f = role THEN evidence ELSE risks]))

Proved(p) ==
  /\ at[p] = "proving"
  /\ \/ /\ Return(p)
        /\ todo' = [todo EXCEPT ![p] = @ \ {Following(@)}]
        /\ GoOn(p, "roles")
     \/ /\ Raise(p)
        /\ GoOn(p, "blocked")
        /\ UNCHANGED todo
  /\ UNCHANGED <<merged, copy, wish, torn>>

(* Every role has passed: the expected state is claimed, unless a role's   *)
(* own transition has reached it.                                          *)
ProofsFound(r) ==
  /\ r.original # {}
  /\ Expected = "mitigated" => r.mitigation # {}
  /\ Expected = "resolved" /\ RequiresLive => r.live # {}

Claim(r) ==
  IF Expected = "mitigated"
  THEN Move("mitigated", [risks |-> r.risks \ {"blocked"}])
  ELSE Move("resolved",
            [risks |-> (r.risks \ {"blocked"}) \cup {"unobserved"},
             recurrence |-> "not_observed", recurrence_evidence |-> {}])

Conclude(p) ==
  /\ Between(p, "roles")
  /\ todo[p] = {}
  /\ \/ /\ ticket.state # Expected /\ ProofsFound(ticket)
        /\ CallFrom(p, "concluding", Claim(ticket))
     \/ /\ ticket.state = Expected \/ ~ProofsFound(ticket)
        /\ GoOnOrExit(p, IF ticket.state = Expected THEN "out" ELSE "blocked")
        /\ UNCHANGED <<vars, merged, torn>>

Concluded(p) == Resume(p, "concluding", "out", "blocked")

(* _record_blocked_progression *)
RecordBlock(p) ==
  /\ Between(p, "blocked")
  /\ \/ /\ ticket.state \notin Demotable
        /\ Exit(p, "out")
        /\ UNCHANGED <<vars, merged, torn>>
     \/ /\ ticket.state \in Demotable
        /\ CallFrom(p, "blocking",
                    Move("unverified", [risks |-> ticket.risks \cup {"blocked"}]))

(* An exception of that transaction has no handler: it leaves the          *)
(* progression, and the sweep over the other tickets with it.              *)
Blocked(p) == Resume(p, "blocking", "out", "aborted")

Restart(p) ==
  /\ Between(p, "aborted")
  /\ Exit(p, "out")
  /\ UNCHANGED <<vars, merged, torn>>

Progression(p) ==
  \/ Load(p) \/ Restore(p) \/ Restored(p) \/ Plan(p)
  \/ RunRole(p) \/ RoleFails(p) \/ RolePasses(p) \/ Proved(p)
  \/ Conclude(p) \/ Concluded(p)
  \/ RecordBlock(p) \/ Blocked(p) \/ Restart(p)

-----------------------------------------------------------------------------
(* outcome advance and outcome bind-verification-amendment. *)

ReadOutcome(p) ==
  /\ p \in Operators
  /\ Between(p, "out")
  /\ ticket # None
  /\ copy' = [copy EXCEPT ![p] = ticket]
  /\ GoOn(p, "advance")
  /\ UNCHANGED <<vars, merged, todo, wish, torn>>

(* --state *)
Advances ==
  {"tests_verified", "original_scenario_verified", "live_verified", "resolved",
   "mitigated", "unverified"}

(* --evidence-json brings a receipt of a run on the commit to verify, for  *)
(* a role or for the recurrence check, or says that no new source window   *)
(* was there to observe ...                                                *)
Brought(r) ==
  LET fresh == {x \in Receipts : Executed[x] = r.amendment}
      proofs == {[f \in {role} |-> MergedEvidence(r, role, x)] : role \in Roles \cap Brings, x \in fresh}
      observed == {[recurrence |-> "completed",
                    recurrence_evidence |-> r.recurrence_evidence \cup {x}] : x \in fresh}
      unobserved == [recurrence |-> "not_observed", recurrence_evidence |-> {}]
  IN proofs \cup IF "recurrence" \in Brings THEN observed \cup {unobserved} ELSE {}

(* ... and may replace the remaining risks with it. *)
WithRisks(u, risks) ==
  [f \in DOMAIN u \cup {"risks"} |-> IF f = "risks" THEN risks ELSE u[f]]

AdvanceOutcome(p) ==
  /\ Between(p, "advance")
  /\ \E state \in Advances, u \in Brought(copy[p]) :
       \/ CallFrom(p, "advancing", Move(state, u))
       \/ \E risks \in RiskLists : CallFrom(p, "advancing", Move(state, WithRisks(u, risks)))

BindAmendment(p) ==
  /\ Between(p, "advance")
  /\ \E c \in Commits : CallFrom(p, "advancing", [kind |-> "bind", commit |-> c])

Advanced(p) == Resume(p, "advancing", "out", "out")

Operate(p) ==
  ReadOutcome(p) \/ AdvanceOutcome(p) \/ BindAmendment(p) \/ Advanced(p)

-----------------------------------------------------------------------------

(* The process dies.  The stores are torn when it had written one of them. *)
Die(p) ==
  /\ at[p] # "out"
  /\ Crash(p)
  /\ Exit(p, "out")
  /\ torn' = (torn \/ (at[p] = "record" /\ ledger # None))
  /\ UNCHANGED merged

Work(p) == Within(p) \/ ReviewMerge(p) \/ StartRefresh(p) \/ Progression(p)

WorkflowNext == \E p \in Procs : Work(p) \/ Operate(p) \/ Die(p)

WorkflowSpec == WorkflowInit /\ [][WorkflowNext]_allVars

(* A command that was started goes on, every backlog refresh starts with   *)
(* the progression, and a role that is run again and again passes in the   *)
(* end: its failures are timeouts and transport failures.  Nobody has to   *)
(* start a review merge.                                                   *)
FairWorkflowSpec ==
  /\ WorkflowSpec
  /\ \A p \in Procs :
       /\ WF_allVars(at[p] # "out" /\ Work(p))
       /\ SF_allVars(StartRefresh(p))
       /\ \A role \in Roles : SF_allVars(Following(todo[p]) = role /\ RolePasses(p))

-----------------------------------------------------------------------------
(* Properties. *)

(* When no command is running, the ticket and the ledger hold the same     *)
(* outcome, but for a ledger that a review merge did not reach yet (its    *)
(* rerun completes it).  Three things may leave them apart, and no other:  *)
(* a crash between the writes of a review merge, a failure of its write of *)
(* the ledger (both torn), a transaction that could not be rolled back     *)
(* (split).  Review merge, outcome advance and the progression then refuse *)
(* the ticket.                                                             *)
StoresAgree ==
  /\ \A p \in Procs : at[p] \in {"out", "aborted"}
  /\ ~torn /\ ~split
  => ticket = ledger \/ ledger = None

(* Only the one writer outside the transactions, a merge retry, ever takes *)
(* a role's receipt out of the ticket, and only of an unverified outcome.  *)
OnlyRetryDropsProof ==
  [][ticket # None /\ (\E role \in Roles : ~(ticket[role] \subseteq ticket'[role]))
       => ticket.state = "unverified" /\ \E p \in Procs : at[p] = "write"]_allVars

(* "Merge retries preserve an outcome that has already advanced beyond     *)
(* tests_verified" (apps/usertest_implement/README.md:405), and a terminal *)
(* outcome stays what it is, whoever writes the ticket next.               *)
TerminalIsFinal ==
  [][ticket # None /\ ticket.state = Expected => ticket'.state = Expected]_allVars

(* "Pending outcome proof is case-local, not a global backlog stop"        *)
(* (docs/design/backlog_six_stage_pipeline.md): no progression ends with   *)
(* an exception that stops the sweep over the other tickets.               *)
SweepGoesOn == \A p \in Procs : at[p] # "aborted"

(* Once review merge has recorded the outcome in both stores, it reaches   *)
(* what the plan claims, whatever role fails and wherever a command        *)
(* crashes on the way, unless a crash tears the stores.                    *)
ReachesClaim ==
  (ticket # None /\ ledger # None) ~> (torn \/ split \/ (ticket # None /\ ticket.state = Expected))
=============================================================================
