-------------------------- MODULE VerificationReuse --------------------------
(***************************************************************************)
(* What the runner does with the broker of one attempt (runner.py): it     *)
(* stops the broker when the agent has returned, drains it, and, if nobody *)
(* has asked for a verification, starts a second broker on the same        *)
(* directories for a request of its own.  A client that the agent started  *)
(* may still write its request while this goes on.  Then the runner picks  *)
(* one result and reuses it if the workspace is what it was when that      *)
(* verification ended; otherwise it runs the commands again itself.        *)
(***************************************************************************)
EXTENDS VerificationBroker

VARIABLES
  runner,      \* where the runner is in the attempt
  known,       \* the requests listed after the agent's broker had ended
  fallback,    \* the result of the runner's own request, if it had one in time
  chosen,      \* the result whose proof is examined
  source,      \* where the verification of the attempt comes from
  early        \* the requests made when a broker was last told to stop (history)

runnerVars == <<runner, known, fallback, chosen, source, early>>
vars == <<brokerVars, runnerVars>>

NoResult == [request |-> NoRequest, status |-> "none", hash |-> Unhashed]

TypeOK ==
  /\ BrokerTypeOK
  /\ runner \in {"agent", "drain", "list", "decide", "ask", "await", "drain again",
                 "choose", "judge", "done"}
  /\ known \subseteq Requests
  /\ fallback \in Result \cup {NoResult}
  /\ chosen \in Result \cup {NoResult}
  /\ source \in {"none", "broker_reuse", "post_agent_rerun"}
  /\ early \subseteq Requests

Init ==
  /\ BrokerInit
  /\ runner = "agent"
  /\ known = {} /\ fallback = NoResult /\ chosen = NoResult /\ source = "none"
  /\ early = {}

Proceed(from, to) == runner = from /\ runner' = to

(* A step of the broker or of a client, as long as the attempt lasts.      *)
Broker ==
  /\ runner # "done"
  /\ Loop \/ Die \/ Settle \/ \E c \in Clients : Ask(c)
  /\ UNCHANGED runnerVars

(* The agent works on the files, also while a verification runs or its end *)
(* is about to be hashed: that verification has then seen both versions.   *)
Edit ==
  /\ runner = "agent"
  /\ workspace < MaxEdits
  /\ workspace' = workspace + 1
  /\ onCurrent' = IF worker \in {"verify", "hash"} THEN {serving} ELSE {}
  /\ UNCHANGED <<asked, response, worker, processed, batch, busy, serving,
                 status, results, stopping, settled>>
  /\ UNCHANGED <<runner, known, fallback, chosen, source, early>>

AgentReturns ==
  /\ Proceed("agent", "drain")
  /\ Stop
  /\ early' = asked
  /\ UNCHANGED <<known, fallback, chosen, source>>

(* The thread is joined.  Without a valid report there is nothing to verify. *)
Drained1(ready) ==
  /\ Joined
  /\ Proceed("drain", IF ready THEN "list" ELSE "done")
  /\ UNCHANGED <<brokerVars, known, fallback, chosen, source, early>>

(* request_ids() *)
ListRequests ==
  /\ Proceed("list", "decide")
  /\ known' = asked \ Malformed
  /\ UNCHANGED <<brokerVars, fallback, chosen, source, early>>

(* The results of the requests in ids, and the last of them.               *)
At(ids) == {i \in DOMAIN results : results[i].request \in ids}
Latest(ids) ==
  IF At(ids) = {} THEN NoResult
  ELSE results[CHOOSE i \in At(ids) : \A j \in At(ids) : j <= i]

Requested == known # {} \/ results # <<>>

TakeLatest ==
  /\ Requested
  /\ Proceed("decide", "judge")
  /\ chosen' = Latest(Requests)
  /\ UNCHANGED <<brokerVars, known, fallback, source, early>>

(* Faulty variant: the second broker is started in any case. *)
StartFallbackAlways ==
  /\ Proceed("decide", "ask")
  /\ Fresh("scan")
  /\ UNCHANGED <<asked, response, workspace, onCurrent>>
  /\ UNCHANGED <<known, fallback, chosen, source, early>>

(* A second broker on the same directories, with the same token.           *)
StartFallback ==
  /\ ~Requested
  /\ Proceed("decide", "ask")
  /\ Fresh("scan")
  /\ UNCHANGED <<asked, response, workspace, onCurrent>>
  /\ UNCHANGED <<known, fallback, chosen, source, early>>

(* request_and_wait *)
AskFallback ==
  /\ Proceed("ask", "await")
  /\ asked' = asked \cup {Own}
  /\ UNCHANGED <<response, worker, processed, batch, busy, serving, status,
                 results, stopping, settled, workspace, onCurrent>>
  /\ UNCHANGED <<known, fallback, chosen, source, early>>

(* Its result is there, or the waiting time is over; the broker is stopped.*)
Answer ==
  /\ At({Own}) # {}
  /\ fallback' = Latest({Own})

TimeOut ==
  /\ At({Own}) = {}
  /\ UNCHANGED fallback

(* Faulty variant: the runner waits for its result without a limit.        *)
AwaitAnswer ==
  /\ Proceed("await", "drain again")
  /\ Answer
  /\ Stop
  /\ early' = asked
  /\ UNCHANGED <<known, chosen, source>>

AwaitFallback ==
  /\ Proceed("await", "drain again")
  /\ Answer \/ TimeOut
  /\ Stop
  /\ early' = asked
  /\ UNCHANGED <<known, chosen, source>>

DrainedAgain ==
  /\ Joined
  /\ Proceed("drain again", "choose")
  /\ known' = asked \ Malformed
  /\ UNCHANGED <<brokerVars, fallback, chosen, source, early>>

(* The last valid result of another request than the runner's own, which   *)
(* it knows only when its result came in time; then its own; then any.     *)
Choose ==
  LET late == Latest(known \ {fallback.request})
  IN /\ Proceed("choose", "judge")
     /\ chosen' = IF late # NoResult THEN late
                  ELSE IF fallback # NoResult THEN fallback ELSE Latest(Requests)
     /\ UNCHANGED <<brokerVars, known, fallback, source, early>>

(* Faulty variant: a result that passed is reused whatever the workspace is. *)
ReusableAnyway == chosen # NoResult

(* A result that did not pass is taken as it is; one that passed, only if  *)
(* the workspace still has the hash of the end of that verification.       *)
Reusable ==
  /\ chosen # NoResult
  /\ chosen.status = "passed" => chosen.hash = workspace

Judge ==
  /\ Proceed("judge", "done")
  /\ source' = IF Reusable THEN "broker_reuse" ELSE "post_agent_rerun"
  /\ UNCHANGED <<brokerVars, known, fallback, chosen, early>>

Run ==
  \/ Drained1(TRUE) \/ Drained1(FALSE) \/ ListRequests
  \/ TakeLatest \/ StartFallback
  \/ AskFallback \/ AwaitFallback
  \/ DrainedAgain \/ Choose \/ Judge

Next == Broker \/ Edit \/ AgentReturns \/ Run

(* Threads and the runner keep running, verifications end by the broker's  *)
(* internal deadline, settle times pass.  Nothing is assumed of the agent, *)
(* its clients or the exceptions.                                          *)
Fairness ==
  /\ WF_vars(Broker /\ Loop)
  /\ SF_vars(Broker /\ Settle)
  /\ WF_vars(Run)

Spec == Init /\ [][Next]_vars /\ Fairness

-----------------------------------------------------------------------------
(* Properties. *)

(* A client that read an answer, or will, reads the only one: the runner's *)
(* second broker, which knows nothing of what the first has processed,     *)
(* writes over no terminal response (verification_broker.py:1373,          *)
(* runner.py:6774-6803).                                                   *)
AnswersAreFinal ==
  [][\A r \in Requests : Answered(r) => response'[r] = response[r]]_vars

(* "returning before that request reaches a terminal result lets callers   *)
(* tear down its workspace underneath it" (verification_broker.py:897):    *)
(* when a worker, the agent's or the runner's, ends of its own accord,     *)
(* every request it accepted, and every request made before it was         *)
(* stopped, has its terminal response.                                     *)
Drained ==
  worker = "ended" => \A r \in processed \cup early : Answered(r)

(* A proof is reused only for the files it was made on: no edit came after *)
(* that verification; at most, the agent was editing while it ran          *)
(* (runner.py:6908-6921).                                                  *)
ReuseIsVerified ==
  source = "broker_reuse" /\ chosen.status = "passed" => chosen.request \in onCurrent

(* A request made while the broker is running is answered, in the order of *)
(* whatever scan, unless an exception ends the worker.                     *)
RequestAnswered ==
  \A c \in Clients :
    (c \in asked /\ ~stopping /\ worker # "dead") ~> (Answered(c) \/ worker = "dead")

(* Once the agent has returned, the attempt gets its verdict, whatever     *)
(* requests come late and whatever becomes of the worker.                  *)
VerdictReached == runner = "drain" ~> runner = "done"
=============================================================================
