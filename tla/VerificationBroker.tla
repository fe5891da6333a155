------------------------- MODULE VerificationBroker -------------------------
(***************************************************************************)
(* One VerificationBrokerAttempt (verification_broker.py): clients, which  *)
(* the agent starts, write request files and poll for response files; a    *)
(* worker thread scans the request directory, verifies one request after   *)
(* the other, and answers; a graceful stop lets the worker drain what      *)
(* arrives until nothing has arrived for _request_settle_seconds.          *)
(*                                                                         *)
(* Request and response files are written by rename, so a file is there    *)
(* whole or not at all.  A verification is abstracted to its status and to *)
(* the version of the workspace it ran on; it ends because of the broker's *)
(* internal deadline.  When the settle time is over is a choice.  A stop   *)
(* that cancels is not modelled: no caller outside the tests asks for one. *)
(***************************************************************************)
EXTENDS Naturals, Sequences

CONSTANTS
  Clients,      \* requests that the agent's clients make, one each
  Malformed,    \* those of them without a readable payload or the right token
  Own,          \* the request the runner makes itself
  NoRequest,
  MaxEdits,     \* bound on the agent's changes of the workspace
  WorkerMayDie  \* may an exception leave the worker (hashing, writing a response)?

Requests == Clients \cup {Own}

ASSUME BrokerAssumption ==
  /\ Malformed \subseteq Clients
  /\ Own \notin Clients
  /\ NoRequest \notin Requests
  /\ MaxEdits \in Nat
  /\ WorkerMayDie \in BOOLEAN

VARIABLES
  asked,       \* the requests whose file is in the request directory
  response,    \* the status in each request's response file
  worker,      \* where the worker thread is
  processed,   \* _processed_ids
  batch,       \* the rest of the directory listing of the current scan
  busy,        \* has this scan found a request?
  serving,     \* the request in hand
  status,      \* the status about to be recorded for it
  results,     \* _results: request, status, workspace hash
  stopping,    \* the event _stop
  settled,     \* _drain_deadline_monotonic has passed
  workspace,   \* the version of the workspace
  onCurrent    \* requests verified on the present version (history)

brokerVars ==
  <<asked, response, worker, processed, batch, busy, serving, status,
    results, stopping, settled, workspace, onCurrent>>

Versions == 0..MaxEdits
Unhashed == MaxEdits + 1

Terminal == {"passed", "failed", "timed_out"}
Answered(r) == response[r] \in Terminal

Result == [request : Requests, status : Terminal, hash : Versions \cup {Unhashed}]

(* No request is answered twice, so there are at most as many results.     *)
BrokerTypeOK ==
  /\ asked \subseteq Requests
  /\ response \in [Requests -> Terminal \cup {"none", "running"}]
  /\ worker \in {"scan", "take", "serve", "verify", "hash", "record",
                 "respond", "look", "test", "ended", "dead"}
  /\ processed \subseteq Requests
  /\ batch \subseteq Requests \ processed
  /\ busy \in BOOLEAN
  /\ serving \in Requests \cup {NoRequest}
  /\ status \in Terminal \cup {"none"}
  /\ results \in Seq(Result)
  /\ \A i, j \in DOMAIN results : results[i].request = results[j].request => i = j
  /\ stopping \in BOOLEAN /\ settled \in BOOLEAN
  /\ workspace \in Versions
  /\ onCurrent \subseteq Requests

(* A new attempt object over directories that may hold files already.      *)
Fresh(state) ==
  /\ worker' = state
  /\ processed' = {} /\ batch' = {} /\ busy' = FALSE
  /\ serving' = NoRequest /\ status' = "none"
  /\ results' = <<>>
  /\ stopping' = FALSE /\ settled' = FALSE

BrokerInit ==
  /\ asked = {}
  /\ response = [r \in Requests |-> "none"]
  /\ worker = "scan"
  /\ processed = {} /\ batch = {} /\ busy = FALSE
  /\ serving = NoRequest /\ status = "none"
  /\ results = <<>>
  /\ stopping = FALSE /\ settled = FALSE
  /\ workspace = 0
  /\ onCurrent = {}

Goto(from, to) == worker = from /\ worker' = to

-----------------------------------------------------------------------------
(* main() of the client script.  What it does next, polling for the answer *)
(* and giving up, changes nothing: a request is never withdrawn.           *)
Ask(c) ==
  /\ c \notin asked
  /\ asked' = asked \cup {c}
  /\ UNCHANGED <<response, worker, processed, batch, busy, serving, status,
                 results, stopping, settled, workspace, onCurrent>>

-----------------------------------------------------------------------------
(* The worker thread. *)

(* The loop continues with the next file of the listing, or looks for the  *)
(* end of the loop.                                                        *)
Next1(rest) == IF rest = {} THEN "look" ELSE "take"

(* The directory is listed. *)
Scan ==
  LET listing == asked \ processed
  IN /\ Goto("scan", Next1(listing))
     /\ batch' = listing
     /\ busy' = (listing # {})
     /\ UNCHANGED <<asked, response, processed, serving, status,
                    results, stopping, settled, workspace, onCurrent>>

(* Faulty variant: the whole listing is marked, one request is served. *)
TakeMarkingAll(r) ==
  /\ Goto("take", "serve")
  /\ r \in batch
  /\ batch' = {}
  /\ processed' = processed \cup batch
  /\ serving' = r
  /\ UNCHANGED <<asked, response, busy, status, results, stopping,
                 settled, workspace, onCurrent>>

(* A request is marked as processed before it is served. *)
Take(r) ==
  /\ Goto("take", "serve")
  /\ r \in batch
  /\ batch' = batch \ {r}
  /\ processed' = processed \cup {r}
  /\ serving' = r
  /\ UNCHANGED <<asked, response, busy, status, results, stopping,
                 settled, workspace, onCurrent>>

Reject ==
  /\ Goto("serve", "record")
  /\ serving \in Malformed
  /\ status' = "failed"
  /\ UNCHANGED <<asked, response, processed, batch, busy, serving,
                 results, stopping, settled, workspace, onCurrent>>

(* The snapshots "pending" and "running" are written; the verifier starts. *)
Accept ==
  /\ Goto("serve", "verify")
  /\ serving \notin Malformed
  /\ response' = [response EXCEPT ![serving] = "running"]
  /\ onCurrent' = onCurrent \cup {serving}
  /\ UNCHANGED <<asked, processed, batch, busy, serving, status,
                 results, stopping, settled, workspace>>

Verify(s) ==
  /\ Goto("verify", IF s = "passed" THEN "hash" ELSE "record")
  /\ status' = s
  /\ UNCHANGED <<asked, response, processed, batch, busy, serving,
                 results, stopping, settled, workspace, onCurrent>>

AddResult(hash) ==
  results' = Append(results, [request |-> serving, status |-> status, hash |-> hash])

(* workspace_hash_fn, after a verification that passed; the result is      *)
(* there for the runner before the client can read it.                     *)
Hash ==
  /\ Goto("hash", "respond")
  /\ AddResult(workspace)
  /\ UNCHANGED <<asked, response, processed, batch, busy, serving,
                 status, stopping, settled, workspace, onCurrent>>

Record ==
  /\ Goto("record", "respond")
  /\ AddResult(Unhashed)
  /\ UNCHANGED <<asked, response, processed, batch, busy, serving,
                 status, stopping, settled, workspace, onCurrent>>

Respond ==
  /\ Goto("respond", Next1(batch))
  /\ response' = [response EXCEPT ![serving] = status]
  /\ serving' = NoRequest
  /\ status' = "none"
  /\ UNCHANGED <<asked, processed, batch, busy, results, stopping,
                 settled, workspace, onCurrent>>

(* The end of one iteration: while stopping, a request found or waiting    *)
(* renews the drain deadline.                                              *)
Look ==
  /\ Goto("look", IF stopping THEN "test" ELSE "scan")
  /\ settled' = (settled /\ ~(stopping /\ (busy \/ asked \ processed # {})))
  /\ UNCHANGED <<asked, response, processed, batch, busy, serving,
                 status, results, stopping, workspace, onCurrent>>

(* Faulty variant: the end of the drain does not look for requests.        *)
TestDeadlineOnly ==
  /\ Goto("test", IF settled THEN "ended" ELSE "scan")
  /\ UNCHANGED <<asked, response, processed, batch, busy, serving,
                 status, results, stopping, settled, workspace, onCurrent>>

(* The directory is read again before the thread ends. *)
Test ==
  /\ Goto("test", IF settled /\ asked \subseteq processed THEN "ended" ELSE "scan")
  /\ UNCHANGED <<asked, response, processed, batch, busy, serving,
                 status, results, stopping, settled, workspace, onCurrent>>

(* An exception outside the `try` around the verifier ends the thread.     *)
Die ==
  /\ WorkerMayDie
  /\ worker \in {"serve", "hash", "respond"}
  /\ worker' = "dead"
  /\ UNCHANGED <<asked, response, processed, batch, busy, serving,
                 status, results, stopping, settled, workspace, onCurrent>>

Settle ==
  /\ stopping /\ ~settled
  /\ settled' = TRUE
  /\ UNCHANGED <<asked, response, worker, processed, batch, busy,
                 serving, status, results, stopping, workspace, onCurrent>>

Loop ==
  \/ Scan \/ (\E r \in Requests : Take(r))
  \/ Reject \/ Accept \/ (\E s \in Terminal : Verify(s))
  \/ Hash \/ Record \/ Respond
  \/ Look \/ Test

(* stop(cancel_pending=False), up to the join of the thread. *)
Stop ==
  /\ stopping' = TRUE
  /\ settled' = FALSE
  /\ UNCHANGED <<asked, response, worker, processed, batch, busy,
                 serving, status, results, workspace, onCurrent>>

Joined == worker \in {"ended", "dead"}
=============================================================================
