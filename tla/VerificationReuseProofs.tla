----------------------- MODULE VerificationReuseProofs -----------------------
(***************************************************************************)
(* Proofs about the verification broker and the runner around it, for any  *)
(* number of clients, edits and malformed requests, with exceptions in the *)
(* worker: answers are final, a drained broker has answered, and a proof   *)
(* is reused only for the files it was made on.                            *)
(***************************************************************************)
EXTENDS VerificationReuse, Integers, WellFoundedInduction, TLAPS

(* The worker has a request in hand; its result is not recorded yet.       *)
Unrecorded == {"serve", "verify", "hash", "record"}
Busy == Unrecorded \cup {"respond"}

(* A request is processed from the moment it is in hand, and has its       *)
(* answer when it is not in hand any more.                                 *)
Served ==
  /\ worker \in Busy => serving \in processed /\ ~Answered(serving)
  /\ \A r \in processed : Answered(r) \/ (worker \in Busy \cup {"dead"} /\ r = serving)
  /\ \A r \in Requests : Answered(r) => r \in processed
  /\ worker = "hash" => status = "passed"
  /\ worker \in {"record", "respond"} => status \in Terminal

(* Who was answered, was recorded before, by the same broker.              *)
Recorded ==
  /\ results = <<>> => \A r \in Requests : ~Answered(r)
  /\ worker = "respond" => results # <<>>
  /\ \A i \in DOMAIN results : results[i].request \in processed
  /\ worker \in Unrecorded => \A i \in DOMAIN results : results[i].request # serving

(* The worker ends of its own accord only after it was told to stop, and   *)
(* the runner goes on only when it has ended.                              *)
Stopped ==
  /\ worker \in {"test", "ended"} => stopping
  /\ runner \in {"agent", "ask", "await"} => ~stopping
  /\ runner \in {"list", "decide", "choose", "judge"} => Joined
  /\ early \subseteq asked
  /\ worker = "ended" => early \subseteq processed

(* What the runner has in hand, and when.                                  *)
Judged ==
  /\ runner \notin {"judge", "done"} => chosen = NoResult
  /\ runner # "done" => source = "none"
  /\ fallback # NoResult =>
       runner \in {"drain again", "choose", "judge", "done"} /\ fallback.request = Own

(* A result that was hashed on the files that are there now.               *)
Current(x) == x.status = "passed" /\ x.hash = workspace => x.request \in onCurrent

Proved ==
  /\ worker \in {"verify", "hash"} => serving \in onCurrent
  /\ \A i \in DOMAIN results :
       Current(results[i]) /\ results[i].hash \in 0..workspace \cup {Unhashed}
  /\ Current(fallback) /\ Current(chosen)

ReuseInv ==
  /\ TypeOK /\ Served /\ Recorded /\ Stopped /\ Judged /\ Proved
  /\ ReuseIsVerified

(* The constants that are not requests, and the hash that is no version.   *)
LEMMA Constants ==
  /\ Own \in Requests /\ NoRequest \notin Requests
  /\ MaxEdits \in Nat /\ Unhashed \notin Versions
  /\ NoResult \notin Result
BY BrokerAssumption DEF BrokerAssumption, Requests, Unhashed, Versions, NoResult, Result

(* A new attempt: nothing asked, nothing answered, the agent at work.      *)
LEMMA InitInv == Init => ReuseInv
<1> SUFFICES ASSUME Init PROVE ReuseInv
  OBVIOUS
<1> USE Constants DEF Init, BrokerInit
<1>1. TypeOK
  <2>1. results \in Seq(Result) /\ DOMAIN results = {}
    OBVIOUS
  <2>2. workspace \in Versions
    BY DEF Versions
  <2> QED
    BY <2>1, <2>2 DEF TypeOK, BrokerTypeOK
<1>2. Served /\ Recorded /\ Stopped
  BY DEF Served, Recorded, Stopped, Answered, Busy, Unrecorded, Terminal
<1>3. Judged /\ Proved
  BY DEF Judged, Proved, Current, NoResult
<1>4. ReuseIsVerified
  BY DEF ReuseIsVerified
<1> QED
  BY <1>1, <1>2, <1>3, <1>4 DEF ReuseInv

(* The steps of the worker that leave the results alone.                   *)
LEMMA WorkerSteps ==
  ASSUME ReuseInv, runner # "done", UNCHANGED runnerVars,
         \/ Scan \/ (\E r \in Requests : Take(r)) \/ Reject \/ Accept
         \/ (\E s \in Terminal : Verify(s)) \/ Respond \/ Look \/ Test \/ Die
  PROVE  ReuseInv'
<1> USE Constants DEF ReuseInv, runnerVars
<1>0. ~Joined /\ UNCHANGED <<results, workspace, stopping>> /\ onCurrent \subseteq onCurrent'
  BY DEF Scan, Take, Reject, Accept, Verify, Respond, Look, Test, Die, Goto, Joined
<1>1. TypeOK'
  <2> DEFINE Shape ==
               /\ asked' \subseteq Requests
               /\ response' \in [Requests -> Terminal \cup {"none", "running"}]
               /\ worker' \in {"scan", "take", "serve", "verify", "hash", "record",
                              "respond", "look", "test", "ended", "dead"}
               /\ processed' \subseteq Requests /\ batch' \subseteq Requests \ processed'
               /\ busy' \in BOOLEAN /\ serving' \in Requests \cup {NoRequest}
               /\ status' \in Terminal \cup {"none"} /\ settled' \in BOOLEAN
               /\ onCurrent' \subseteq Requests
  <2> SUFFICES Shape
    BY <1>0 DEF TypeOK, BrokerTypeOK
  <2> USE DEF TypeOK, BrokerTypeOK
  <2>1. CASE Scan        BY <2>1 DEF Scan, Goto, Next1
  <2>2. ASSUME NEW r \in Requests, Take(r) PROVE Shape
    BY <2>2 DEF Take, Goto
  <2>3. CASE Reject      BY <2>3 DEF Reject, Goto, Terminal
  <2>4. CASE Accept      BY <2>4 DEF Accept, Goto, Served, Busy, Unrecorded
  <2>5. ASSUME NEW s \in Terminal, Verify(s) PROVE Shape
    BY <2>5 DEF Verify, Goto
  <2>6. CASE Respond     BY <2>6 DEF Respond, Goto, Next1, Served, Busy, Unrecorded
  <2>7. CASE Look        BY <2>7 DEF Look, Goto
  <2>8. CASE Test        BY <2>8 DEF Test, Goto
  <2>9. CASE Die         BY <2>9 DEF Die
  <2> QED
    BY <2>1, <2>2, <2>3, <2>4, <2>5, <2>6, <2>7, <2>8, <2>9
<1>2. Served'
  <2> USE DEF TypeOK, BrokerTypeOK, Served, Busy, Unrecorded, Answered
  <2>1. CASE Scan        BY <2>1 DEF Scan, Goto, Next1
  <2>2. ASSUME NEW r \in Requests, Take(r) PROVE Served'
    BY <2>2 DEF Take, Goto
  <2>3. CASE Reject      BY <2>3 DEF Reject, Goto, Terminal
  <2>4. CASE Accept      BY <2>4 DEF Accept, Goto, Terminal
  <2>5. ASSUME NEW s \in Terminal, Verify(s) PROVE Served'
    BY <2>5 DEF Verify, Goto
  <2>6. CASE Respond     BY <2>6 DEF Respond, Goto, Next1
  <2>7. CASE Look        BY <2>7 DEF Look, Goto
  <2>8. CASE Test        BY <2>8 DEF Test, Goto
  <2>9. CASE Die         BY <2>9 DEF Die
  <2> QED
    BY <2>1, <2>2, <2>3, <2>4, <2>5, <2>6, <2>7, <2>8, <2>9
<1>3. Recorded'
  <2> USE DEF TypeOK, BrokerTypeOK, Recorded, Busy, Unrecorded, Answered
  <2>1. CASE Scan        BY <1>0, <2>1 DEF Scan, Goto, Next1
  <2>2. ASSUME NEW r \in Requests, Take(r) PROVE Recorded'
    BY <1>0, <2>2 DEF Take, Goto
  <2>3. CASE Reject      BY <1>0, <2>3 DEF Reject, Goto
  <2>4. CASE Accept      BY <1>0, <2>4, ZenonT(60) DEF Accept, Goto, Served, Terminal
  <2>5. ASSUME NEW s \in Terminal, Verify(s) PROVE Recorded'
    BY <1>0, <2>5 DEF Verify, Goto
  <2>6. CASE Respond     BY <1>0, <2>6 DEF Respond, Goto, Next1
  <2>7. CASE Look        BY <1>0, <2>7 DEF Look, Goto
  <2>8. CASE Test        BY <1>0, <2>8 DEF Test, Goto
  <2>9. CASE Die         BY <1>0, <2>9 DEF Die
  <2> QED
    BY <2>1, <2>2, <2>3, <2>4, <2>5, <2>6, <2>7, <2>8, <2>9
<1>4. Stopped'
  BY <1>0 DEF Stopped, Joined, Scan, Take, Reject, Accept, Verify, Respond, Look, Test, Die,
              Goto, Next1
<1>5. Judged' /\ ReuseIsVerified'
  BY <1>0 DEF Judged, ReuseIsVerified
<1>6. Proved'
  <2>1. worker' \in {"verify", "hash"} => serving' \in onCurrent'
    BY DEF Proved, Scan, Take, Reject, Accept, Verify, Respond, Look, Test, Die, Goto, Next1
  <2> QED
    BY <1>0, <2>1 DEF Proved, Current
<1> QED
  BY <1>1, <1>2, <1>3, <1>4, <1>5, <1>6

(* A result is appended for the request in hand, which has none yet; its   *)
(* hash is that of the workspace, or none.                                 *)
LEMMA RecordSteps ==
  ASSUME ReuseInv, runner # "done", UNCHANGED runnerVars, Hash \/ Record
  PROVE  ReuseInv'
<1> USE Constants DEF ReuseInv, runnerVars
<1> DEFINE hash == IF worker = "hash" THEN workspace ELSE Unhashed
           new == [request |-> serving, status |-> status, hash |-> hash]
<1>0. /\ worker \in {"hash", "record"} /\ worker' = "respond"
      /\ results' = Append(results, new)
      /\ UNCHANGED <<asked, response, processed, batch, busy, serving, status, stopping,
                     settled, workspace, onCurrent>>
  BY DEF Hash, Record, Goto, AddResult
<1>1. serving \in processed /\ ~Answered(serving) /\ status \in Terminal
  BY <1>0 DEF Served, Busy, Unrecorded, Terminal
<1>2. new \in Result
  BY <1>0, <1>1 DEF Result, TypeOK, BrokerTypeOK
<1>3. /\ results' \in Seq(Result) /\ results' # <<>>
      /\ DOMAIN results' = 1..(Len(results) + 1) /\ DOMAIN results = 1..Len(results)
      /\ Len(results) \in Nat
      /\ \A i \in DOMAIN results : results'[i] = results[i]
      /\ results'[Len(results) + 1] = new
  <2>1. results \in Seq(Result)
    BY DEF TypeOK, BrokerTypeOK
  <2> HIDE DEF new
  <2> QED
    BY <1>0, <1>2, <2>1
<1>4. \A i \in DOMAIN results' : i \in DOMAIN results \/ i = Len(results) + 1
  BY <1>3
<1>5. \A i \in DOMAIN results : results[i].request # serving
  BY <1>0 DEF Recorded, Unrecorded
<1>6. new.request = serving /\ new.status = status /\ new.hash = hash
  OBVIOUS
<1>7. TypeOK'
  <2>1. \A i, j \in DOMAIN results' : results'[i].request = results'[j].request => i = j
    BY <1>3, <1>4, <1>5, <1>6, ZenonT(60) DEF TypeOK, BrokerTypeOK
  <2>2. results' \in Seq(Result)
    BY <1>3
  <2> HIDE DEF new
  <2> QED
    BY <1>0, <2>1, <2>2, ZenonT(60) DEF TypeOK, BrokerTypeOK
<1>8. Served'
  BY <1>0, <1>1 DEF Served, Busy, Unrecorded, Answered
<1>9. Recorded'
  BY <1>0, <1>1, <1>3, <1>4, <1>6, ZenonT(60) DEF Recorded, Unrecorded, TypeOK, BrokerTypeOK
<1>10. Stopped' /\ runner \notin {"list", "decide", "choose", "judge"}
  BY <1>0 DEF Stopped, Joined
<1>11. Judged' /\ ReuseIsVerified'
  BY <1>0 DEF Judged, ReuseIsVerified
<1>12. Proved'
  <2>1. hash \in 0..workspace \cup {Unhashed} /\ (hash = workspace => serving \in onCurrent)
    <3>1. workspace \in Versions
      BY DEF TypeOK, BrokerTypeOK
    <3>2. workspace \in Nat /\ workspace # Unhashed
      BY <3>1 DEF Versions
    <3> QED
      BY <1>0, <3>2 DEF Proved
  <2>2. \A i \in DOMAIN results' :
          Current(results'[i]) /\ results'[i].hash \in 0..workspace \cup {Unhashed}
    BY <1>3, <1>4, <1>6, <2>1 DEF Proved, Current
  <2> QED
    BY <1>0, <2>2 DEF Proved, Current
<1> QED
  BY <1>7, <1>8, <1>9, <1>10, <1>11, <1>12

(* What clients, time and the agent do, and nothing at all.                *)
LEMMA OutsideSteps ==
  ASSUME ReuseInv,
         \/ UNCHANGED runnerVars /\ (Settle \/ \E c \in Clients : Ask(c))
         \/ Edit
         \/ UNCHANGED vars
  PROVE  ReuseInv'
<1> USE Constants DEF ReuseInv
<1>0. UNCHANGED <<response, worker, processed, batch, busy, serving, status, results, stopping>>
      /\ UNCHANGED runnerVars
  BY DEF Settle, Ask, Edit, vars, brokerVars, runnerVars
<1>1. Served' /\ Recorded'
  BY <1>0 DEF Served, Recorded, Answered
<1>2. Judged'
  BY <1>0 DEF Judged, runnerVars
<1>3. asked \subseteq asked' /\ asked' \subseteq Requests /\ settled' \in BOOLEAN
  BY DEF Settle, Ask, Edit, vars, brokerVars, TypeOK, BrokerTypeOK, Requests
<1>4. /\ results' \in Seq(Result)
      /\ \A i, j \in DOMAIN results' : results'[i].request = results'[j].request => i = j
  BY <1>0 DEF TypeOK, BrokerTypeOK
<1>5. /\ runner' \in {"agent", "drain", "list", "decide", "ask", "await", "drain again",
                     "choose", "judge", "done"}
      /\ known' \subseteq Requests /\ fallback' \in Result \cup {NoResult}
      /\ chosen' \in Result \cup {NoResult}
      /\ source' \in {"none", "broker_reuse", "post_agent_rerun"} /\ early' \subseteq Requests
  BY <1>0 DEF TypeOK, runnerVars
<1>6. workspace' \in Versions /\ onCurrent' \subseteq Requests => TypeOK'
  <2> SUFFICES ASSUME workspace' \in Versions, onCurrent' \subseteq Requests PROVE BrokerTypeOK'
    BY <1>5 DEF TypeOK
  <2>1. /\ response' \in [Requests -> Terminal \cup {"none", "running"}]
        /\ worker' \in {"scan", "take", "serve", "verify", "hash", "record",
                        "respond", "look", "test", "ended", "dead"}
        /\ processed' \subseteq Requests /\ batch' \subseteq Requests \ processed'
        /\ busy' \in BOOLEAN /\ serving' \in Requests \cup {NoRequest}
        /\ status' \in Terminal \cup {"none"} /\ stopping' \in BOOLEAN
    BY <1>0 DEF TypeOK, BrokerTypeOK
  <2> QED
    BY <1>3, <1>4, <2>1 DEF BrokerTypeOK
<1>7. Stopped'
  BY <1>0, <1>3 DEF Stopped, Joined, runnerVars
<1>8. CASE UNCHANGED <<workspace, onCurrent>>
  <2>1. TypeOK'
    BY <1>8, <1>6 DEF TypeOK, BrokerTypeOK
  <2>2. Proved' /\ ReuseIsVerified'
    BY <1>0, <1>8 DEF Proved, Current, ReuseIsVerified, runnerVars
  <2> QED
    BY <1>1, <1>2, <1>7, <2>1, <2>2
<1>9. CASE Edit
  <2>1. /\ workspace \in Nat /\ workspace' = workspace + 1 /\ workspace < MaxEdits
        /\ workspace' \in Versions /\ workspace' # Unhashed
    BY <1>9 DEF Edit, TypeOK, BrokerTypeOK, Versions, Unhashed
  <2>2. onCurrent' = IF worker \in {"verify", "hash"} THEN {serving} ELSE {}
    BY <1>9 DEF Edit
  <2>3. worker \in {"verify", "hash"} => serving \in Requests
    BY DEF Served, Busy, Unrecorded, TypeOK, BrokerTypeOK
  <2>4. TypeOK'
    BY <1>6, <2>1, <2>2, <2>3
  <2>5. chosen' = NoResult /\ fallback' = NoResult /\ source' = "none"
    BY <1>0, <1>9 DEF Edit, Judged, runnerVars
  <2>6. \A i \in DOMAIN results : results[i].hash # workspace'
                                  /\ results[i].hash \in 0..workspace' \cup {Unhashed}
    BY <2>1 DEF Proved
  <2>7. Proved' /\ ReuseIsVerified'
    BY <1>0, <2>2, <2>5, <2>6 DEF Proved, Current, ReuseIsVerified, NoResult
  <2> QED
    BY <1>1, <1>2, <1>7, <2>4, <2>7
<1> QED
  BY <1>8, <1>9 DEF Settle, Ask, vars, brokerVars

(* A non-empty set of indices has a largest one.                           *)
Less == {pair \in Nat \X Nat : pair[1] < pair[2]}

LEMMA LargestIndex ==
  ASSUME NEW n \in Nat, NEW S \in SUBSET (1..n), S # {}
  PROVE  \E i \in S : \A j \in S : j <= i
<1> DEFINE T == {k \in Nat : k <= n /\ n - k \in S}
<1>1. PICK s \in S : TRUE
  OBVIOUS
<1>2. n - s \in T
  BY n - (n - s) = s
<1>3. PICK k \in T : \A l \in T : ~(<<l, k>> \in Less)
  <2>1. Less = OpToRel(<, Nat)
    BY DEF OpToRel, Less
  <2>2. T \subseteq Nat /\ T # {}
    BY <1>2
  <2> HIDE DEF T
  <2> QED
    BY <2>1, <2>2, NatLessThanWellFounded, WFMin
<1>4. ASSUME NEW j \in S PROVE j <= n - k
  <2>1. n - j \in T
    BY n - (n - j) = j
  <2>2. ~(n - j < k)
    BY <1>3, <2>1 DEF Less
  <2> QED
    BY <2>2
<1> QED
  BY <1>4

(* The last result of some requests is one of their results, if there is   *)
(* one.                                                                    *)
LEMMA LatestIsResult ==
  ASSUME TypeOK, NEW ids
  PROVE  \/ At(ids) = {} /\ Latest(ids) = NoResult
         \/ \E i \in DOMAIN results : results[i].request \in ids /\ Latest(ids) = results[i]
<1>1. CASE At(ids) = {}
  BY <1>1 DEF Latest
<1>2. CASE At(ids) # {}
  <2>1. results \in Seq(Result)
    BY DEF TypeOK, BrokerTypeOK
  <2>2. Len(results) \in Nat /\ DOMAIN results = 1..Len(results)
    BY <2>1
  <2>3. At(ids) \subseteq 1..Len(results)
    BY <2>2 DEF At
  <2>4. \E i \in At(ids) : \A j \in At(ids) : j <= i
    BY <1>2, <2>2, <2>3, LargestIndex
  <2>5. PICK i \in At(ids) : Latest(ids) = results[i]
    BY <1>2, <2>4, Zenon DEF Latest
  <2> QED
    BY <2>5 DEF At
<1> QED
  BY <1>1, <1>2

(* The same, as what is known of a result: it is typed and, if it was      *)
(* hashed on the present files, it was made on them.                       *)
LEMMA LatestKnown ==
  ASSUME ReuseInv, NEW ids
  PROVE  /\ Latest(ids) \in Result \cup {NoResult}
         /\ Current(Latest(ids))
         /\ Latest(ids) # NoResult => Latest(ids).request \in ids
         /\ Latest(ids) = NoResult => At(ids) = {}
<1>1. \A i \in DOMAIN results : results[i] \in Result
  <2>1. results \in Seq(Result)
    BY DEF ReuseInv, TypeOK, BrokerTypeOK
  <2> QED
    BY <2>1
<1>2. CASE At(ids) = {} /\ Latest(ids) = NoResult
  BY <1>2 DEF Current, NoResult
<1>3. ASSUME NEW i \in DOMAIN results, results[i].request \in ids, Latest(ids) = results[i]
      PROVE  /\ Latest(ids) \in Result \cup {NoResult}
             /\ Current(Latest(ids))
             /\ Latest(ids) # NoResult => Latest(ids).request \in ids
             /\ Latest(ids) # NoResult
  BY <1>1, <1>3, Constants DEF ReuseInv, Proved
<1> QED
  BY <1>2, <1>3, LatestIsResult DEF ReuseInv

(* The runner tells a broker to stop, after the agent or after its own     *)
(* request; the broker's own state stays as it is.                         *)
LEMMA StopSteps ==
  ASSUME ReuseInv, AgentReturns \/ AwaitFallback
  PROVE  ReuseInv'
<1> USE Constants DEF ReuseInv
<1>0. /\ UNCHANGED <<asked, response, worker, processed, batch, busy, serving, status, results,
                     workspace, onCurrent, known, chosen, source>>
      /\ stopping' = TRUE /\ settled' = FALSE /\ early' = asked
      /\ runner \in {"agent", "await"} /\ runner' \in {"drain", "drain again"}
  BY DEF AgentReturns, AwaitFallback, Stop, Proceed
<1>1. \/ fallback' = NoResult
      \/ /\ runner' = "drain again" /\ fallback' \in Result /\ fallback'.request = Own
         /\ Current(fallback')
  <2>1. fallback = NoResult
    BY <1>0 DEF Judged
  <2>2. CASE UNCHANGED fallback
    BY <2>1, <2>2
  <2>3. CASE At({Own}) # {} /\ fallback' = Latest({Own}) /\ runner' = "drain again"
    BY <2>3, LatestKnown
  <2> QED
    BY <2>2, <2>3 DEF AgentReturns, AwaitFallback, Answer, TimeOut, Proceed
<1>2. worker # "ended"
  BY <1>0 DEF Stopped
<1>3. TypeOK'
  <2>1. BrokerTypeOK'
    BY <1>0 DEF TypeOK, BrokerTypeOK
  <2> QED
    BY <1>0, <1>1, <2>1 DEF TypeOK, BrokerTypeOK
<1>4. Served' /\ Recorded'
  BY <1>0 DEF Served, Recorded, Answered
<1>5. Stopped'
  BY <1>0, <1>2 DEF Stopped
<1>6. chosen' = NoResult /\ source' = "none"
  BY <1>0 DEF Judged
<1>7. Judged' /\ ReuseIsVerified'
  BY <1>0, <1>1, <1>6 DEF Judged, ReuseIsVerified
<1>8. Proved'
  BY <1>0, <1>1, <1>6 DEF Proved, Current, NoResult
<1> QED
  BY <1>3, <1>4, <1>5, <1>7, <1>8

(* The second broker starts: nobody has asked, so nobody was answered.     *)
LEMMA FallbackStarts ==
  ASSUME ReuseInv, StartFallback
  PROVE  ReuseInv'
<1> USE Constants DEF ReuseInv
<1>0. /\ UNCHANGED <<asked, response, workspace, onCurrent, known, fallback, chosen, source, early>>
      /\ worker' = "scan" /\ processed' = {} /\ batch' = {} /\ busy' = FALSE
      /\ serving' = NoRequest /\ status' = "none" /\ results' = <<>>
      /\ stopping' = FALSE /\ settled' = FALSE
      /\ runner = "decide" /\ runner' = "ask"
  BY DEF StartFallback, Fresh, Proceed
<1>1. \A r \in Requests : ~Answered(r)
  BY DEF StartFallback, Requested, Recorded
<1>2. results' \in Seq(Result) /\ DOMAIN results' = {}
  BY <1>0
<1>3. TypeOK'
  <2>1. BrokerTypeOK'
    BY <1>0, <1>2 DEF TypeOK, BrokerTypeOK
  <2> QED
    BY <1>0, <2>1 DEF TypeOK
<1>4. Served' /\ Recorded'
  BY <1>0, <1>1, <1>2 DEF Served, Recorded, Answered, Busy, Unrecorded
<1>5. Stopped'
  BY <1>0 DEF Stopped
<1>6. Judged' /\ ReuseIsVerified'
  BY <1>0 DEF Judged, ReuseIsVerified
<1>7. Proved'
  BY <1>0, <1>2 DEF Proved, Current
<1> QED
  BY <1>3, <1>4, <1>5, <1>6, <1>7

(* The runner waits for a thread, lists the requests, or makes its own.    *)
LEMMA WaitSteps ==
  ASSUME ReuseInv,
         \/ Drained1(TRUE) \/ Drained1(FALSE) \/ ListRequests \/ AskFallback \/ DrainedAgain
  PROVE  ReuseInv'
<1> USE Constants DEF ReuseInv
<1>0. /\ UNCHANGED <<response, worker, processed, batch, busy, serving, status, results, stopping,
                     settled, workspace, onCurrent, fallback, chosen, source, early>>
      /\ asked \subseteq asked' /\ asked' \subseteq asked \cup {Own}
      /\ known' \subseteq known \cup asked
      /\ runner \in {"drain", "list", "ask", "drain again"}
      /\ runner' \in {"list", "done", "decide", "await", "choose"}
  BY DEF Drained1, ListRequests, AskFallback, DrainedAgain, Proceed, brokerVars
<1>1. /\ runner' \in {"list", "decide", "choose"} => Joined
      /\ runner' = "await" => ~stopping
      /\ fallback # NoResult => runner' = "choose"
  BY DEF Drained1, ListRequests, AskFallback, DrainedAgain, Proceed, Stopped, Judged
<1>2. chosen' = NoResult /\ source' = "none"
  BY <1>0 DEF Judged
<1>3. TypeOK'
  <2>1. BrokerTypeOK'
    BY <1>0 DEF TypeOK, BrokerTypeOK
  <2>2. known' \subseteq Requests
    BY <1>0 DEF TypeOK, BrokerTypeOK
  <2> QED
    BY <1>0, <2>1, <2>2 DEF TypeOK
<1>4. Served' /\ Recorded'
  BY <1>0 DEF Served, Recorded, Answered
<1>5. Stopped'
  BY <1>0, <1>1 DEF Stopped, Joined
<1>6. Judged' /\ ReuseIsVerified'
  BY <1>0, <1>1, <1>2 DEF Judged, ReuseIsVerified
<1>7. Proved'
  BY <1>0 DEF Proved, Current
<1> QED
  BY <1>3, <1>4, <1>5, <1>6, <1>7

(* The runner takes a result, the agent's if there is one, and judges it.  *)
LEMMA VerdictSteps ==
  ASSUME ReuseInv, TakeLatest \/ Choose \/ Judge
  PROVE  ReuseInv'
<1> USE Constants DEF ReuseInv
<1>0. UNCHANGED brokerVars /\ UNCHANGED <<known, fallback, early>>
      /\ runner \in {"decide", "choose", "judge"} /\ runner' \in {"judge", "done"}
  BY DEF TakeLatest, Choose, Judge, Proceed
<1>1. BrokerTypeOK'
  BY <1>0 DEF TypeOK, BrokerTypeOK, brokerVars
<1>2. Served' /\ Recorded'
  BY <1>0 DEF Served, Recorded, Answered, brokerVars
<1>3. Stopped'
  BY <1>0 DEF Stopped, Joined, brokerVars
<1>4. CASE Judge
  <2>1. /\ chosen' = chosen /\ source' \in {"broker_reuse", "post_agent_rerun"} /\ runner' = "done"
        /\ source' = "broker_reuse" => Reusable
    BY <1>4 DEF Judge, Proceed
  <2>2. TypeOK' /\ Judged'
    BY <1>0, <1>1, <2>1 DEF TypeOK, Judged, brokerVars
  <2>3. Proved'
    BY <1>0, <2>1 DEF Proved, Current, brokerVars
  <2>4. ReuseIsVerified'
    BY <1>0, <2>1 DEF ReuseIsVerified, Reusable, Proved, Current, brokerVars
  <2> QED
    BY <1>2, <1>3, <2>2, <2>3, <2>4
<1>5. CASE TakeLatest \/ Choose
  <2>1. source' = "none" /\ runner' = "judge"
    BY <1>0, <1>5 DEF TakeLatest, Choose, Proceed, Judged
  <2>2. chosen' \in Result \cup {NoResult} /\ Current(chosen')
    BY <1>5, LatestKnown DEF TakeLatest, Choose, TypeOK, Proved
  <2>3. TypeOK' /\ Judged'
    BY <1>0, <1>1, <2>1, <2>2 DEF TypeOK, Judged, Proceed
  <2>4. Proved' /\ ReuseIsVerified'
    BY <1>0, <2>1, <2>2 DEF Proved, Current, ReuseIsVerified, brokerVars
  <2> QED
    BY <1>2, <1>3, <2>3, <2>4
<1> QED
  BY <1>4, <1>5

(* The strengthened invariant holds in every behaviour.                    *)
LEMMA ReuseInvariant == Spec => []ReuseInv
<1>1. ReuseInv /\ [Next]_vars => ReuseInv'
  <2> SUFFICES ASSUME ReuseInv, [Next]_vars PROVE ReuseInv'
    OBVIOUS
  <2>1. CASE Broker
    BY <2>1, WorkerSteps, RecordSteps, OutsideSteps DEF Broker, Loop
  <2>2. CASE Edit \/ UNCHANGED vars
    BY <2>2, OutsideSteps
  <2>3. CASE AgentReturns
    BY <2>3, StopSteps
  <2>4. CASE Run
    BY <2>4, StopSteps, FallbackStarts, WaitSteps, VerdictSteps DEF Run
  <2> QED
    BY <2>1, <2>2, <2>3, <2>4 DEF Next
<1> QED
  BY <1>1, InitInv, PTL DEF Spec

(* The variables of the broker and the runner keep their types; no request *)
(* is answered twice by one broker.                                        *)
THEOREM ReuseTypeCorrect == Spec => []TypeOK
<1>1. ReuseInv => TypeOK
  BY DEF ReuseInv
<1> QED
  BY <1>1, ReuseInvariant, PTL

(* A worker that has ended of its own accord has answered every request it *)
(* accepted and every one made before it was told to stop                  *)
(* (verification_broker.py:897).                                           *)
THEOREM DrainAnswersAll == Spec => []Drained
<1>1. ASSUME ReuseInv PROVE Drained
  BY <1>1 DEF ReuseInv, Served, Stopped, Drained, Busy, Unrecorded
<1> QED
  BY <1>1, ReuseInvariant, PTL

(* A passing proof is reused only while the workspace is the one it was    *)
(* made on (runner.py:6908-6921).                                          *)
THEOREM ReusedProofsHold == Spec => []ReuseIsVerified
<1>1. ReuseInv => ReuseIsVerified
  BY DEF ReuseInv
<1> QED
  BY <1>1, ReuseInvariant, PTL

(* No terminal response is ever written over, by the broker that wrote it  *)
(* or by the second one on the same directories.                           *)
THEOREM AnswersStay == Spec => AnswersAreFinal
<1>1. ASSUME ReuseInv, [Next]_vars, NEW r \in Requests, Answered(r)
      PROVE  response'[r] = response[r]
  <2>1. CASE UNCHANGED response
    BY <2>1
  <2>2. CASE Accept \/ Respond
    <3>1. r # serving
      BY <1>1, <2>2 DEF Accept, Respond, Goto, ReuseInv, Served, Busy, Unrecorded
    <3> QED
      BY <1>1, <2>2, <3>1 DEF Accept, Respond, ReuseInv, TypeOK, BrokerTypeOK
  <2>3. \/ UNCHANGED response
        \/ Accept \/ Respond
    BY <1>1 DEF Next, vars, brokerVars, Broker, Loop, Scan, Take, Reject, Verify, Hash, Record, Look,
                Test, Die, Settle, Ask, Edit, AgentReturns, Stop, Run, Drained1, ListRequests,
                TakeLatest, StartFallback, Fresh, AskFallback, AwaitFallback, DrainedAgain,
                Choose, Judge
  <2> QED
    BY <2>1, <2>2, <2>3
<1>2. ReuseInv /\ [Next]_vars
        => [\A r \in Requests : Answered(r) => response'[r] = response[r]]_vars
  BY <1>1
<1> QED
  BY <1>2, ReuseInvariant, PTL DEF Spec, AnswersAreFinal
=============================================================================
