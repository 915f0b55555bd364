------------------------- MODULE DelayFilterProofs -------------------------
(***************************************************************************)
(* Proofs about DelayFilter for any number of streams and body parts.      *)
(***************************************************************************)
EXTENDS DelayFilter, TLAPS

(* How the goroutine, its event and the headers of stream s hang together. *)
GoroutineOK(s) ==
  /\ goroutine[s] \in {"sleep", "commit", "close"} <=> scheduler[s] = "open"
  /\ goroutine[s] # "none" => do_delay[s] /\ decoding[s] # "none"
  /\ events[s] > 0 => events[s] = 1 /\ ~delayLapsed[s]
  /\ events[s] > 0 \/ delayLapsed[s] => goroutine[s] \in {"close", "done"}

HeadersOK(s) ==
  /\ stream[s] = "none" => decoding[s] = "none"
  /\ decoding[s] = "stopped" => ~delayLapsed[s]
  /\ decoding[s] = "continued" <=> upstream[s] # "nothing"
  /\ upstream[s] = "scheduled" => delayLapsed[s]
  /\ do_delay[s] /\ parts[s] = 0 /\ decoding[s] = "continued" =>
        delayLapsed[s] /\ upstream[s] = "scheduled"

ResponseOK(s) ==
  /\ stream[s] = "none" => response[s] = "nothing"
  /\ stream[s] = "open" /\ response[s] # "nothing" => decoding[s] = "continued"
  /\ upstream[s] = "scheduled" => response[s] \in {"nothing", "lapsed"}
  /\ response[s] = "lapsed" => delayLapsed[s]

StreamOK(s) == GoroutineOK(s) /\ HeadersOK(s) /\ ResponseOK(s)

IInv == TypeOK /\ \A s \in Streams : StreamOK(s)

(* No stream exists at the start. *)
LEMMA InitIInv == Init => IInv
BY PartsAssumption DEF Init, IInv, TypeOK, StreamOK, GoroutineOK, HeadersOK, ResponseOK

(* Every variable keeps to its type. *)
LEMMA TypeStep == TypeOK /\ [Next]_vars => TypeOK'
<1> SUFFICES ASSUME TypeOK, [Next]_vars PROVE TypeOK'
  OBVIOUS
<1> USE PartsAssumption, NoneAssumption DEF TypeOK, goVars, envoyVars, Dispatch, Forward
<1>1. ASSUME NEW s \in Streams, NewStream(s) PROVE TypeOK'
  BY <1>1 DEF NewStream
<1>2. ASSUME NEW s \in Streams, RequestHeaders(s) PROVE TypeOK'
  BY <1>2 DEF RequestHeaders
<1>3. ASSUME NEW s \in Streams, RequestBody(s) PROVE TypeOK'
  BY <1>3 DEF RequestBody
<1>4. ASSUME NEW s \in Streams, Goroutine(s) PROVE TypeOK'
  BY <1>4 DEF Goroutine, Wake, Commit, Close
<1>5. ASSUME NEW s \in Streams, RunEvent(s) PROVE TypeOK'
  <2>1. events' = [events EXCEPT ![s] = @ - 1] /\ events[s] - 1 \in Nat
    BY <1>5 DEF RunEvent, Scheduled, DropEvent
  <2>2. events' \in [Streams -> Nat]
    BY <2>1
  <2>3. CASE Scheduled(s)
    BY <2>2, <2>3 DEF Scheduled
  <2>4. CASE DropEvent(s)
    BY <2>2, <2>4 DEF DropEvent
  <2> QED
    BY <1>5, <2>3, <2>4 DEF RunEvent
<1>6. ASSUME NEW s \in Streams, Continued(s) PROVE TypeOK'
  BY <1>6 DEF Continued
<1>7. ASSUME NEW s \in Streams, UpstreamReply(s) \/ LocalReply(s) PROVE TypeOK'
  BY <1>7 DEF UpstreamReply, LocalReply, ResponseHeaders
<1>8. ASSUME NEW s \in Streams, Destroy(s) PROVE TypeOK'
  BY <1>8 DEF Destroy
<1>9. CASE UNCHANGED vars
  BY <1>9 DEF vars
<1> QED
  BY <1>1, <1>2, <1>3, <1>4, <1>5, <1>6, <1>7, <1>8, <1>9 DEF Next

(* A step about one stream keeps that stream in order and does not touch   *)
(* the others.                                                             *)
LEMMA StreamStep == IInv /\ [Next]_vars => \A u \in Streams : StreamOK(u)'
<1> SUFFICES ASSUME IInv, [Next]_vars, NEW u \in Streams PROVE StreamOK(u)'
  OBVIOUS
<1> USE PartsAssumption, NoneAssumption
    DEF IInv, TypeOK, goVars, envoyVars, Dispatch, Forward,
        StreamOK, GoroutineOK, HeadersOK, ResponseOK
<1>1. ASSUME NEW s \in Streams, NewStream(s) PROVE StreamOK(u)'
  BY <1>1 DEF NewStream
<1>2. ASSUME NEW s \in Streams, RequestHeaders(s) PROVE StreamOK(u)'
  BY <1>2 DEF RequestHeaders
<1>3. ASSUME NEW s \in Streams, RequestBody(s) PROVE StreamOK(u)'
  BY <1>3 DEF RequestBody
<1>4. ASSUME NEW s \in Streams, Goroutine(s) PROVE StreamOK(u)'
  BY <1>4 DEF Goroutine, Wake, Commit, Close
<1>5. ASSUME NEW s \in Streams, RunEvent(s) PROVE StreamOK(u)'
  BY <1>5 DEF RunEvent, Scheduled, DropEvent
<1>6. ASSUME NEW s \in Streams, Continued(s) PROVE StreamOK(u)'
  BY <1>6 DEF Continued
<1>7. ASSUME NEW s \in Streams, UpstreamReply(s) \/ LocalReply(s) PROVE StreamOK(u)'
  BY <1>7 DEF UpstreamReply, LocalReply, ResponseHeaders
<1>8. ASSUME NEW s \in Streams, Destroy(s) PROVE StreamOK(u)'
  BY <1>8 DEF Destroy
<1>9. CASE UNCHANGED vars
  BY <1>9 DEF vars
<1> QED
  BY <1>1, <1>2, <1>3, <1>4, <1>5, <1>6, <1>7, <1>8, <1>9 DEF Next

(* IInv holds at every step of the goroutines and of the worker thread. *)
THEOREM Inductive == SafetySpec => []IInv
<1>1. IInv /\ [Next]_vars => IInv'
  BY TypeStep, StreamStep DEF IInv
<1> QED
  BY <1>1, InitIInv, PTL DEF SafetySpec

(* The variables of the delay filter and of the scheduler keep their types. *)
THEOREM TypeCorrect == SafetySpec => []TypeOK
<1>1. IInv => TypeOK
  BY DEF IInv
<1> QED
  BY <1>1, Inductive, PTL

(* A request without a body that asks for the delay is passed on after the *)
(* goroutine's sleep only, and with the header that Scheduled adds.        *)
THEOREM DelayHolds == SafetySpec => []DelayObserved
<1>1. IInv => DelayObserved
  BY DEF IInv, StreamOK, GoroutineOK, HeadersOK, DelayObserved, WasDelayed, HeadersOnly
<1> QED
  BY <1>1, Inductive, PTL

(* Every response to a request that Scheduled has let go on carries        *)
(* x-delay-filter-lapsed; and one that carries it answers a request that   *)
(* asked for the delay, after the sleep of its goroutine. Whether this     *)
(* request was delayed is open only if a body may have carried it past.    *)
THEOREM LapseHolds == SafetySpec => []LapseReported
<1>1. IInv => LapseReported
  <2> SUFFICES ASSUME IInv, NEW s \in Streams
               PROVE  /\ upstream[s] = "scheduled" => response[s] \in {"nothing", "lapsed"}
                      /\ response[s] = "lapsed" =>
                            /\ do_delay[s] /\ goroutine[s] \in {"close", "done"}
                            /\ WasDelayed(s) \/ (upstream[s] = "plain" /\ ~HeadersOnly(s))
    BY DEF LapseReported
  <2> QED
    BY DEF IInv, TypeOK, StreamOK, GoroutineOK, HeadersOK, ResponseOK, WasDelayed, HeadersOnly
<1> QED
  BY <1>1, Inductive, PTL

(* The goroutine commits through an open scheduler, once, and whatever     *)
(* becomes of the stream in the meantime.                                  *)
THEOREM SchedulerSafe == SafetySpec => []SchedulerUse
<1>1. IInv => SchedulerUse
  BY DEF IInv, TypeOK, StreamOK, GoroutineOK, SchedulerUse
<1> QED
  BY <1>1, Inductive, PTL

(* ContinueRequest never resumes a request without a body that is not      *)
(* stopped.                                                                *)
THEOREM ContinuesStopped == SafetySpec => ContinueWhenStopped
<1>1. ASSUME IInv, [Next]_vars, NEW s \in Streams,
             continuing = none, continuing' = s, HeadersOnly(s)
      PROVE  decoding[s] = "stopped"
  <2>1. Scheduled(s)
    BY <1>1, NoneAssumption DEF Next, vars, Goroutine, RunEvent, NewStream, RequestHeaders,
       RequestBody, Wake, Commit, Close, DropEvent, Continued, UpstreamReply, LocalReply,
       Destroy, Scheduled
  <2> QED
    BY <1>1, <2>1 DEF Scheduled, IInv, TypeOK, StreamOK, GoroutineOK, HeadersOK, HeadersOnly
<1>2. IInv /\ [Next]_vars =>
        [\A s \in Streams :
           continuing = none /\ continuing' = s /\ HeadersOnly(s) => decoding[s] = "stopped"]_vars
  BY <1>1
<1> QED
  BY <1>2, Inductive, PTL DEF SafetySpec, ContinueWhenStopped
=============================================================================
