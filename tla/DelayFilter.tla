---------------------------- MODULE DelayFilter ----------------------------
(***************************************************************************)
(* The delay filter of the Go module (go/delay.go) with the scheduler of   *)
(* the Go SDK (go/gosdk/abi.go). The filter stops a request that carries   *)
(* the do-delay header and starts a goroutine, which sleeps, commits an    *)
(* event to the worker thread and closes its scheduler. The worker thread  *)
(* runs the Scheduled hook for that event, which lets the request go on.   *)
(*                                                                         *)
(* Streams share one worker thread. Their hooks are atomic, but for the    *)
(* call of continue_decoding in Scheduled: the later filters of the chain  *)
(* run inside it. The goroutines run at any time.                          *)
(*                                                                         *)
(* Envoy is modelled from how the SDK uses it (gosdk.go) : a part of the   *)
(* body for which RequestBody returns Continue takes the headers along     *)
(* when they are still stopped; an event for a stream that has been        *)
(* destroyed is dropped; a stream can be destroyed or answered by Envoy    *)
(* itself at any time.                                                     *)
(***************************************************************************)
EXTENDS Integers

CONSTANTS
  Streams,    \* the streams, each with its own delayFilter
  MaxParts,   \* the most parts, of body or trailers, that follow the headers
  none

ASSUME PartsAssumption == MaxParts \in Nat
ASSUME NoneAssumption  == none \notin Streams

VARIABLES
  stream,       \* the life of each stream
  do_delay,     \* its headers contain do-delay
  parts,        \* how many parts of its request follow the headers
  received,     \* how many of them have reached the filter
  decoding,     \* what the filter chain does with its request headers
  scheduler,    \* the Envoy object behind envoyFilterScheduler
  goroutine,    \* where the goroutine is in its function
  events,       \* the events committed and not yet run by the worker thread
  delayLapsed,  \* delayLapsed > 0
  upstream,     \* the request headers that were passed on to the next filter
  response,     \* the response headers that have passed the filter
  continuing    \* the stream whose continue_decoding the worker thread is in

goVars    == <<scheduler, goroutine>>
envoyVars == <<do_delay, parts, upstream, response>>
vars == <<stream, do_delay, parts, received, decoding, goVars, events, delayLapsed,
          upstream, response, continuing>>

TypeOK ==
  /\ stream \in [Streams -> {"none", "open", "replied", "destroyed"}]
  /\ do_delay \in [Streams -> BOOLEAN]
  /\ parts \in [Streams -> 0..MaxParts]
  /\ received \in [Streams -> 0..MaxParts]
  /\ decoding \in [Streams -> {"none", "stopped", "continued"}]
  /\ scheduler \in [Streams -> {"none", "open", "deleted"}]
  /\ goroutine \in [Streams -> {"none", "sleep", "commit", "close", "done"}]
  /\ events \in [Streams -> Nat]
  /\ delayLapsed \in [Streams -> BOOLEAN]
  /\ upstream \in [Streams -> {"nothing", "plain", "scheduled"}]
  /\ response \in [Streams -> {"nothing", "plain", "lapsed"}]
  /\ continuing \in Streams \cup {none}

Init ==
  /\ stream = [s \in Streams |-> "none"]
  /\ do_delay = [s \in Streams |-> FALSE]
  /\ parts = [s \in Streams |-> 0]
  /\ received = [s \in Streams |-> 0]
  /\ decoding = [s \in Streams |-> "none"]
  /\ scheduler = [s \in Streams |-> "none"]
  /\ goroutine = [s \in Streams |-> "none"]
  /\ events = [s \in Streams |-> 0]
  /\ delayLapsed = [s \in Streams |-> FALSE]
  /\ upstream = [s \in Streams |-> "nothing"]
  /\ response = [s \in Streams |-> "nothing"]
  /\ continuing = none

-----------------------------------------------------------------------------
(* The worker thread can turn to an open stream. *)
Dispatch(s) == continuing = none /\ stream[s] = "open"

NewStream(s) ==
  /\ continuing = none
  /\ stream[s] = "none"
  /\ stream' = [stream EXCEPT ![s] = "open"]
  /\ \E d \in BOOLEAN : do_delay' = [do_delay EXCEPT ![s] = d]
  /\ \E n \in 0..MaxParts : parts' = [parts EXCEPT ![s] = n]
  /\ UNCHANGED <<received, decoding, goVars, events, delayLapsed, upstream, response, continuing>>

(* The headers go on, with what the filter has added to them by now. *)
Forward(s, headers) ==
  /\ decoding' = [decoding EXCEPT ![s] = "continued"]
  /\ upstream' = [upstream EXCEPT ![s] = headers]

(* Mutation of RequestHeaders: Continue is returned after "go". *)
RequestHeadersContinue(s) ==
  /\ Dispatch(s)
  /\ decoding[s] = "none"
  /\ Forward(s, "plain")
  /\ IF do_delay[s]
     THEN /\ scheduler' = [scheduler EXCEPT ![s] = "open"]
          /\ goroutine' = [goroutine EXCEPT ![s] = "sleep"]
     ELSE UNCHANGED goVars
  /\ UNCHANGED <<stream, do_delay, parts, received, events, delayLapsed, response, continuing>>

RequestHeaders(s) ==
  /\ Dispatch(s)
  /\ decoding[s] = "none"
  /\ \/ /\ ~do_delay[s]
        /\ Forward(s, "plain")
        /\ UNCHANGED goVars
     \/ /\ do_delay[s]
        /\ scheduler' = [scheduler EXCEPT ![s] = "open"]
        /\ goroutine' = [goroutine EXCEPT ![s] = "sleep"]
        /\ decoding' = [decoding EXCEPT ![s] = "stopped"]
        /\ UNCHANGED upstream
  /\ UNCHANGED <<stream, do_delay, parts, received, events, delayLapsed, response, continuing>>

(* RequestBody returns Continue, and so does the hook for trailers. *)
RequestBody(s) ==
  /\ Dispatch(s)
  /\ received[s] < parts[s]
  /\ decoding[s] # "none"
  /\ received' = [received EXCEPT ![s] = @ + 1]
  /\ IF decoding[s] = "stopped" THEN Forward(s, "plain")
                                ELSE UNCHANGED <<decoding, upstream>>
  /\ UNCHANGED <<stream, do_delay, parts, goVars, events, delayLapsed, response, continuing>>

-----------------------------------------------------------------------------
(* Mutation of Wake: Close is not deferred but called before Commit. *)
WakeClosed(s) ==
  /\ goroutine[s] = "sleep"
  /\ goroutine' = [goroutine EXCEPT ![s] = "commit"]
  /\ scheduler' = [scheduler EXCEPT ![s] = "deleted"]
  /\ UNCHANGED <<stream, received, decoding, events, delayLapsed, envoyVars, continuing>>

(* The goroutine: time.Sleep returns, Commit, and the deferred Close. *)
Wake(s) ==
  /\ goroutine[s] = "sleep"
  /\ goroutine' = [goroutine EXCEPT ![s] = "commit"]
  /\ UNCHANGED <<stream, received, decoding, scheduler, events, delayLapsed, envoyVars, continuing>>

(* Mutation of Commit: the goroutine ends without it. *)
CommitForgotten(s) ==
  /\ goroutine[s] = "commit"
  /\ goroutine' = [goroutine EXCEPT ![s] = "close"]
  /\ UNCHANGED <<stream, received, decoding, scheduler, events, delayLapsed, envoyVars, continuing>>

(* Mutation of Commit: no deferred Close follows it. *)
CommitUnclosed(s) ==
  /\ goroutine[s] = "commit"
  /\ events' = [events EXCEPT ![s] = @ + 1]
  /\ goroutine' = [goroutine EXCEPT ![s] = "done"]
  /\ UNCHANGED <<stream, received, decoding, scheduler, delayLapsed, envoyVars, continuing>>

Commit(s) ==
  /\ goroutine[s] = "commit"
  /\ events' = [events EXCEPT ![s] = @ + 1]
  /\ goroutine' = [goroutine EXCEPT ![s] = "close"]
  /\ UNCHANGED <<stream, received, decoding, scheduler, delayLapsed, envoyVars, continuing>>

Close(s) ==
  /\ goroutine[s] = "close"
  /\ scheduler' = [scheduler EXCEPT ![s] = "deleted"]
  /\ goroutine' = [goroutine EXCEPT ![s] = "done"]
  /\ UNCHANGED <<stream, received, decoding, events, delayLapsed, envoyVars, continuing>>

(* Mutation of Scheduled: it runs although nothing was committed. *)
ScheduledUnasked(s) ==
  /\ Dispatch(s)
  /\ goroutine[s] # "none"
  /\ events' = [events EXCEPT ![s] = @ - 1]
  /\ delayLapsed' = [delayLapsed EXCEPT ![s] = TRUE]
  /\ continuing' = s
  /\ IF decoding[s] = "stopped" THEN Forward(s, "scheduled")
                                ELSE UNCHANGED <<decoding, upstream>>
  /\ UNCHANGED <<stream, do_delay, parts, received, goVars, response>>

(* Mutation of Scheduled: the lapse is not noted. *)
ScheduledUnnoted(s) ==
  /\ Dispatch(s)
  /\ events[s] > 0
  /\ events' = [events EXCEPT ![s] = @ - 1]
  /\ continuing' = s
  /\ IF decoding[s] = "stopped" THEN Forward(s, "scheduled")
                                ELSE UNCHANGED <<decoding, upstream>>
  /\ UNCHANGED <<stream, do_delay, parts, received, goVars, delayLapsed, response>>

(* Mutation of Scheduled: the header is added after ContinueRequest. *)
ScheduledLate(s) ==
  /\ Dispatch(s)
  /\ events[s] > 0
  /\ events' = [events EXCEPT ![s] = @ - 1]
  /\ delayLapsed' = [delayLapsed EXCEPT ![s] = TRUE]
  /\ continuing' = s
  /\ IF decoding[s] = "stopped" THEN Forward(s, "plain")
                                ELSE UNCHANGED <<decoding, upstream>>
  /\ UNCHANGED <<stream, do_delay, parts, received, goVars, response>>

(* Scheduled notes the lapse, adds the delay-filter-on-scheduled header    *)
(* and calls ContinueRequest. Headers that have gone on already stay as    *)
(* they went.                                                              *)
Scheduled(s) ==
  /\ Dispatch(s)
  /\ events[s] > 0
  /\ events' = [events EXCEPT ![s] = @ - 1]
  /\ delayLapsed' = [delayLapsed EXCEPT ![s] = TRUE]
  /\ continuing' = s
  /\ IF decoding[s] = "stopped" THEN Forward(s, "scheduled")
                                ELSE UNCHANGED <<decoding, upstream>>
  /\ UNCHANGED <<stream, do_delay, parts, received, goVars, response>>

(* continue_decoding returns, and with it Scheduled. *)
Continued(s) ==
  /\ continuing = s
  /\ continuing' = none
  /\ UNCHANGED <<stream, received, decoding, goVars, events, delayLapsed, envoyVars>>

(* An event of a stream that is no more. *)
DropEvent(s) ==
  /\ stream[s] = "destroyed"
  /\ events[s] > 0
  /\ events' = [events EXCEPT ![s] = @ - 1]
  /\ UNCHANGED <<stream, received, decoding, goVars, delayLapsed, envoyVars, continuing>>

-----------------------------------------------------------------------------
(* The hook for the response headers. *)
ResponseHeaders(s) ==
  /\ response[s] = "nothing"
  /\ response' = [response EXCEPT ![s] = IF delayLapsed[s] THEN "lapsed" ELSE "plain"]

UpstreamReply(s) ==
  /\ Dispatch(s)
  /\ upstream[s] # "nothing"
  /\ ResponseHeaders(s)
  /\ UNCHANGED <<stream, do_delay, parts, received, decoding, goVars, events, delayLapsed,
                 upstream, continuing>>

(* Envoy answers the request itself: a timeout of the stream, or a later   *)
(* filter that has no upstream to send it to, within continue_decoding.    *)
(* What is left for the stream then is to be destroyed.                    *)
LocalReply(s) ==
  /\ stream[s] = "open"
  /\ continuing \in {none, s}
  /\ ResponseHeaders(s)
  /\ stream' = [stream EXCEPT ![s] = "replied"]
  /\ UNCHANGED <<do_delay, parts, received, decoding, goVars, events, delayLapsed, upstream, continuing>>

(* The end of the stream, or its reset at any time. *)
Destroy(s) ==
  /\ continuing = none
  /\ stream[s] \in {"open", "replied"}
  /\ stream' = [stream EXCEPT ![s] = "destroyed"]
  /\ UNCHANGED <<received, decoding, goVars, events, delayLapsed, envoyVars, continuing>>

-----------------------------------------------------------------------------
Goroutine(s) == Wake(s) \/ Commit(s) \/ Close(s)
RunEvent(s)  == Scheduled(s) \/ DropEvent(s)

Next ==
  \E s \in Streams :
     \/ NewStream(s) \/ RequestHeaders(s) \/ RequestBody(s)
     \/ Goroutine(s) \/ RunEvent(s) \/ Continued(s)
     \/ UpstreamReply(s) \/ LocalReply(s) \/ Destroy(s)

(* The Go scheduler runs the goroutine, its sleep ends, and the worker     *)
(* thread gets to the event and ends a stream that has been answered.      *)
(* Clients and upstreams owe nothing.                                      *)
Fairness ==
  \A s \in Streams :
     /\ WF_vars(Goroutine(s))
     /\ SF_vars(RunEvent(s))
     /\ WF_vars(Continued(s))
     /\ SF_vars(stream[s] = "replied" /\ Destroy(s))

SafetySpec == Init /\ [][Next]_vars
Spec == SafetySpec /\ Fairness

-----------------------------------------------------------------------------
(* The request was delayed: its headers reached the next filter after the  *)
(* sleep, by way of Scheduled, and with the header that Scheduled adds.    *)
WasDelayed(s) == upstream[s] = "scheduled" /\ goroutine[s] \in {"close", "done"}

HeadersOnly(s) == parts[s] = 0

(* A request that asks for the delay and has nothing but headers is        *)
(* delayed before the next filter sees it.                                 *)
DelayObserved ==
  \A s \in Streams :
     do_delay[s] /\ HeadersOnly(s) /\ upstream[s] # "nothing" => WasDelayed(s)

(* What delay.go:15 says of the filter, of requests with a body as well:   *)
(* "to delay the request processing".                                      *)
EveryRequestDelayed ==
  \A s \in Streams : do_delay[s] /\ upstream[s] # "nothing" => WasDelayed(s)

(* Any response to a request that was delayed, by the upstream or by Envoy, *)
(* tells how long the delay was: ResponseHeaders sees what Scheduled has    *)
(* noted in an earlier turn. A response that tells of a delay answers a     *)
(* request that asked for it and whose goroutine has slept; but if the      *)
(* request has a body, this may have carried it past without a delay.       *)
LapseReported ==
  \A s \in Streams :
     /\ upstream[s] = "scheduled" => response[s] \in {"nothing", "lapsed"}
     /\ response[s] = "lapsed" =>
           /\ do_delay[s] /\ goroutine[s] \in {"close", "done"}
           /\ WasDelayed(s) \/ (upstream[s] = "plain" /\ ~HeadersOnly(s))

(* The goroutine uses the scheduler only between NewScheduler and Close,   *)
(* whatever happens to the stream, and an event is committed but once.     *)
SchedulerUse ==
  \A s \in Streams :
     /\ goroutine[s] \in {"sleep", "commit", "close"} <=> scheduler[s] = "open"
     /\ events[s] > 0 => goroutine[s] \in {"close", "done"} /\ ~delayLapsed[s]

(* ContinueRequest is called for a stopped request only, as gosdk.go:69    *)
(* wants it: nothing resumes the headers of a request without a body while *)
(* the goroutine is at work.                                               *)
ContinueWhenStopped ==
  [][\A s \in Streams :
       continuing = none /\ continuing' = s /\ HeadersOnly(s) => decoding[s] = "stopped"]_vars

(* abi.go declares continue_decoding with "#cgo nocallback": while it runs *)
(* no exported Go function is entered.                                     *)
NoCallback ==
  [][\A s \in Streams : response'[s] # response[s] => continuing = none]_vars

(* A stopped request goes on, unless its stream ends. *)
Resumes ==
  \A s \in Streams :
     decoding[s] = "stopped" ~> decoding[s] = "continued" \/ stream[s] = "destroyed"

(* Every scheduler is closed, also that of a stream that was destroyed     *)
(* during the sleep.                                                       *)
SchedulerFreed == \A s \in Streams : scheduler[s] = "open" ~> scheduler[s] = "deleted"
=============================================================================
