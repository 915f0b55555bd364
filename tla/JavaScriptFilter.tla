-------------------------- MODULE JavaScriptFilter --------------------------
(***************************************************************************)
(* The JavaScript filter of the Go module (go/javascript.go). A filter     *)
(* configuration has a pool of virtual machines, which are not safe for    *)
(* concurrent use. Each stream gets one of them at random, and streams of  *)
(* different worker threads may get the same one. A hook copies the        *)
(* headers of the stream into a map of the filter, locks the machine, runs *)
(* the script and unlocks the machine when it returns, also when the       *)
(* script has thrown. What the script reads comes from the map; what it    *)
(* sets goes to the map and to Envoy.                                      *)
(*                                                                         *)
(* A header of Envoy's has a list of values, of which the map keeps the    *)
(* first. Envoy knows a header by its name in lower case; the map knows it *)
(* by the name that the script has used.                                   *)
(***************************************************************************)
EXTENDS Naturals, Sequences

CONSTANTS
  Threads,    \* Envoy's worker threads
  Streams,    \* the streams, each with its own javaScriptFilter
  VMs,        \* the pool: numberOfVMPool virtual machines
  Names,      \* the header names that scripts, clients and filters use
  Values,     \* the values of headers
  Written,    \* those that scripts set
  Lists,      \* the lists of values with which headers arrive
  lower,      \* the name in lower case
  absent      \* no value, no thread, no machine, no stream

ASSUME LowerAssumption ==
  lower \in [Names -> Names] /\ \A n \in Names : lower[lower[n]] = lower[n]
ASSUME ValuesAssumption == Written \subseteq Values /\ Lists \subseteq Seq(Values)
ASSUME AbsentAssumption == absent \notin Values \cup Threads \cup VMs \cup Streams

Phases == {"request", "response"}
LowerNames == {n \in Names : lower[n] = n}

VARIABLES
  thread,     \* the worker thread of each stream, once it exists
  vm,         \* the virtual machine of its filter
  progress,   \* what the filter chain has done with the stream
  envoy,      \* the header maps of Envoy, by stream and phase
  mirror,     \* requestHeaders and responseHeaders of the filter
  mux,        \* the thread that holds the mutex of each virtual machine
  pc,         \* where each thread is in a hook
  serving,    \* the stream whose hook it is in
  phase,      \* which hook it is in
  respelt     \* history: the headers set by a name not in lower case

streamVars == <<thread, vm, progress>>
headerVars == <<envoy, mirror>>
vars == <<streamVars, headerVars, mux, pc, serving, phase, respelt>>

Maps(keys, range) == [Phases -> [keys -> range]]

(* Type correctness; a filter has a machine of the pool from its start. *)
TypeOK ==
  /\ thread \in [Streams -> Threads \cup {absent}]
  /\ vm \in [Streams -> VMs \cup {absent}]
  /\ \A s \in Streams : thread[s] # absent => vm[s] # absent
  /\ progress \in [Streams -> {"none", "open", "requested", "stopped", "answered", "replied", "destroyed"}]
  /\ envoy \in [Streams -> Maps(LowerNames, Seq(Values))]
  /\ mirror \in [Streams -> Maps(Names, Values \cup {absent})]
  /\ mux \in [VMs -> Threads \cup {absent}]
  /\ pc \in [Threads -> {"envoy", "lock", "script"}]
  /\ serving \in [Threads -> Streams \cup {absent}]
  /\ phase \in [Threads -> Phases]
  /\ respelt \in [Streams -> SUBSET (Phases \X (Names \ LowerNames))]

Nothing(keys, none) == [p \in Phases |-> [n \in keys |-> none]]

Init ==
  /\ thread = [s \in Streams |-> absent]
  /\ vm = [s \in Streams |-> absent]
  /\ progress = [s \in Streams |-> "none"]
  /\ envoy = [s \in Streams |-> Nothing(LowerNames, << >>)]
  /\ mirror = [s \in Streams |-> Nothing(Names, absent)]
  /\ mux = [v \in VMs |-> absent]
  /\ pc = [t \in Threads |-> "envoy"]
  /\ serving = [t \in Threads |-> absent]
  /\ phase = [t \in Threads |-> "request"]
  /\ respelt = [s \in Streams |-> {}]

-----------------------------------------------------------------------------
(* Envoy's side. A thread that is in a hook does nothing else. *)
Idle(t) == pc[t] = "envoy"

Arriving == [LowerNames -> Lists]

(* Mutation of NewFilter: the filter is built without a machine. *)
NewFilterWithoutVM(s, t, v) ==
  /\ Idle(t)
  /\ progress[s] = "none"
  /\ thread' = [thread EXCEPT ![s] = t]
  /\ progress' = [progress EXCEPT ![s] = "open"]
  /\ \E h \in Arriving : envoy' = [envoy EXCEPT ![s]["request"] = h]
  /\ UNCHANGED <<vm, mirror, mux, pc, serving, phase, respelt>>

(* Envoy opens a stream on a thread, and NewFilter picks a machine. *)
NewFilter(s, t, v) ==
  /\ Idle(t)
  /\ progress[s] = "none"
  /\ thread' = [thread EXCEPT ![s] = t]
  /\ vm' = [vm EXCEPT ![s] = v]
  /\ progress' = [progress EXCEPT ![s] = "open"]
  /\ \E h \in Arriving : envoy' = [envoy EXCEPT ![s]["request"] = h]
  /\ UNCHANGED <<mirror, mux, pc, serving, phase, respelt>>

(* The later filters of the chain set headers of the request. *)
LaterFilters(s) ==
  /\ progress[s] = "requested"
  /\ Idle(thread[s])
  /\ \E h \in Arriving : envoy' = [envoy EXCEPT ![s]["request"] = h]
  /\ UNCHANGED <<streamVars, mirror, mux, pc, serving, phase, respelt>>

(* The upstream answers a request that went on, or Envoy answers for it,   *)
(* even before the hook for the request's headers: an earlier filter does. *)
Answer(s) ==
  /\ progress[s] \in {"open", "requested", "stopped"}
  /\ Idle(thread[s])
  /\ progress' = [progress EXCEPT ![s] = "answered"]
  /\ \E h \in Arriving : envoy' = [envoy EXCEPT ![s]["response"] = h]
  /\ UNCHANGED <<thread, vm, mirror, mux, pc, serving, phase, respelt>>

(* The stream ends; the filter, its maps and Envoy's are gone. *)
Destroy(s) ==
  /\ progress[s] \notin {"none", "destroyed"}
  /\ Idle(thread[s])
  /\ progress' = [progress EXCEPT ![s] = "destroyed"]
  /\ envoy' = [envoy EXCEPT ![s] = Nothing(LowerNames, << >>)]
  /\ mirror' = [mirror EXCEPT ![s] = Nothing(Names, absent)]
  /\ respelt' = [respelt EXCEPT ![s] = {}]
  /\ UNCHANGED <<thread, vm, mux, pc, serving, phase>>

-----------------------------------------------------------------------------
(* GetRequestHeaders and GetResponseHeaders: a name that has no value is   *)
(* not in their maps.                                                      *)
GetHeaders(s, p) == [n \in {k \in LowerNames : envoy[s][p][k] # << >>} |-> envoy[s][p][n]]

(* p.requestHeaders[k] = vs[0] for what Envoy has: the other keys stay. *)
Copy(s, p) ==
  LET headers == GetHeaders(s, p)
  IN  mirror' = [mirror EXCEPT ![s][p] =
        [n \in Names |-> IF n \in DOMAIN headers THEN headers[n][1] ELSE @[n]]]

Enter(t, s, p) ==
  /\ Idle(t)
  /\ thread[s] = t
  /\ pc' = [pc EXCEPT ![t] = "lock"]
  /\ serving' = [serving EXCEPT ![t] = s]
  /\ phase' = [phase EXCEPT ![t] = p]
  /\ Copy(s, p)
  /\ UNCHANGED <<streamVars, envoy, mux, respelt>>

RequestHeaders(t, s)  == progress[s] = "open" /\ Enter(t, s, "request")
ResponseHeaders(t, s) == progress[s] = "answered" /\ Enter(t, s, "response")

machine(t) == vm[serving[t]]

(* Mutation of Lock: the script runs without the mutex. *)
LockForgotten(t) ==
  /\ pc[t] = "lock"
  /\ pc' = [pc EXCEPT ![t] = "script"]
  /\ UNCHANGED <<streamVars, headerVars, mux, serving, phase, respelt>>

Lock(t) ==
  /\ pc[t] = "lock"
  /\ mux[machine(t)] = absent
  /\ mux' = [mux EXCEPT ![machine(t)] = t]
  /\ pc' = [pc EXCEPT ![t] = "script"]
  /\ UNCHANGED <<streamVars, headerVars, serving, phase, respelt>>

(* SetRequestHeader and SetResponseHeader: one value takes the place of    *)
(* all that Envoy has.                                                     *)
SetEnvoyHeader(s, p, n, x) == envoy' = [envoy EXCEPT ![s][p][lower[n]] = <<x>>]

(* Mutation of SetHeader: the map of the filter keeps the old value. *)
SetHeaderUnmirrored(t, n, x) ==
  LET s == serving[t]  p == phase[t]
  IN  /\ pc[t] = "script"
      /\ SetEnvoyHeader(s, p, n, x)
      /\ UNCHANGED <<streamVars, mirror, mux, pc, serving, phase, respelt>>

(* setRequestHeader in the hook for the request, setResponseHeader in the  *)
(* one for the response. What the script reads changes no state.           *)
SetHeader(t, n, x) ==
  LET s == serving[t]  p == phase[t]
  IN  /\ pc[t] = "script"
      /\ mirror' = [mirror EXCEPT ![s][p][n] = x]
      /\ SetEnvoyHeader(s, p, n, x)
      /\ respelt' = IF n \in LowerNames THEN respelt
                    ELSE [respelt EXCEPT ![s] = @ \cup {<<p, n>>}]
      /\ UNCHANGED <<streamVars, mux, pc, serving, phase>>

(* The script returns or throws; the mutex is unlocked (defer), and the    *)
(* status of the hook lets the headers go on or stops them.                *)
After(t, thrown) ==
  IF phase[t] = "response" THEN "replied" ELSE IF thrown THEN "stopped" ELSE "requested"

(* Mutation of Return: the unlock is not deferred, and the error path does *)
(* not reach it.                                                           *)
ReturnLocked(t, thrown) ==
  /\ pc[t] = "script"
  /\ mux' = IF thrown THEN mux ELSE [mux EXCEPT ![machine(t)] = absent]
  /\ pc' = [pc EXCEPT ![t] = "envoy"]
  /\ serving' = [serving EXCEPT ![t] = absent]
  /\ progress' = [progress EXCEPT ![serving[t]] = After(t, thrown)]
  /\ UNCHANGED <<thread, vm, headerVars, phase, respelt>>

Return(t, thrown) ==
  /\ pc[t] = "script"
  /\ mux' = [mux EXCEPT ![machine(t)] = absent]
  /\ pc' = [pc EXCEPT ![t] = "envoy"]
  /\ serving' = [serving EXCEPT ![t] = absent]
  /\ progress' = [progress EXCEPT ![serving[t]] = After(t, thrown)]
  /\ UNCHANGED <<thread, vm, headerVars, phase, respelt>>

-----------------------------------------------------------------------------
Ends(t) == \E thrown \in BOOLEAN : Return(t, thrown)

Next ==
  \/ \E s \in Streams :
        \/ \E t \in Threads, v \in VMs : NewFilter(s, t, v)
        \/ LaterFilters(s) \/ Answer(s) \/ Destroy(s)
        \/ \E t \in Threads : RequestHeaders(t, s) \/ ResponseHeaders(t, s)
  \/ \E t \in Threads :
        \/ Lock(t)
        \/ \E n \in Names, x \in Written : SetHeader(t, n, x)
        \/ Ends(t)

(* Scripts come to an end, and sync.Mutex hands the lock to a thread that  *)
(* has waited too long. Envoy owes nothing.                                *)
Fairness == \A t \in Threads : SF_vars(Lock(t)) /\ SF_vars(Ends(t))

SafetySpec == Init /\ [][Next]_vars
Spec == SafetySpec /\ Fairness

-----------------------------------------------------------------------------
(* No two threads run scripts on one virtual machine, whatever the random  *)
(* choices of NewFilter: goja's Runtime is not safe for concurrent use.    *)
ScriptsApart ==
  \A t, u \in Threads :
     pc[t] = "script" /\ pc[u] = "script" /\ machine(t) = machine(u) => t = u

First(values) == IF values = << >> THEN absent ELSE values[1]

(* The script of stream s has set header n of Envoy's by a name with       *)
(* capital letters.                                                        *)
Respelt(s, p, n) == \E k \in Names : lower[k] = n /\ <<p, k>> \in respelt[s]

(* What a script reads of the headers of its phase. By a name in lower     *)
(* case, it is the first value that Envoy has now, whatever the script has *)
(* set before by such names, but not if it has set that header by a name   *)
(* with capital letters. By a name with capital letters, it is something   *)
(* exactly if the script has set the header by that very name: a header    *)
(* that has arrived cannot be read so.                                     *)
ReadsCurrent ==
  \A t \in Threads :
     LET s == serving[t]  p == phase[t]
     IN  pc[t] = "script" =>
            /\ \A n \in LowerNames : Respelt(s, p, n) \/ mirror[s][p][n] = First(envoy[s][p][n])
            /\ \A n \in Names \ LowerNames : mirror[s][p][n] # absent <=> <<p, n>> \in respelt[s]

(* Every hook returns: no script that threw has left its machine locked.   *)
HooksReturn == \A t \in Threads : pc[t] # "envoy" ~> pc[t] = "envoy"
=============================================================================
