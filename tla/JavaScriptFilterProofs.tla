----------------------- MODULE JavaScriptFilterProofs -----------------------
(***************************************************************************)
(* Proofs about JavaScriptFilter for any number of threads, streams and    *)
(* virtual machines, and for any set of header names and values.           *)
(***************************************************************************)
EXTENDS JavaScriptFilter, TLAPS

InHook(t) == pc[t] # "envoy"

(* A hook serves a stream of its own thread, which has not gone past it. *)
HookOK(t) ==
  InHook(t) =>
     /\ serving[t] \in Streams
     /\ thread[serving[t]] = t
     /\ progress[serving[t]] = IF phase[t] = "request" THEN "open" ELSE "answered"

MutexOK(t) == pc[t] = "script" => mux[machine(t)] = t

(* The map and Envoy agree from the copy on, until the hook returns. *)
CurrentOK(t) ==
  InHook(t) =>
     \A n \in LowerNames :
        \/ Respelt(serving[t], phase[t], n)
        \/ mirror[serving[t]][phase[t]][n] = First(envoy[serving[t]][phase[t]][n])

(* Names with capital letters come into the map by the script alone. *)
SpeltOK(s, p) ==
  \A n \in Names \ LowerNames : mirror[s][p][n] # absent <=> <<p, n>> \in respelt[s]

Untouched(s, p) == \A n \in Names : mirror[s][p][n] = absent

Entered(s, p) == \E t \in Threads : InHook(t) /\ serving[t] = s /\ phase[t] = p

Before(p) ==
  IF p = "request" THEN {"none", "open"} ELSE {"none", "open", "requested", "stopped", "answered"}

(* The copy starts from an empty map: each hook runs once for a stream. *)
FreshOK(s, p) == progress[s] \in Before(p) => Entered(s, p) \/ Untouched(s, p)

IInv ==
  /\ TypeOK
  /\ \A t \in Threads : HookOK(t) /\ MutexOK(t) /\ CurrentOK(t)
  /\ \A s \in Streams, p \in Phases : FreshOK(s, p) /\ SpeltOK(s, p)

-----------------------------------------------------------------------------
(* No stream exists at the start. *)
LEMMA InitIInv == Init => IInv
BY AbsentAssumption
DEF Init, IInv, TypeOK, HookOK, MutexOK, CurrentOK, FreshOK, SpeltOK, Untouched, InHook, Nothing, Maps, Phases

(* Header maps that are replaced, or set at one name, stay header maps. *)
LEMMA Replaced ==
  ASSUME NEW K, NEW R, NEW f \in [Streams -> Maps(K, R)], NEW s \in Streams, NEW p \in Phases,
         NEW g \in [K -> R]
  PROVE  [f EXCEPT ![s][p] = g] \in [Streams -> Maps(K, R)]
BY DEF Maps

(* The same for one name of a map. *)
LEMMA SetAt ==
  ASSUME NEW K, NEW R, NEW f \in [Streams -> Maps(K, R)], NEW s \in Streams, NEW p \in Phases,
         NEW n \in K, NEW x \in R
  PROVE  [f EXCEPT ![s][p][n] = x] \in [Streams -> Maps(K, R)]
<1>1. f[s] \in Maps(K, R)
  OBVIOUS
<1>2. f[s][p] \in [K -> R]
  BY <1>1 DEF Maps
<1>3. [f[s][p] EXCEPT ![n] = x] \in [K -> R]
  BY <1>2
<1>4. [f[s] EXCEPT ![p] = [f[s][p] EXCEPT ![n] = x]] \in Maps(K, R)
  BY <1>1, <1>3 DEF Maps
<1> QED
  BY <1>4

(* The variables but for the header maps, of which the step says the rest. *)
ControlOK ==
  /\ thread \in [Streams -> Threads \cup {absent}]
  /\ vm \in [Streams -> VMs \cup {absent}]
  /\ \A s \in Streams : thread[s] # absent => vm[s] # absent
  /\ progress \in [Streams -> {"none", "open", "requested", "stopped", "answered", "replied", "destroyed"}]
  /\ mux \in [VMs -> Threads \cup {absent}]
  /\ pc \in [Threads -> {"envoy", "lock", "script"}]
  /\ serving \in [Threads -> Streams \cup {absent}]
  /\ phase \in [Threads -> Phases]

MapsOK ==
  /\ envoy \in [Streams -> Maps(LowerNames, Seq(Values))]
  /\ mirror \in [Streams -> Maps(Names, Values \cup {absent})]

RespeltOK == respelt \in [Streams -> SUBSET (Phases \X (Names \ LowerNames))]

(* The three parts make up TypeOK. *)
LEMMA TypeParts == TypeOK <=> ControlOK /\ MapsOK /\ RespeltOK
BY DEF TypeOK, ControlOK, MapsOK, RespeltOK

(* A name in lower case is a name that Envoy uses. *)
LEMMA LowerOfName == \A n \in Names : lower[n] \in LowerNames
BY LowerAssumption DEF LowerNames

(* Threads, mutexes and hooks keep their types. *)
LEMMA ControlStep ==
  ControlOK /\ (\A t \in Threads : HookOK(t)) /\ [Next]_vars => ControlOK'
<1> SUFFICES ASSUME ControlOK, \A t \in Threads : HookOK(t), [Next]_vars PROVE ControlOK'
  OBVIOUS
<1> USE AbsentAssumption DEF ControlOK, streamVars, headerVars, Phases, Idle
<1>1. ASSUME NEW s \in Streams, NEW t \in Threads, NEW v \in VMs, NewFilter(s, t, v)
      PROVE  ControlOK'
  BY <1>1 DEF NewFilter
<1>2. ASSUME NEW s \in Streams, LaterFilters(s) \/ Answer(s) \/ Destroy(s) PROVE ControlOK'
  BY <1>2 DEF LaterFilters, Answer, Destroy
<1>3. ASSUME NEW t \in Threads, NEW s \in Streams, NEW p \in Phases, Enter(t, s, p)
      PROVE  ControlOK'
  BY <1>3 DEF Enter
<1>4. ASSUME NEW t \in Threads, Lock(t) PROVE ControlOK'
  BY <1>4 DEF Lock
<1>5. ASSUME NEW t \in Threads, NEW n \in Names, NEW x \in Written, SetHeader(t, n, x)
      PROVE  ControlOK'
  BY <1>5 DEF SetHeader, SetEnvoyHeader
<1>6. ASSUME NEW t \in Threads, NEW thrown \in BOOLEAN, Return(t, thrown) PROVE ControlOK'
  <2>1. serving[t] \in Streams
    BY <1>6 DEF Return, HookOK, InHook
  <2> QED
    BY <1>6, <2>1 DEF Return, After
<1>7. CASE UNCHANGED vars
  BY <1>7 DEF vars
<1> QED
  BY <1>1, <1>2, <1>3, <1>4, <1>5, <1>6, <1>7
  DEF Next, RequestHeaders, ResponseHeaders, Ends, Phases

(* Copying, setting and receiving headers leaves header maps. *)
LEMMA MapsStep ==
  TypeOK /\ (\A t \in Threads : HookOK(t)) /\ [Next]_vars => MapsOK'
<1> SUFFICES ASSUME TypeOK, \A t \in Threads : HookOK(t), [Next]_vars PROVE MapsOK'
  OBVIOUS
<1>0. ControlOK /\ MapsOK
  BY TypeParts
<1>p. "request" \in Phases /\ "response" \in Phases
  BY DEF Phases
<1>1. ASSUME NEW s \in Streams, NEW p \in Phases, NEW h \in Arriving,
             envoy' = [envoy EXCEPT ![s][p] = h], mirror' = mirror
      PROVE  MapsOK'
  <2>1. h \in [LowerNames -> Seq(Values)]
    BY ValuesAssumption DEF Arriving
  <2> QED
    BY <1>0, <1>1, <2>1, Replaced DEF MapsOK
<1>2. ASSUME NEW s \in Streams, LaterFilters(s) \/ Answer(s) PROVE MapsOK'
  BY <1>p, <1>1, <1>2 DEF LaterFilters, Answer
<1>7. ASSUME NEW s \in Streams, Destroy(s) PROVE MapsOK'
  <2>1. Nothing(LowerNames, << >>) \in Maps(LowerNames, Seq(Values))
    BY DEF Nothing, Maps
  <2>2. Nothing(Names, absent) \in Maps(Names, Values \cup {absent})
    BY DEF Nothing, Maps
  <2> QED
    BY <1>0, <1>7, <2>1, <2>2 DEF Destroy, MapsOK
<1>3. ASSUME NEW s \in Streams, NEW t \in Threads, NEW v \in VMs, NewFilter(s, t, v)
      PROVE  MapsOK'
  BY <1>p, <1>1, <1>3 DEF NewFilter
<1>4. ASSUME NEW t \in Threads, NEW s \in Streams, NEW p \in Phases, Enter(t, s, p)
      PROVE  MapsOK'
  <2> DEFINE g == [n \in Names |-> IF n \in LowerNames /\ envoy[s][p][n] # << >>
                                   THEN envoy[s][p][n][1] ELSE mirror[s][p][n]]
  <2>1. envoy[s][p] \in [LowerNames -> Seq(Values)]
    BY <1>0 DEF MapsOK, Maps
  <2>2. mirror[s][p] \in [Names -> Values \cup {absent}]
    BY <1>0 DEF MapsOK, Maps
  <2>3. g \in [Names -> Values \cup {absent}]
    BY <2>1, <2>2
  <2>4. mirror' = [mirror EXCEPT ![s][p] = g] /\ envoy' = envoy
    BY <1>4 DEF Enter, Copy, GetHeaders
  <2> HIDE DEF g
  <2> QED
    BY <1>0, <2>3, <2>4, Replaced DEF MapsOK
<1>5. ASSUME NEW t \in Threads, NEW n \in Names, NEW x \in Written, SetHeader(t, n, x)
      PROVE  MapsOK'
  <2>1. serving[t] \in Streams /\ phase[t] \in Phases
    BY <1>0, <1>5 DEF SetHeader, SetEnvoyHeader, HookOK, InHook, ControlOK
  <2>2. x \in Values \cup {absent} /\ <<x>> \in Seq(Values)
    BY ValuesAssumption
  <2> QED
    BY <1>0, <1>5, <2>1, <2>2, SetAt, LowerOfName DEF SetHeader, SetEnvoyHeader, MapsOK
<1>6. ASSUME UNCHANGED headerVars PROVE MapsOK'
  BY <1>0, <1>6 DEF MapsOK, headerVars
<1> QED
  BY <1>2, <1>3, <1>4, <1>5, <1>6, <1>7
  DEF Next, RequestHeaders, ResponseHeaders, Ends, Lock, Return, vars, Phases

(* The history has names with capital letters only. *)
LEMMA RespeltStep ==
  TypeOK /\ (\A t \in Threads : HookOK(t)) /\ [Next]_vars => RespeltOK'
<1> SUFFICES ASSUME TypeOK, \A t \in Threads : HookOK(t), [Next]_vars PROVE RespeltOK'
  OBVIOUS
<1>0. ControlOK /\ RespeltOK
  BY TypeParts
<1>1. ASSUME NEW t \in Threads, NEW n \in Names, NEW x \in Written, SetHeader(t, n, x)
      PROVE  RespeltOK'
  <2> DEFINE cell == {<<phase[t], n>>}
  <2>1. n \in LowerNames \/ cell \in SUBSET (Phases \X (Names \ LowerNames))
    BY <1>0 DEF ControlOK
  <2>2. \/ respelt' = respelt
        \/ n \notin LowerNames /\ respelt' = [respelt EXCEPT ![serving[t]] = @ \cup cell]
    BY <1>1 DEF SetHeader, SetEnvoyHeader
  <2> HIDE DEF cell
  <2> QED
    BY <1>0, <2>1, <2>2 DEF RespeltOK
<1>2. ASSUME UNCHANGED respelt PROVE RespeltOK'
  BY <1>0, <1>2 DEF RespeltOK
<1>3. ASSUME NEW s \in Streams, Destroy(s) PROVE RespeltOK'
  BY <1>0, <1>3 DEF Destroy, RespeltOK
<1> QED
  BY <1>1, <1>2, <1>3
  DEF Next, NewFilter, LaterFilters, Answer, RequestHeaders, ResponseHeaders, Enter,
      Lock, Ends, Return, vars

(* Every variable keeps to its type. *)
LEMMA TypeStep == IInv /\ [Next]_vars => TypeOK'
<1>1. ControlOK' /\ MapsOK' /\ RespeltOK' => TypeOK'
  BY DEF TypeOK, ControlOK, MapsOK, RespeltOK
<1>2. IInv => TypeOK /\ ControlOK /\ \A t \in Threads : HookOK(t)
  BY TypeParts DEF IInv
<1> QED
  BY <1>1, <1>2, ControlStep, MapsStep, RespeltStep

(* A hook keeps its stream, and a script keeps the mutex of its machine.   *)
LEMMA HooksStep == IInv /\ [Next]_vars => \A u \in Threads : HookOK(u)' /\ MutexOK(u)'
<1> SUFFICES ASSUME IInv, [Next]_vars, NEW u \in Threads PROVE HookOK(u)' /\ MutexOK(u)'
  OBVIOUS
<1> USE AbsentAssumption
    DEF IInv, TypeOK, streamVars, headerVars, Phases, Idle, HookOK, MutexOK, InHook, machine
<1>1. ASSUME NEW s \in Streams, NEW t \in Threads, NEW v \in VMs, NewFilter(s, t, v)
      PROVE  HookOK(u)' /\ MutexOK(u)'
  BY <1>1 DEF NewFilter
<1>2. ASSUME NEW s \in Streams, LaterFilters(s) \/ Answer(s) \/ Destroy(s)
      PROVE  HookOK(u)' /\ MutexOK(u)'
  BY <1>2 DEF LaterFilters, Answer, Destroy
<1>3. ASSUME NEW t \in Threads, NEW s \in Streams, RequestHeaders(t, s) \/ ResponseHeaders(t, s)
      PROVE  HookOK(u)' /\ MutexOK(u)'
  BY <1>3 DEF RequestHeaders, ResponseHeaders, Enter
<1>4. ASSUME NEW t \in Threads, Lock(t) PROVE HookOK(u)' /\ MutexOK(u)'
  BY <1>4 DEF Lock
<1>5. ASSUME NEW t \in Threads, NEW n \in Names, NEW x \in Written, SetHeader(t, n, x)
      PROVE  HookOK(u)' /\ MutexOK(u)'
  BY <1>5 DEF SetHeader, SetEnvoyHeader
<1>6. ASSUME NEW t \in Threads, NEW thrown \in BOOLEAN, Return(t, thrown)
      PROVE  HookOK(u)' /\ MutexOK(u)'
  BY <1>6 DEF Return, After
<1>7. CASE UNCHANGED vars
  BY <1>7 DEF vars
<1> QED
  BY <1>1, <1>2, <1>3, <1>4, <1>5, <1>6, <1>7 DEF Next, Ends

(* What a replaced header map does not touch. *)
LEMMA ReplacedAt ==
  ASSUME NEW K, NEW R, NEW f \in [Streams -> Maps(K, R)], NEW s \in Streams, NEW p \in Phases, NEW g,
         NEW r \in Streams, NEW q \in Phases
  PROVE  [f EXCEPT ![s][p] = g][r][q] = IF r = s /\ q = p THEN g ELSE f[r][q]
BY DEF Maps

(* The copy of a hook that has just been entered. *)
Copied(s, p) ==
  [n \in Names |-> IF n \in LowerNames /\ envoy[s][p][n] # << >>
                   THEN envoy[s][p][n][1] ELSE mirror[s][p][n]]

(* Entering a hook fills one map, and Envoy keeps its headers. *)
LEMMA EnterEffect ==
  ASSUME TypeOK, NEW t \in Threads, NEW s \in Streams, NEW p \in Phases, Enter(t, s, p),
         NEW r \in Streams, NEW q \in Phases
  PROVE  /\ mirror'[r][q] = IF r = s /\ q = p THEN Copied(s, p) ELSE mirror[r][q]
         /\ envoy' = envoy
<1>1. mirror' = [mirror EXCEPT ![s][p] = Copied(s, p)] /\ envoy' = envoy
  BY DEF Enter, Copy, GetHeaders, Copied
<1>2. mirror \in [Streams -> Maps(Names, Values \cup {absent})]
  BY DEF TypeOK
<1> QED
  BY <1>1, <1>2 DEF Maps

(* A script sets the header in both copies, of its own stream and phase. *)
LEMMA SetHeaderEffect ==
  ASSUME TypeOK, NEW t \in Threads, NEW n \in Names, NEW x \in Written, SetHeader(t, n, x),
         serving[t] \in Streams,
         NEW r \in Streams, NEW q \in Phases
  PROVE  /\ \A k \in Names : mirror'[r][q][k] =
               IF r = serving[t] /\ q = phase[t] /\ k = n THEN x ELSE mirror[r][q][k]
         /\ \A k \in LowerNames : envoy'[r][q][k] =
               IF r = serving[t] /\ q = phase[t] /\ k = lower[n] THEN <<x>> ELSE envoy[r][q][k]
<1>1. phase[t] \in Phases /\ MapsOK
  BY DEF TypeOK, MapsOK
<1>2. /\ mirror' = [mirror EXCEPT ![serving[t]][phase[t]][n] = x]
      /\ envoy' = [envoy EXCEPT ![serving[t]][phase[t]][lower[n]] = <<x>>]
  BY DEF SetHeader, SetEnvoyHeader
<1>3. serving[t] \in Streams /\ lower[n] \in LowerNames
  BY LowerOfName
<1>4. ASSUME NEW k \in Names
      PROVE  mirror'[r][q][k] =
                IF r = serving[t] /\ q = phase[t] /\ k = n THEN x ELSE mirror[r][q][k]
  BY <1>1, <1>2, <1>3 DEF Maps, MapsOK
<1>5. ASSUME NEW k \in LowerNames
      PROVE  envoy'[r][q][k] =
                IF r = serving[t] /\ q = phase[t] /\ k = lower[n] THEN <<x>> ELSE envoy[r][q][k]
  BY <1>1, <1>2, <1>3 DEF Maps, MapsOK
<1> QED
  BY <1>4, <1>5

(* Its effect on the filter's own copy alone. *)
LEMMA SetHeaderMirror ==
  ASSUME TypeOK, NEW t \in Threads, NEW n \in Names, NEW x \in Written, SetHeader(t, n, x),
         serving[t] \in Streams,
         NEW r \in Streams, NEW q \in Phases, NEW k \in Names, ~(r = serving[t] /\ q = phase[t])
  PROVE  mirror'[r][q][k] = mirror[r][q][k]
<1>1. mirror' = [mirror EXCEPT ![serving[t]][phase[t]][n] = x]
  BY DEF SetHeader, SetEnvoyHeader
<1>2. mirror \in [Streams -> Maps(Names, Values \cup {absent})] /\ phase[t] \in Phases
  BY DEF TypeOK
<1> QED
  BY <1>1, <1>2 DEF Maps

(* What happens on another thread, or to another stream, does not reach    *)
(* the headers of a hook; its own script changes both copies.              *)
LEMMA CurrentStep == IInv /\ [Next]_vars => \A u \in Threads : CurrentOK(u)'
<1> SUFFICES ASSUME IInv, [Next]_vars, NEW u \in Threads, InHook(u)', NEW k \in LowerNames
             PROVE  \/ Respelt(serving[u], phase[u], k)'
                    \/ mirror'[serving'[u]][phase'[u]][k] = First(envoy'[serving'[u]][phase'[u]][k])
  BY DEF CurrentOK, InHook
<1> DEFINE s == serving[u]
           p == phase[u]
           Agree == Respelt(s, p, k) \/ mirror[s][p][k] = First(envoy[s][p][k])
           Goal == \/ Respelt(serving[u], phase[u], k)'
                   \/ mirror'[serving'[u]][phase'[u]][k] = First(envoy'[serving'[u]][phase'[u]][k])
<1>0. ControlOK /\ MapsOK /\ RespeltOK /\ TypeOK /\ \A t \in Threads : HookOK(t)
  BY TypeParts DEF IInv
<1>k. k \in Names
  BY DEF LowerNames
<1>h. ASSUME InHook(u)
      PROVE  s \in Streams /\ p \in Phases /\ thread[s] = u /\ progress[s] # "none" /\ Agree
  <2>1. s \in Streams /\ p \in Phases /\ thread[s] = u /\ progress[s] # "none"
    BY <1>0, <1>h DEF HookOK, ControlOK
  <2> QED
    BY <1>h, <2>1 DEF IInv, CurrentOK
<1>1. ASSUME InHook(u), serving'[u] = s, phase'[u] = p, respelt'[s] = respelt[s],
             mirror'[s][p][k] = mirror[s][p][k], envoy'[s][p][k] = envoy[s][p][k]
      PROVE  Goal
  BY <1>h, <1>1 DEF Respelt
<1>2. ASSUME NEW r \in Streams, NEW q \in Phases, NEW h,
             envoy' = [envoy EXCEPT ![r][q] = h],
             InHook(u) => r # s,
             UNCHANGED <<mirror, pc, serving, phase, respelt>>
      PROVE  Goal
  <2>1. InHook(u)
    BY <1>2 DEF InHook
  <2>2. envoy'[s][p] = envoy[s][p]
    BY <1>h, <1>0, <1>2, <2>1, ReplacedAt DEF MapsOK
  <2> QED
    BY <1>1, <1>2, <2>1, <2>2
<1>3. ASSUME NEW r \in Streams, NEW t \in Threads, NEW v \in VMs, NewFilter(r, t, v)
      PROVE  Goal
  BY <1>2, <1>3, <1>h DEF NewFilter, Phases
<1>4. ASSUME NEW r \in Streams, LaterFilters(r) \/ Answer(r) PROVE Goal
  BY <1>2, <1>4, <1>h DEF LaterFilters, Answer, streamVars, Phases, Idle, InHook
<1>5. ASSUME UNCHANGED <<headerVars, serving, phase, respelt>>, InHook(u) PROVE Goal
  BY <1>1, <1>5 DEF headerVars
<1>6. ASSUME NEW r \in Streams, Destroy(r) PROVE Goal
  <2>1. InHook(u) /\ r # s
    BY <1>h, <1>6 DEF Destroy, InHook, Idle
  <2>2. UNCHANGED <<serving, phase>> /\ respelt'[s] = respelt[s]
    BY <1>0, <1>h, <1>6, <2>1 DEF Destroy, RespeltOK
  <2>3. mirror'[s] = mirror[s] /\ envoy'[s] = envoy[s]
    BY <1>0, <1>h, <1>6, <2>1 DEF Destroy, MapsOK
  <2> QED
    BY <1>1, <2>1, <2>2, <2>3
<1>7. ASSUME NEW t \in Threads, NEW r \in Streams, NEW q \in Phases,
             IF q = "request" THEN RequestHeaders(t, r) ELSE ResponseHeaders(t, r)
      PROVE  Goal
  <2>1. Enter(t, r, q) /\ progress[r] \in Before(q)
    BY <1>7 DEF RequestHeaders, ResponseHeaders, Before, Phases
  <2>2. CASE u # t
    <3>1. InHook(u) /\ serving'[u] = s /\ phase'[u] = p /\ respelt' = respelt
      BY <1>0, <2>1, <2>2 DEF Enter, InHook, ControlOK
    <3>2. r # s
      BY <1>h, <2>1, <2>2, <3>1 DEF Enter
    <3>3. mirror'[s][p] = mirror[s][p] /\ envoy' = envoy
      BY <1>0, <1>h, <2>1, <3>1, <3>2, EnterEffect
    <3> QED
      BY <1>1, <3>1, <3>3
  <2>3. CASE u = t
    <3>1. ~Entered(r, q)
      BY <1>0, <2>1 DEF Enter, Entered, HookOK, Idle, InHook
    <3>2. mirror[r][q][k] = absent
      BY <1>k, <2>1, <3>1 DEF IInv, FreshOK, Untouched
    <3>3. serving'[u] = r /\ phase'[u] = q
      BY <1>0, <2>1, <2>3 DEF Enter, ControlOK
    <3>4. mirror'[r][q] = Copied(r, q) /\ envoy' = envoy
      BY <1>0, <2>1, EnterEffect
    <3>5. Copied(r, q)[k] = First(envoy[r][q][k])
      BY <1>k, <3>2 DEF Copied, First
    <3> QED
      BY <3>3, <3>4, <3>5
  <2> QED
    BY <2>2, <2>3
<1>8. ASSUME NEW t \in Threads, Lock(t) PROVE Goal
  BY <1>0, <1>5, <1>8 DEF Lock, InHook, ControlOK
<1>9. ASSUME NEW t \in Threads, NEW n \in Names, NEW x \in Written, SetHeader(t, n, x)
      PROVE  Goal
  <2>1. InHook(u) /\ InHook(t) /\ serving' = serving /\ phase' = phase
    BY <1>9 DEF SetHeader, SetEnvoyHeader, InHook
  <2>2. serving[t] \in Streams /\ thread[serving[t]] = t
    BY <1>0, <2>1 DEF HookOK
  <2>3. /\ mirror'[s][p][k] = IF u = t /\ k = n THEN x ELSE mirror[s][p][k]
        /\ envoy'[s][p][k] = IF u = t /\ k = lower[n] THEN <<x>> ELSE envoy[s][p][k]
    BY <1>0, <1>h, <1>k, <1>9, <2>1, <2>2, SetHeaderEffect
  <2>4. respelt[s] \subseteq respelt'[s] /\ (Respelt(s, p, k) => Respelt(s, p, k)')
    BY <1>0, <1>h, <1>9, <2>1 DEF SetHeader, SetEnvoyHeader, RespeltOK, Respelt
  <2>5. CASE u = t /\ n \in LowerNames
    BY <1>h, <2>1, <2>3, <2>4, <2>5 DEF LowerNames, First
  <2>6. CASE u = t /\ n \notin LowerNames
    <3>1. <<p, n>> \in respelt'[s]
      BY <1>0, <1>h, <1>9, <2>1, <2>6 DEF SetHeader, SetEnvoyHeader, RespeltOK
    <3> QED
      BY <1>h, <1>k, <2>1, <2>3, <2>4, <2>6, <3>1 DEF Respelt
  <2>7. CASE u # t
    BY <1>h, <2>1, <2>3, <2>4, <2>7
  <2> QED
    BY <2>5, <2>6, <2>7
<1>10. ASSUME NEW t \in Threads, NEW thrown \in BOOLEAN, Return(t, thrown) PROVE Goal
  <2>1. InHook(u) /\ u # t
    BY <1>0, <1>10 DEF Return, InHook, ControlOK
  <2> QED
    BY <1>0, <1>1, <1>10, <2>1 DEF Return, ControlOK, headerVars
<1>11. ASSUME UNCHANGED vars PROVE Goal
  BY <1>5, <1>11 DEF vars, InHook
<1> HIDE DEF Goal
<1>12. ASSUME NEW t \in Threads, NEW r \in Streams, RequestHeaders(t, r) \/ ResponseHeaders(t, r)
       PROVE  Goal
  BY <1>7, <1>12 DEF Phases
<1>13. Goal
  BY <1>3, <1>4, <1>6, <1>8, <1>9, <1>10, <1>11, <1>12 DEF Next, Ends
<1> QED
  BY <1>13 DEF Goal

(* A copy has names in lower case only, and a script notes the others. *)
LEMMA SpeltStep ==
  IInv /\ [Next]_vars => \A r \in Streams, q \in Phases : SpeltOK(r, q)'
<1> SUFFICES ASSUME IInv, [Next]_vars, NEW r \in Streams, NEW q \in Phases,
                    NEW k \in Names, k \notin LowerNames
             PROVE  mirror'[r][q][k] # absent <=> <<q, k>> \in respelt'[r]
  BY DEF SpeltOK
<1>0. ControlOK /\ MapsOK /\ RespeltOK /\ TypeOK /\ \A t \in Threads : HookOK(t)
  BY TypeParts DEF IInv
<1>h. mirror[r][q][k] # absent <=> <<q, k>> \in respelt[r]
  BY DEF IInv, SpeltOK
<1> DEFINE Goal == mirror'[r][q][k] # absent <=> <<q, k>> \in respelt'[r]
<1>1. ASSUME UNCHANGED <<mirror, respelt>> PROVE Goal
  BY <1>h, <1>1
<1>2. ASSUME NEW s \in Streams, Destroy(s) PROVE Goal
  <2>1. CASE r = s
    <3>1. mirror'[r][q][k] = absent /\ respelt'[r] = {}
      BY <1>0, <1>2, <2>1 DEF Destroy, Nothing, MapsOK, RespeltOK
    <3> QED
      BY <3>1
  <2>2. CASE r # s
    BY <1>0, <1>h, <1>2, <2>2 DEF Destroy, MapsOK, RespeltOK
  <2> QED
    BY <2>1, <2>2
<1>3. ASSUME NEW t \in Threads, NEW s \in Streams, NEW p \in Phases, Enter(t, s, p)
      PROVE  Goal
  <2>1. mirror'[r][q] = IF r = s /\ q = p THEN Copied(s, p) ELSE mirror[r][q]
    BY <1>0, <1>3, EnterEffect
  <2>2. Copied(s, p)[k] = mirror[s][p][k]
    BY DEF Copied
  <2>3. mirror'[r][q][k] = mirror[r][q][k]
    BY <2>1, <2>2
  <2> QED
    BY <1>h, <1>3, <2>3 DEF Enter
<1>4. ASSUME NEW t \in Threads, NEW n \in Names, NEW x \in Written, SetHeader(t, n, x)
      PROVE  Goal
  <2>1. serving[t] \in Streams /\ phase[t] \in Phases /\ x # absent
    BY <1>0, <1>4, AbsentAssumption, ValuesAssumption
    DEF SetHeader, SetEnvoyHeader, HookOK, InHook, ControlOK
  <2>2. mirror'[r][q][k] = IF r = serving[t] /\ q = phase[t] /\ k = n THEN x ELSE mirror[r][q][k]
    <3>1. mirror' = [mirror EXCEPT ![serving[t]][phase[t]][n] = x]
      BY <1>4 DEF SetHeader, SetEnvoyHeader
    <3>2. mirror \in [Streams -> Maps(Names, Values \cup {absent})]
      BY <1>0 DEF MapsOK
    <3> QED
      BY <2>1, <3>1, <3>2 DEF Maps
  <2>3. <<q, k>> \in respelt'[r] <=>
           <<q, k>> \in respelt[r] \/ (r = serving[t] /\ q = phase[t] /\ k = n)
    BY <1>0, <1>4, <2>1 DEF SetHeader, SetEnvoyHeader, RespeltOK
  <2> QED
    BY <1>h, <2>1, <2>2, <2>3
<1> HIDE DEF Goal
<1>5. Goal
  BY <1>1, <1>2, <1>3, <1>4
  DEF Next, NewFilter, LaterFilters, Answer, RequestHeaders, ResponseHeaders, Lock, Ends, Return,
      vars, headerVars, Phases
<1> QED
  BY <1>5 DEF Goal

(* The map of a phase is empty until the hook of that phase runs. *)
LEMMA FreshStep ==
  IInv /\ [Next]_vars => \A r \in Streams, q \in Phases : FreshOK(r, q)'
<1> SUFFICES ASSUME IInv, [Next]_vars, NEW r \in Streams, NEW q \in Phases,
                    progress'[r] \in Before(q), ~Entered(r, q)'
             PROVE  Untouched(r, q)'
  BY DEF FreshOK, Before
<1>0. ControlOK /\ TypeOK /\ (\A t \in Threads : HookOK(t)) /\ FreshOK(r, q)
  BY TypeParts DEF IInv
<1>1. ASSUME progress[r] \in Before(q), ~Entered(r, q),
             \A n \in Names : mirror'[r][q][n] = mirror[r][q][n]
      PROVE  Untouched(r, q)'
  BY <1>0, <1>1 DEF FreshOK, Untouched
<1>2. ASSUME NEW s \in Streams, NEW t \in Threads, NEW v \in VMs, NewFilter(s, t, v)
      PROVE  Untouched(r, q)'
  BY <1>0, <1>1, <1>2 DEF NewFilter, ControlOK, Before, Entered, InHook
<1>3. ASSUME NEW s \in Streams, LaterFilters(s) \/ Answer(s) \/ Destroy(s)
      PROVE  Untouched(r, q)'
  <2>1. UNCHANGED <<pc, serving, phase>>
    BY <1>3 DEF LaterFilters, Answer, Destroy
  <2>2. progress[r] \in Before(q)
    BY <1>0, <1>3 DEF LaterFilters, Answer, Destroy, ControlOK, Before, streamVars, Phases
  <2>3. Destroy(s) => r # s
    BY <1>0 DEF Destroy, ControlOK, Before
  <2>4. mirror'[r] = mirror[r]
    BY <1>0, <1>3, <2>3, TypeParts DEF LaterFilters, Answer, Destroy, MapsOK
  <2> QED
    BY <1>1, <2>1, <2>2, <2>4 DEF Entered, InHook
<1>4. ASSUME NEW t \in Threads, NEW s \in Streams, NEW p \in Phases, Enter(t, s, p)
      PROVE  Untouched(r, q)'
  <2>1. ~(r = s /\ q = p)
    <3>1. pc'[t] = "lock" /\ serving'[t] = s /\ phase'[t] = p
      BY <1>0, <1>4 DEF Enter, ControlOK
    <3> QED
      BY <3>1 DEF Entered, InHook
  <2>2. ~Entered(r, q)
    BY <1>0, <1>4 DEF Enter, Entered, InHook, ControlOK, Idle
  <2>3. mirror'[r][q] = mirror[r][q] /\ progress' = progress
    <3>1. mirror'[r][q] = mirror[r][q]
      BY <1>0, <1>4, <2>1, EnterEffect
    <3> QED
      BY <1>4, <3>1 DEF Enter, streamVars
  <2> QED
    BY <1>1, <2>2, <2>3
<1>5. ASSUME NEW t \in Threads, NEW n \in Names, NEW x \in Written, SetHeader(t, n, x)
      PROVE  Untouched(r, q)'
  <2>1. InHook(t) /\ UNCHANGED <<streamVars, pc, serving, phase>>
    BY <1>5 DEF SetHeader, SetEnvoyHeader, InHook
  <2>2. ~Entered(r, q)
    BY <2>1 DEF Entered, InHook
  <2>3. ~(r = serving[t] /\ q = phase[t]) /\ serving[t] \in Streams
    BY <1>0, <2>1, <2>2 DEF Entered, HookOK
  <2>4. ASSUME NEW k \in Names PROVE mirror'[r][q][k] = mirror[r][q][k]
    BY <1>0, <1>5, <2>3, SetHeaderMirror
  <2> QED
    BY <1>1, <2>1, <2>2, <2>4 DEF streamVars
<1>6. ASSUME NEW t \in Threads, NEW thrown \in BOOLEAN, Return(t, thrown)
      PROVE  Untouched(r, q)'
  <2>1. InHook(t) /\ serving[t] \in Streams /\ phase[t] \in Phases
    BY <1>0, <1>6 DEF Return, InHook, HookOK, ControlOK
  <2>2. ~(r = serving[t] /\ q = phase[t])
    BY <1>0, <1>6, <2>1 DEF Return, After, Before, Phases, ControlOK
  <2>3. ~Entered(r, q)
    BY <1>0, <1>6, <2>2 DEF Return, Entered, InHook, ControlOK
  <2>4. progress[r] \in Before(q)
    BY <1>0, <1>6, <2>1 DEF Return, HookOK, Before, Phases, ControlOK, After
  <2> QED
    BY <1>1, <1>6, <2>3, <2>4 DEF Return, headerVars
<1>7. ASSUME UNCHANGED <<streamVars, headerVars, serving, phase>>,
             \A t \in Threads : InHook(t)' <=> InHook(t)
      PROVE  Untouched(r, q)'
  BY <1>1, <1>7 DEF streamVars, headerVars, Entered
<1>8. ASSUME NEW t \in Threads, Lock(t) PROVE Untouched(r, q)'
  BY <1>0, <1>7, <1>8 DEF Lock, InHook, ControlOK
<1>9. CASE UNCHANGED vars
  BY <1>7, <1>9 DEF vars, InHook
<1> QED
  BY <1>2, <1>3, <1>4, <1>5, <1>6, <1>8, <1>9
  DEF Next, RequestHeaders, ResponseHeaders, Ends, Phases

-----------------------------------------------------------------------------
(* IInv holds at every step of Envoy, of the hooks and of the scripts. *)
THEOREM Inductive == SafetySpec => []IInv
<1>1. IInv /\ [Next]_vars => IInv'
  BY TypeStep, HooksStep, CurrentStep, FreshStep, SpeltStep DEF IInv
<1> QED
  BY <1>1, InitIInv, PTL DEF SafetySpec

(* The variables of the filter keep their types, and no filter is without  *)
(* a virtual machine.                                                      *)
THEOREM TypeCorrect == SafetySpec => []TypeOK
<1>1. IInv => TypeOK
  BY DEF IInv
<1> QED
  BY <1>1, Inductive, PTL

(* Two threads never run scripts on one virtual machine. *)
THEOREM MachinesShared == SafetySpec => []ScriptsApart
<1>1. IInv => ScriptsApart
  BY DEF IInv, MutexOK, ScriptsApart
<1> QED
  BY <1>1, Inductive, PTL

(* A script reads by a name in lower case what Envoy has, unless it has    *)
(* set that header by another name; by a name with capital letters it      *)
(* reads what it has set by that name, and nothing that has arrived.       *)
THEOREM MirrorCurrent == SafetySpec => []ReadsCurrent
<1>1. ASSUME IInv, NEW t \in Threads, pc[t] = "script" PROVE SpeltOK(serving[t], phase[t])
  BY <1>1 DEF IInv, HookOK, InHook, TypeOK
<1>2. IInv => ReadsCurrent
  BY <1>1 DEF IInv, CurrentOK, SpeltOK, InHook, ReadsCurrent
<1> QED
  BY <1>2, Inductive, PTL
=============================================================================
