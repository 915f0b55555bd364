------------------------- MODULE FilterChainProofs -------------------------
(***************************************************************************)
(* Proofs about FilterChain, for any chains in which no filter occurs      *)
(* twice, any lists of values and any names of headers.                    *)
(***************************************************************************)
EXTENDS FilterChain, TLAPS

(* The request's headers, the response's headers, have come through f. *)
Passed(f) == \E i \in 1..Len(chain) : i < decode /\ chain[i] = f
Back(f) == \E i \in 1..Len(chain) : encode < i /\ chain[i] = f

(* What the filters have decided about the request. *)
RequestOK ==
  /\ reply \in {401, 403} => stopped
  /\ reply = 401 => auth = << >>
  /\ sendOnResponseHeaderPhase => auth # << >>
  /\ Passed("header_auth") =>
        auth # << >> /\ sendOnResponseHeaderPhase = (auth[1] = "on_response_headers")
  /\ Passed("header_mutation") => request \cap remove_request_headers = {}

(* How far the response is, and what the client has of it. *)
ClientOK ==
  /\ reply = 0 => client = 0
  /\ client = 0 => body = "none"
  /\ client \notin {0, 401} => encode = 0
  /\ client # 0 => encode = 0 \/ response = {}
  /\ body = "flowing" => encode = 0 /\ client = reply /\ ~ends

(* What the filters that the response has passed have done to it. *)
BackOK ==
  reply # 0 =>
     /\ Back("header_auth") => ~sendOnResponseHeaderPhase
     /\ Back("header_mutation") => response \cap remove_response_headers \subseteq AddedAfter

(* The histogram and the moments at which values are taken. *)
MetricsOK ==
  /\ start_time <=> Passed("metrics")
  /\ ~start_time => recorded = << >>
  /\ start_time => (route_name <=> recorded = << >>)
  /\ trailers # "seen" => recorded \in {<< >>, <<"end">>}
  /\ recorded \in {<< >>, <<"end">>, <<"trailers">>}
  /\ trailers # "seen" /\ recorded # << >> =>
        reply # 0 /\ Back("metrics") /\ (ends \/ body = "ended")
  /\ reply # 0 /\ start_time /\ Back("metrics") /\ ends => recorded # << >>
  /\ body = "ended" /\ client = reply /\ ~ends /\ start_time => recorded # << >>

IInv == TypeOK /\ RequestOK /\ ClientOK /\ BackOK /\ MetricsOK

-----------------------------------------------------------------------------
(* A chain is a sequence of filters, without repetitions. *)
LEMMA ChainOK ==
  ASSUME TypeOK
  PROVE  /\ Len(chain) \in Nat
         /\ DOMAIN chain = 1..Len(chain)
         /\ \A i \in 1..Len(chain) : chain[i] \in FilterNames
         /\ \A i, j \in 1..Len(chain) : chain[i] = chain[j] => i = j
BY ChainsAssumption DEF TypeOK

(* One filter further on the request's way. *)
LEMMA PassedNext ==
  ASSUME TypeOK, decode <= Len(chain), decode' = decode + 1, UNCHANGED chain, NEW f
  PROVE  Passed(f)' <=> Passed(f) \/ chain[decode] = f
BY ChainOK DEF TypeOK, Passed

LEMMA PassedSame ==
  ASSUME UNCHANGED <<chain, decode>>, NEW f
  PROVE  Passed(f)' <=> Passed(f)
BY DEF Passed

(* The filter that the request is at has not been passed. *)
LEMMA NotPassed ==
  ASSUME TypeOK, decode <= Len(chain)
  PROVE  ~Passed(chain[decode])
BY ChainOK DEF TypeOK, Passed

(* One filter further on the way back. *)
LEMMA BackNext ==
  ASSUME TypeOK, encode > 0, encode' = encode - 1, UNCHANGED chain, NEW f
  PROVE  Back(f)' <=> Back(f) \/ chain[encode] = f
BY ChainOK DEF TypeOK, Back

LEMMA BackSame ==
  ASSUME UNCHANGED <<chain, encode>>, NEW f
  PROVE  Back(f)' <=> Back(f)
BY DEF Back

(* A new response has not come through any filter. *)
LEMMA BackNew ==
  ASSUME TypeOK, encode' = Len(chain), UNCHANGED chain, NEW f
  PROVE  ~Back(f)'
BY ChainOK DEF TypeOK, Back

(* The position of a filter is where it is. *)
LEMMA PositionIs ==
  ASSUME TypeOK, NEW i \in 1..Len(chain)
  PROVE  InChain(chain[i]) /\ Position(chain[i]) = i
BY ChainOK DEF InChain, Position

LEMMA InChainAt ==
  ASSUME TypeOK, NEW f, InChain(f)
  PROVE  Position(f) \in 1..Len(chain) /\ chain[Position(f)] = f
BY ChainOK DEF InChain, Position

LEMMA AddedSame == ASSUME UNCHANGED chain PROVE AddedAfter' = AddedAfter
BY DEF AddedAfter, InChain, Position

-----------------------------------------------------------------------------
(* No filter has seen anything yet. *)
LEMMA InitIInv == Init => IInv
<1> SUFFICES ASSUME Init PROVE IInv
  OBVIOUS
<1>0. Len(chain) \in Nat
  BY ChainsAssumption DEF Init
<1>a. recorded \in Seq({"trailers", "end"}) /\ decode \in 1..Len(chain) + 1 /\ encode \in 0..Len(chain)
  BY <1>0 DEF Init
<1>1. TypeOK
  BY <1>a DEF Init, TypeOK, Statuses
<1>2. \A f : ~Passed(f)
  BY <1>1, ChainOK DEF Init, Passed
<1> QED
  BY <1>1, <1>2 DEF Init, IInv, RequestOK, ClientOK, BackOK, MetricsOK

(* A value taken at a moment leaves the histogram well-formed. *)
LEMMA RecordType ==
  ASSUME TypeOK, NEW m \in {"trailers", "end"}, record_latency(m)
  PROVE  /\ recorded' \in Seq({"trailers", "end"})
         /\ route_name' \in BOOLEAN /\ start_time' \in BOOLEAN
BY DEF TypeOK, record_latency

(* What a local reply sets has its type. *)
LEMMA LocalReplyType ==
  ASSUME TypeOK, NEW status \in Statuses, SendLocalReply(status)
  PROVE  /\ reply' \in Statuses /\ response' \subseteq Names
         /\ ends' \in BOOLEAN /\ address' \in BOOLEAN /\ encode' \in 0..Len(chain)
         /\ UNCHANGED <<client, body>>
<1>1. reply' = status /\ response' = {} /\ encode' = Len(chain) /\ UNCHANGED <<client, body>>
  BY DEF SendLocalReply, Respond, clientVars
<1>2. ends' \in BOOLEAN /\ address' \in BOOLEAN
  BY DEF SendLocalReply, Respond
<1>3. Len(chain) \in 0..Len(chain)
  BY ChainOK
<1> QED
  BY <1>1, <1>2, <1>3

(* Every variable keeps to its type. *)
LEMMA TypeStep == TypeOK /\ [Next]_vars => TypeOK'
<1> SUFFICES ASSUME TypeOK, [Next]_vars PROVE TypeOK'
  OBVIOUS
<1>0. Len(chain) \in Nat
  BY ChainOK
<1> USE <1>0, NamesAssumption DEF envoyReq, replyVars, clientVars, metricsVars
<1>1. CASE AuthRequest
  <2>1. CASE ~GetRequestHeader(auth).ok
    <3>1. /\ decode <= Len(chain) /\ stopped' = TRUE /\ SendLocalReply(401)
          /\ UNCHANGED <<envoyReq, request, decode, sendOnResponseHeaderPhase, metricsVars, panicked>>
      BY <1>1, <2>1 DEF AuthRequest, StopRequest, RequestAt
    <3>2. 401 \in Statuses
      BY DEF Statuses
    <3> QED
      BY <3>1, <3>2, LocalReplyType DEF TypeOK
  <2>2. CASE GetRequestHeader(auth).ok
    <3>1. /\ decode' = decode + 1 /\ decode <= Len(chain) /\ ~stopped
          /\ UNCHANGED <<envoyReq, request, stopped, replyVars, encode, clientVars, metricsVars, panicked>>
      BY <1>1, <2>2 DEF AuthRequest, ContinueRequest, RequestAt
    <3>2. sendOnResponseHeaderPhase' \in BOOLEAN
      BY <1>1, <2>2 DEF AuthRequest
    <3> QED
      BY <3>1, <3>2 DEF TypeOK
  <2> QED
    BY <2>1, <2>2
<1>2. CASE RandomRequest
  <2>1. /\ decode <= Len(chain)
        /\ UNCHANGED <<envoyReq, request, sendOnResponseHeaderPhase, metricsVars, panicked>>
    BY <1>2 DEF RandomRequest, RequestAt
  <2>2. CASE SendLocalReply(403) /\ StopRequest
    <3>1. 403 \in Statuses
      BY DEF Statuses
    <3> QED
      BY <2>1, <2>2, <3>1, LocalReplyType DEF TypeOK, StopRequest
  <2>3. CASE ContinueRequest /\ UNCHANGED <<replyVars, encode, clientVars>>
    <3>1. ~stopped
      BY <1>2 DEF RandomRequest, RequestAt
    <3> QED
      BY <2>1, <2>3, <3>1 DEF TypeOK, ContinueRequest
  <2> QED
    BY <1>2, <2>2, <2>3 DEF RandomRequest
<1>3. CASE MetricsRequest
  BY <1>3 DEF MetricsRequest, TypeOK, RequestAt, ContinueRequest
<1>4. CASE MutationRequest
  BY <1>4 DEF MutationRequest, TypeOK, RequestAt, ContinueRequest
<1>5. CASE PassthroughRequest
  BY <1>5 DEF PassthroughRequest, TypeOK, RequestAt, ContinueRequest
<1>6. CASE AuthResponse
  BY <1>6 DEF AuthResponse, TypeOK, Statuses, ResponseAt, ReplaceResponse
<1>7. CASE PassOn
  BY <1>7 DEF PassOn, TypeOK, ResponseAt
<1>8. CASE MetricsResponse
  <2>1. /\ recorded' \in Seq({"trailers", "end"})
        /\ route_name' \in BOOLEAN /\ start_time' \in BOOLEAN
    BY <1>8, RecordType DEF MetricsResponse, TypeOK
  <2> QED
    BY <1>8, <2>1 DEF MetricsResponse, TypeOK, ResponseAt
<1>9. CASE MutationResponse
  <2>1. CASE address
    BY <1>9, <2>1 DEF MutationResponse, TypeOK, ResponseAt
  <2>2. CASE ~address
    BY <1>9, <2>2 DEF MutationResponse, TypeOK
  <2> QED
    BY <2>1, <2>2
<1>10. CASE PassthroughResponse
  BY <1>10 DEF PassthroughResponse, TypeOK, ResponseAt
<1>11. CASE Deliver
  BY <1>11 DEF Deliver, TypeOK
<1>12. CASE Upstream
  <2>1. /\ reply' \in {200, 503} /\ response' \subseteq Names /\ encode' = Len(chain)
        /\ ends' \in BOOLEAN /\ address' \in BOOLEAN
    BY <1>12 DEF Upstream, Respond
  <2> QED
    BY <1>12, <2>1 DEF Upstream, TypeOK, Statuses
<1>13. CASE LastBody
  <2>1. /\ recorded' \in Seq({"trailers", "end"})
        /\ route_name' \in BOOLEAN /\ start_time' \in BOOLEAN
    BY <1>13, RecordType DEF LastBody, TypeOK
  <2> QED
    BY <1>13, <2>1 DEF LastBody, TypeOK
<1>14. CASE ResponseTrailers
  BY <1>14 DEF ResponseTrailers, TypeOK
<1>15. CASE RequestTrailers
  BY <1>15, RecordType DEF RequestTrailers, TypeOK
<1>16. CASE UNCHANGED vars
  BY <1>16 DEF vars, TypeOK
<1> QED
  BY <1>1, <1>2, <1>3, <1>4, <1>5, <1>6, <1>7, <1>8, <1>9, <1>10, <1>11, <1>12, <1>13, <1>14,
     <1>15, <1>16 DEF Next, Hooks

(* What the filters have decided stays decided. *)
LEMMA RequestStep == TypeOK /\ RequestOK /\ [Next]_vars => RequestOK'
<1> SUFFICES ASSUME TypeOK, RequestOK, [Next]_vars PROVE RequestOK'
  OBVIOUS
<1> USE DEF envoyReq, replyVars, clientVars, metricsVars, RequestOK
<1>a. CASE AuthRequest
  <2>1. decode <= Len(chain) /\ chain[decode] = "header_auth" /\ reply = 0 /\ UNCHANGED chain
    BY <1>a DEF AuthRequest, RequestAt
  <2>2. ~Passed("header_auth")
    BY <2>1, NotPassed
  <2>3. CASE ~GetRequestHeader(auth).ok
    <3>1. UNCHANGED <<decode, auth, request, sendOnResponseHeaderPhase>> /\ stopped' /\ auth = << >>
      BY <1>a, <2>3 DEF AuthRequest, StopRequest, GetRequestHeader
    <3> QED
      BY <2>1, <2>2, <3>1, PassedSame
  <2>4. CASE GetRequestHeader(auth).ok
    <3>1. /\ decode' = decode + 1 /\ UNCHANGED <<auth, request, reply>> /\ auth # << >>
          /\ sendOnResponseHeaderPhase' = (auth[1] = "on_response_headers")
      BY <1>a, <2>4 DEF AuthRequest, ContinueRequest, GetRequestHeader
    <3> QED
      BY <2>1, <3>1, PassedNext
  <2> QED
    BY <2>3, <2>4
<1>b. CASE RandomRequest \/ MetricsRequest \/ MutationRequest \/ PassthroughRequest
  <2>1. /\ decode <= Len(chain) /\ chain[decode] # "header_auth" /\ reply = 0
        /\ UNCHANGED <<chain, auth, sendOnResponseHeaderPhase>>
    BY <1>b DEF RandomRequest, MetricsRequest, MutationRequest, PassthroughRequest, RequestAt
  <2>2. CASE RandomRequest /\ SendLocalReply(403)
    <3>1. UNCHANGED <<decode, request>> /\ stopped' /\ reply' = 403
      BY <2>1, <2>2 DEF RandomRequest, StopRequest, SendLocalReply, Respond, ContinueRequest, TypeOK
    <3> QED
      BY <2>1, <3>1, PassedSame
  <2>3. CASE ~(RandomRequest /\ SendLocalReply(403))
    <3>1. decode' = decode + 1 /\ UNCHANGED reply
      BY <1>b, <2>3 DEF RandomRequest, MetricsRequest, MutationRequest, PassthroughRequest,
                        ContinueRequest
    <3>2. \A f : Passed(f)' <=> Passed(f) \/ chain[decode] = f
      BY <2>1, <3>1, PassedNext
    <3>3. CASE MutationRequest
      BY <2>1, <3>1, <3>2, <3>3 DEF MutationRequest
    <3>4. CASE ~MutationRequest
      <4>1. UNCHANGED request /\ chain[decode] # "header_mutation"
        BY <1>b, <3>4 DEF RandomRequest, MetricsRequest, PassthroughRequest, RequestAt
      <4> QED
        BY <2>1, <3>1, <3>2, <4>1
    <3> QED
      BY <3>3, <3>4
  <2> QED
    BY <2>2, <2>3
<1>c. CASE Upstream
  <2>1. UNCHANGED <<chain, decode, auth, request, sendOnResponseHeaderPhase>> /\ reply' \in {200, 503}
    BY <1>c DEF Upstream, Respond
  <2> QED
    BY <2>1, PassedSame
<1>d. CASE \/ AuthResponse \/ PassOn \/ MetricsResponse \/ MutationResponse \/ PassthroughResponse
           \/ Deliver \/ LastBody \/ ResponseTrailers \/ RequestTrailers \/ UNCHANGED vars
  <2>1. UNCHANGED <<chain, decode, stopped, auth, request, sendOnResponseHeaderPhase, reply>>
    BY <1>d DEF AuthResponse, PassOn, MetricsResponse, MutationResponse, PassthroughResponse,
                Deliver, LastBody, ResponseTrailers, RequestTrailers, vars, ReplaceResponse
  <2> QED
    BY <2>1, PassedSame
<1> QED
  BY <1>a, <1>b, <1>c, <1>d DEF Next, Hooks

(* The client gets a response once, from the end of the way back or in the *)
(* place of another one.                                                   *)
LEMMA ClientStep == TypeOK /\ ClientOK /\ [Next]_vars => ClientOK'
<1> SUFFICES ASSUME TypeOK, ClientOK, [Next]_vars PROVE ClientOK'
  OBVIOUS
<1> USE DEF envoyReq, replyVars, clientVars, metricsVars, ClientOK
<1>a. CASE AuthRequest \/ RandomRequest \/ MetricsRequest \/ MutationRequest \/ PassthroughRequest
  <2>1. reply = 0 /\ UNCHANGED <<client, body>>
    BY <1>a DEF AuthRequest, RandomRequest, MetricsRequest, MutationRequest, PassthroughRequest,
                RequestAt, SendLocalReply
  <2> QED
    BY <2>1
<1>b. CASE AuthResponse
  <2>1. reply # 0 /\ client = 0 /\ body = "none"
    BY <1>b DEF AuthResponse, ResponseAt
  <2>2. CASE ReplaceResponse(401)
    BY <2>1, <2>2 DEF ReplaceResponse
  <2>3. CASE UNCHANGED <<replyVars, clientVars>>
    BY <2>1, <2>3
  <2> QED
    BY <1>b, <2>2, <2>3 DEF AuthResponse
<1>c. CASE PassOn \/ MetricsResponse \/ MutationResponse \/ PassthroughResponse
  <2>1. reply # 0 /\ client = 0 /\ body = "none" /\ UNCHANGED <<reply, client, body>>
    BY <1>c DEF PassOn, MetricsResponse, MutationResponse, PassthroughResponse, ResponseAt
  <2> QED
    BY <2>1
<1>d. CASE Deliver
  BY <1>d DEF Deliver
<1>e. CASE Upstream
  <2>1. reply = 0 /\ reply' # 0 /\ UNCHANGED <<client, body>>
    BY <1>e DEF Upstream, Respond
  <2> QED
    BY <2>1
<1>f. CASE LastBody \/ ResponseTrailers
  BY <1>f DEF LastBody, ResponseTrailers
<1>g. CASE RequestTrailers \/ UNCHANGED vars
  BY <1>g DEF RequestTrailers, vars
<1> QED
  BY <1>a, <1>b, <1>c, <1>d, <1>e, <1>f, <1>g DEF Next, Hooks

(* A header that comes after header_mutation, from a filter in front of it. *)
LEMMA AddedInFront ==
  ASSUME TypeOK, encode > 0, chain[encode] = "passthrough", Back("header_mutation")
  PROVE  AddedAfter = {passthrough_header}
<1>1. encode \in 1..Len(chain)
  BY ChainOK DEF TypeOK
<1>2. PICK i \in 1..Len(chain) : encode < i /\ chain[i] = "header_mutation"
  BY DEF Back
<1>3. InChain("passthrough") /\ Position("passthrough") = encode
  BY <1>1, PositionIs
<1>4. Position("header_mutation") = i
  BY <1>2, PositionIs
<1> QED
  BY <1>2, <1>3, <1>4 DEF AddedAfter

(* The filters that the response passes do their part. *)
LEMMA BackStep == TypeOK /\ BackOK /\ [Next]_vars => BackOK'
<1> SUFFICES ASSUME TypeOK, BackOK, [Next]_vars PROVE BackOK'
  OBVIOUS
<1> USE DEF envoyReq, replyVars, clientVars, metricsVars
<1>a. CASE AuthRequest \/ RandomRequest \/ MetricsRequest \/ MutationRequest \/ PassthroughRequest
  <2>1. reply = 0 /\ UNCHANGED chain
    BY <1>a DEF AuthRequest, RandomRequest, MetricsRequest, MutationRequest, PassthroughRequest,
                RequestAt
  <2>2. UNCHANGED reply \/ encode' = Len(chain)
    BY <1>a DEF AuthRequest, RandomRequest, MetricsRequest, MutationRequest, PassthroughRequest,
                SendLocalReply, Respond
  <2> QED
    BY <2>1, <2>2, BackNew DEF BackOK
<1>b. CASE Upstream
  <2>1. encode' = Len(chain) /\ UNCHANGED chain
    BY <1>b DEF Upstream, Respond
  <2> QED
    BY <2>1, BackNew DEF BackOK
<1>c. CASE AuthResponse
  <2>1. /\ reply # 0 /\ encode > 0 /\ chain[encode] = "header_auth"
        /\ UNCHANGED <<chain, reply, sendOnResponseHeaderPhase>>
    BY <1>c DEF AuthResponse, ResponseAt, ReplaceResponse
  <2>2. CASE sendOnResponseHeaderPhase
    <3>1. response' = {} /\ UNCHANGED encode
      BY <1>c, <2>2 DEF AuthResponse, ReplaceResponse
    <3> QED
      BY <2>1, <3>1, BackSame DEF BackOK
  <2>3. CASE ~sendOnResponseHeaderPhase
    <3>1. encode' = encode - 1 /\ UNCHANGED response
      BY <1>c, <2>3 DEF AuthResponse
    <3> QED
      BY <2>1, <2>3, <3>1, BackNext, AddedSame DEF BackOK
  <2> QED
    BY <2>2, <2>3
<1>d. CASE PassOn \/ MetricsResponse
  <2>1. /\ reply # 0 /\ encode > 0 /\ encode' = encode - 1
        /\ chain[encode] \notin {"header_auth", "header_mutation"}
        /\ UNCHANGED <<chain, reply, response, sendOnResponseHeaderPhase>>
    BY <1>d DEF PassOn, MetricsResponse, ResponseAt
  <2> QED
    BY <2>1, BackNext, AddedSame DEF BackOK
<1>e. CASE MutationResponse
  <2>1. /\ reply # 0 /\ encode > 0 /\ chain[encode] = "header_mutation"
        /\ UNCHANGED <<chain, reply, sendOnResponseHeaderPhase>>
    BY <1>e DEF MutationResponse, ResponseAt
  <2>2. CASE address
    <3>1. encode' = encode - 1 /\ response' \cap remove_response_headers = {}
      BY <1>e, <2>2 DEF MutationResponse
    <3> QED
      BY <2>1, <3>1, BackNext DEF BackOK
  <2>3. CASE ~address
    <3>1. UNCHANGED <<encode, response>>
      BY <1>e, <2>3 DEF MutationResponse
    <3> QED
      BY <2>1, <3>1, BackSame, AddedSame DEF BackOK
  <2> QED
    BY <2>2, <2>3
<1>f. CASE PassthroughResponse
  <2>1. /\ reply # 0 /\ encode > 0 /\ chain[encode] = "passthrough" /\ encode' = encode - 1
        /\ response' = response \cup {passthrough_header}
        /\ UNCHANGED <<chain, reply, sendOnResponseHeaderPhase>>
    BY <1>f DEF PassthroughResponse, ResponseAt
  <2>2. (Back("header_auth")' => Back("header_auth")) /\ (Back("header_mutation")' => Back("header_mutation"))
    BY <2>1, BackNext
  <2>3. Back("header_mutation") => AddedAfter' = {passthrough_header}
    BY <2>1, AddedInFront, AddedSame
  <2> QED
    BY <2>1, <2>2, <2>3, AddedSame DEF BackOK
<1>g. CASE Deliver \/ LastBody \/ ResponseTrailers \/ RequestTrailers \/ UNCHANGED vars
  <2>1. UNCHANGED <<chain, encode, reply, response, sendOnResponseHeaderPhase>>
    BY <1>g DEF Deliver, LastBody, ResponseTrailers, RequestTrailers, vars
  <2> QED
    BY <2>1, BackSame, AddedSame DEF BackOK
<1> QED
  BY <1>a, <1>b, <1>c, <1>d, <1>e, <1>f, <1>g DEF Next, Hooks

(* What record_latency does: the first value stays the only one. *)
LEMMA RecordEffect ==
  ASSUME MetricsOK, NEW m, record_latency(m)
  PROVE  /\ UNCHANGED start_time
         /\ ~start_time => recorded' = << >>
         /\ start_time => ~route_name' /\ recorded' # << >>
         /\ start_time /\ recorded = << >> => recorded' = <<m>>
         /\ recorded # << >> => recorded' = recorded
<1>1. ~start_time => recorded = << >> /\ recorded' = << >>
  BY DEF record_latency, MetricsOK
<1>2. start_time /\ recorded = << >> => recorded' = <<m>> /\ ~route_name'
  <2> SUFFICES ASSUME start_time, recorded = << >> PROVE recorded' = <<m>> /\ ~route_name'
    OBVIOUS
  <2>1. route_name
    BY DEF MetricsOK
  <2>2. recorded' = Append(recorded, m) /\ ~route_name'
    BY <2>1 DEF record_latency
  <2> QED
    BY <2>2
<1>3. recorded # << >> => start_time /\ ~route_name /\ recorded' = recorded /\ ~route_name'
  BY DEF record_latency, MetricsOK
<1> QED
  BY <1>1, <1>2, <1>3 DEF record_latency

(* Values are taken once and not too early. *)
LEMMA MetricsStep == TypeOK /\ RequestOK /\ ClientOK /\ MetricsOK /\ [Next]_vars => MetricsOK'
<1> SUFFICES ASSUME TypeOK, RequestOK, ClientOK, MetricsOK, [Next]_vars PROVE MetricsOK'
  OBVIOUS
<1> USE DEF envoyReq, replyVars, clientVars
<1>a. CASE AuthRequest \/ RandomRequest \/ MutationRequest \/ PassthroughRequest
  <2>1. /\ reply = 0 /\ decode <= Len(chain) /\ chain[decode] # "metrics"
        /\ UNCHANGED <<chain, trailers, client, body, start_time, route_name, recorded>>
    BY <1>a DEF AuthRequest, RandomRequest, MutationRequest, PassthroughRequest, RequestAt,
                SendLocalReply, metricsVars
  <2>2. body = "none"
    BY <2>1 DEF ClientOK
  <2>3. decode' \in {decode, decode + 1}
    BY <1>a DEF AuthRequest, RandomRequest, MutationRequest, PassthroughRequest, ContinueRequest,
                StopRequest
  <2>4. Passed("metrics")' <=> Passed("metrics")
    BY <2>1, <2>3, PassedNext, PassedSame
  <2>5. UNCHANGED reply \/ encode' = Len(chain)
    BY <1>a DEF AuthRequest, RandomRequest, MutationRequest, PassthroughRequest,
                SendLocalReply, Respond
  <2>6. trailers # "seen" => recorded = << >>
    BY <2>1 DEF MetricsOK
  <2>7. reply' # 0 => ~Back("metrics")'
    BY <2>1, <2>5, BackNew
  <2> QED
    BY <2>1, <2>2, <2>4, <2>6, <2>7 DEF MetricsOK
<1>b. CASE MetricsRequest
  <2>1. /\ reply = 0 /\ decode <= Len(chain) /\ chain[decode] = "metrics" /\ decode' = decode + 1
        /\ start_time' /\ route_name' /\ UNCHANGED <<chain, trailers, reply, recorded, body>>
    BY <1>b DEF MetricsRequest, RequestAt, ContinueRequest
  <2>2. Passed("metrics")' /\ ~Passed("metrics")
    BY <2>1, PassedNext, NotPassed
  <2>3. recorded = << >> /\ body = "none"
    BY <2>1, <2>2 DEF MetricsOK, ClientOK
  <2> QED
    BY <2>1, <2>2, <2>3 DEF MetricsOK
<1>c. CASE Upstream
  <2>1. /\ reply = 0 /\ encode' = Len(chain)
        /\ UNCHANGED <<chain, trailers, decode, client, body, start_time, route_name, recorded>>
    BY <1>c DEF Upstream, Respond, metricsVars
  <2>2. body = "none" /\ (trailers # "seen" => recorded = << >>)
    BY <2>1 DEF ClientOK, MetricsOK
  <2> QED
    BY <2>1, <2>2, BackNew, PassedSame DEF MetricsOK
<1>d. CASE AuthResponse \/ PassOn \/ MutationResponse \/ PassthroughResponse
  <2>1. /\ reply # 0 /\ client = 0 /\ encode > 0 /\ chain[encode] # "metrics"
        /\ UNCHANGED <<chain, trailers, decode, reply, ends, start_time, route_name, recorded>>
    BY <1>d DEF AuthResponse, PassOn, MutationResponse, PassthroughResponse, ResponseAt,
                ReplaceResponse, metricsVars
  <2>2. encode' \in {encode, encode - 1}
    BY <1>d DEF AuthResponse, PassOn, MutationResponse, PassthroughResponse, ReplaceResponse
  <2>3. (Back("metrics")' <=> Back("metrics")) /\ (Passed("metrics")' <=> Passed("metrics"))
    BY <2>1, <2>2, BackNext, BackSame, PassedSame
  <2>4. body = "none"
    BY <2>1 DEF ClientOK
  <2>5. body' = "none" \/ (body' = "ended" /\ client' # reply)
    <3>1. CASE AuthResponse /\ sendOnResponseHeaderPhase
      <4>1. reply # 401
        BY <3>1 DEF RequestOK
      <4> QED
        BY <3>1, <4>1 DEF AuthResponse, ReplaceResponse
    <3>2. CASE ~(AuthResponse /\ sendOnResponseHeaderPhase)
      BY <1>d, <2>4, <3>2 DEF AuthResponse, PassOn, MutationResponse, PassthroughResponse
    <3> QED
      BY <3>1, <3>2
  <2> QED
    BY <2>1, <2>3, <2>4, <2>5 DEF MetricsOK
<1>e. CASE MetricsResponse
  <2>1. /\ reply # 0 /\ client = 0 /\ encode > 0 /\ chain[encode] = "metrics" /\ encode' = encode - 1
        /\ UNCHANGED <<chain, trailers, decode, reply, ends, client, body>>
    BY <1>e DEF MetricsResponse, ResponseAt
  <2>2. Back("metrics")' /\ (Passed("metrics")' <=> Passed("metrics"))
    BY <2>1, BackNext, PassedSame
  <2>3. body = "none"
    BY <2>1 DEF ClientOK
  <2>4. CASE ends
    <3>1. record_latency("end")
      BY <1>e, <2>4 DEF MetricsResponse
    <3> QED
      BY <2>1, <2>2, <2>3, <2>4, <3>1, RecordEffect DEF MetricsOK
  <2>5. CASE ~ends
    <3>1. UNCHANGED <<start_time, route_name, recorded>>
      BY <1>e, <2>5 DEF MetricsResponse, metricsVars
    <3> QED
      BY <2>1, <2>2, <2>3, <2>5, <3>1 DEF MetricsOK
  <2> QED
    BY <2>4, <2>5
<1>f. CASE Deliver
  <2>1. /\ body = "none" /\ body' = IF ends THEN "ended" ELSE "flowing"
        /\ UNCHANGED <<chain, trailers, decode, encode, reply, ends, start_time, route_name, recorded>>
    BY <1>f DEF Deliver, ClientOK, metricsVars
  <2> QED
    BY <2>1, BackSame, PassedSame DEF MetricsOK
<1>g. CASE LastBody
  <2>1. /\ encode = 0 /\ reply # 0 /\ ~ends /\ body' = "ended"
        /\ UNCHANGED <<chain, trailers, decode, encode, reply, ends, client>>
    BY <1>g DEF LastBody, ClientOK
  <2>2. (Back("metrics")' <=> Back("metrics")) /\ (Passed("metrics")' <=> Passed("metrics"))
    BY <2>1, BackSame, PassedSame
  <2>3. CASE InChain("metrics")
    <3>1. Back("metrics")
      BY <2>1, <2>3, InChainAt DEF Back
    <3>2. record_latency("end")
      BY <1>g, <2>3 DEF LastBody
    <3> QED
      BY <2>1, <2>2, <3>1, <3>2, RecordEffect DEF MetricsOK
  <2>4. CASE ~InChain("metrics")
    <3>1. ~Passed("metrics")
      BY <2>4, ChainOK DEF Passed, InChain
    <3>2. UNCHANGED <<start_time, route_name, recorded>>
      BY <1>g, <2>4 DEF LastBody, metricsVars
    <3> QED
      BY <2>1, <2>2, <3>1, <3>2 DEF MetricsOK
  <2> QED
    BY <2>3, <2>4
<1>h. CASE ResponseTrailers
  <2>1. /\ body' = "trailers" /\ body = "flowing"
        /\ UNCHANGED <<chain, trailers, decode, encode, reply, ends, start_time, route_name, recorded>>
    BY <1>h DEF ResponseTrailers, metricsVars
  <2> QED
    BY <2>1, BackSame, PassedSame DEF MetricsOK
<1>i. CASE RequestTrailers
  <2>1. trailers' = "seen" /\ UNCHANGED <<chain, decode, encode, reply, ends, client, body>>
    BY <1>i DEF RequestTrailers
  <2>2. (Back("metrics")' <=> Back("metrics")) /\ (Passed("metrics")' <=> Passed("metrics"))
    BY <2>1, BackSame, PassedSame
  <2>3. CASE InChain("metrics")
    <3>1. record_latency("trailers")
      BY <1>i, <2>3 DEF RequestTrailers
    <3> QED
      BY <2>1, <2>2, <3>1, RecordEffect DEF MetricsOK
  <2>4. CASE ~InChain("metrics")
    <3>1. UNCHANGED <<start_time, route_name, recorded>>
      BY <1>i, <2>4 DEF RequestTrailers, metricsVars
    <3> QED
      BY <2>1, <2>2, <3>1 DEF MetricsOK
  <2> QED
    BY <2>3, <2>4
<1>j. CASE UNCHANGED vars
  <2>1. UNCHANGED <<chain, trailers, decode, encode, reply, ends, client, body, start_time,
                    route_name, recorded>>
    BY <1>j DEF vars, metricsVars
  <2> QED
    BY <2>1, BackSame, PassedSame DEF MetricsOK
<1> QED
  BY <1>a, <1>b, <1>c, <1>d, <1>e, <1>f, <1>g, <1>h, <1>i, <1>j DEF Next, Hooks

-----------------------------------------------------------------------------
(* The inductive invariant holds at every step of every run. *)
THEOREM Inductive == Spec => []IInv
<1>1. IInv /\ [Next]_vars => IInv'
  BY TypeStep, RequestStep, ClientStep, BackStep, MetricsStep DEF IInv
<1> QED
  BY <1>1, InitIInv, PTL DEF Spec, SafetySpec

(* Types, and no request that is stopped beyond the chain. *)
THEOREM TypeCorrect == Spec => []TypeOK
<1>1. IInv => TypeOK
  BY DEF IInv
<1> QED
  BY <1>1, Inductive, PTL

(* A request that header_auth or random_auth has refused never reaches the *)
(* upstream, in any chain.                                                 *)
THEOREM RefusalsHold == Spec => []RefusedNotForwarded
<1>1. IInv => RefusedNotForwarded
  <2> SUFFICES ASSUME IInv, Forwarded
               PROVE  reply \notin {401, 403} /\ (InChain("header_auth") => auth # << >>)
    BY DEF RefusedNotForwarded
  <2>1. reply \notin {401, 403}
    BY ChainOK DEF IInv, TypeOK, RequestOK, Forwarded
  <2>2. ASSUME InChain("header_auth") PROVE auth # << >>
    <3>1. Passed("header_auth")
      BY <2>2, InChainAt, ChainOK DEF IInv, TypeOK, Forwarded, Passed
    <3> QED
      BY <3>1 DEF IInv, RequestOK
  <2> QED
    BY <2>1, <2>2
<1> QED
  BY <1>1, Inductive, PTL

(* A response that header_auth is to refuse never reaches the client, in   *)
(* any chain, be it from the upstream, from a filter behind header_auth or *)
(* from Envoy.                                                             *)
THEOREM ResponsesRefused == Spec => []ResponseRefused
<1>1. IInv => ResponseRefused
  <2> SUFFICES ASSUME IInv, InChain("header_auth"), decode > Position("header_auth"),
                      client \notin {0, 401}
               PROVE  auth[1] # "on_response_headers"
    BY DEF ResponseRefused
  <2>1. Position("header_auth") \in 1..Len(chain) /\ chain[Position("header_auth")] = "header_auth"
    BY InChainAt DEF IInv
  <2>2. Passed("header_auth")
    BY <2>1, ChainOK DEF IInv, TypeOK, Passed
  <2>3. reply # 0 /\ encode = 0
    BY DEF IInv, ClientOK
  <2>4. Back("header_auth")
    BY <2>1, <2>3, ChainOK DEF Back
  <2> QED
    BY <2>2, <2>3, <2>4 DEF IInv, RequestOK, BackOK
<1> QED
  BY <1>1, Inductive, PTL

(* The metrics filter records at most one latency of a stream. It does so  *)
(* at the end of every response that ends without trailers, and not before *)
(* it, unless the request has trailers.                                    *)
THEOREM RecordsAtEnd == Spec => []RecordedAtEnd
<1>1. IInv => RecordedAtEnd
  <2> SUFFICES ASSUME IInv PROVE RecordedAtEnd
    OBVIOUS
  <2>1. Len(recorded) <= 1
    <3>1. recorded \in {<< >>, <<"end">>, <<"trailers">>}
      BY DEF IInv, MetricsOK
    <3>2. Len(<< >>) = 0 /\ Len(<<"end">>) = 1 /\ Len(<<"trailers">>) = 1
      OBVIOUS
    <3>3. Len(recorded) \in {0, 1}
      BY <3>1, <3>2
    <3> QED
      BY <3>3
  <2>2. SeenBy("metrics") <=> Passed("metrics") /\ Back("metrics")
    <3>1. ASSUME Passed("metrics") \/ Back("metrics") PROVE InChain("metrics")
      BY <3>1, ChainOK DEF IInv, Passed, Back, InChain
    <3>2. ASSUME InChain("metrics")
          PROVE  /\ Position("metrics") \in 1..Len(chain)
                 /\ \A i \in 1..Len(chain) : chain[i] = "metrics" <=> i = Position("metrics")
      BY <3>2, InChainAt, ChainOK DEF IInv
    <3> QED
      BY <3>1, <3>2 DEF SeenBy, Passed, Back
  <2>3. ASSUME trailers # "seen", recorded # << >>
        PROVE  SeenBy("metrics") /\ (ends \/ body = "ended")
    BY <2>2, <2>3 DEF IInv, MetricsOK
  <2>4. ASSUME trailers # "seen", Complete, SeenBy("metrics"), body = "ended"
        PROVE  recorded = <<"end">>
    <3>1. reply # 0
      BY <2>4 DEF IInv, ClientOK, Complete
    <3> QED
      BY <2>2, <2>4, <3>1 DEF IInv, MetricsOK, Complete
  <2> QED
    BY <2>1, <2>3, <2>4 DEF RecordedAtEnd
<1> QED
  BY <1>1, Inductive, PTL

(* What header_mutation is to remove reaches neither side, wherever in the *)
(* chain it is and whatever headers it also sets.                          *)
THEOREM RemovedStaysAway == Spec => []RemovedGone
<1>1. IInv => RemovedGone
  <2> SUFFICES ASSUME IInv, InChain("header_mutation")
               PROVE  /\ Forwarded => request \cap remove_request_headers = {}
                      /\ client # 0 => response \cap remove_response_headers \subseteq AddedAfter
    BY DEF RemovedGone
  <2>1. /\ Position("header_mutation") \in 1..Len(chain)
        /\ chain[Position("header_mutation")] = "header_mutation"
    BY InChainAt DEF IInv
  <2>2. Forwarded => Passed("header_mutation")
    BY <2>1, ChainOK DEF IInv, TypeOK, Forwarded, Passed
  <2>3. encode = 0 => Back("header_mutation")
    BY <2>1, ChainOK DEF Back
  <2>4. client # 0 => reply # 0 /\ (encode = 0 \/ response = {})
    BY DEF IInv, ClientOK
  <2> QED
    BY <2>2, <2>3, <2>4 DEF IInv, RequestOK, BackOK
<1> QED
  BY <1>1, Inductive, PTL
=============================================================================
