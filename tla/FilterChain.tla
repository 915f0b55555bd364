---------------------------- MODULE FilterChain ----------------------------
(***************************************************************************)
(* Filters that work with the headers of a stream and keep no thread of    *)
(* their own, composed in a filter chain: the header_auth and passthrough  *)
(* filters of the Go module and the random_auth, metrics, header_mutation  *)
(* and passthrough filters of the Rust module. Of the Go passthrough       *)
(* filter this is the part on headers. Envoy takes the request through the *)
(* chain and the response back; a local reply, which a filter sends in a   *)
(* hook, starts back from the end of the chain, and one that is sent while *)
(* a response is on its way takes its place without going through filters. *)
(* Streams share no state of these filters: one stream is modelled.        *)
(***************************************************************************)
EXTENDS Naturals, Sequences

CONSTANTS
  Chains,                    \* the filter chains of the listeners
  AuthLists,                 \* what a request may have in its authentication header
  Names,                     \* names of headers that header_mutation handles
  passthrough_header,        \* x-passthrough-response-header
  request_headers,           \* those that it sets, and those that it removes
  remove_request_headers,
  response_headers,
  remove_response_headers

AuthValues == {"on_response_headers", "other"}

ASSUME AuthAssumption == AuthLists \subseteq Seq(AuthValues)

ASSUME NamesAssumption ==
  /\ passthrough_header \in Names
  /\ request_headers \subseteq Names /\ remove_request_headers \subseteq Names
  /\ response_headers \subseteq Names /\ remove_response_headers \subseteq Names

FilterNames ==
  {"header_auth", "random_auth", "metrics", "header_mutation", "passthrough", "rust_passthrough"}

ASSUME ChainsAssumption ==
  \A c \in Chains :
     /\ c \in Seq(FilterNames)
     /\ \A i, j \in DOMAIN c : c[i] = c[j] => i = j

VARIABLES
  chain,         \* the chain of the stream's listener
  auth,          \* the values of the request's authentication header
  request,       \* the names of Names that the request has
  trailers,      \* the trailers of the request
  decode,        \* the filter that the request's headers are at
  stopped,       \* a filter has stopped the request
  reply,         \* the status of the response on its way
  response,      \* the names of Names that it has
  ends,          \* its headers are the end of it
  address,       \* whether it came from a known upstream
  encode,        \* the filter that its headers are at, going back
  client,        \* the status that the client has received
  body,          \* the rest of the response, and what it has ended with
  sendOnResponseHeaderPhase,   \* header_auth
  start_time, route_name,      \* metrics
  recorded,      \* the values in the histogram of metrics, by their moment
  panicked       \* header_mutation has panicked

envoyReq == <<chain, auth, trailers>>
replyVars == <<reply, response, ends, address>>
clientVars == <<client, body>>
metricsVars == <<start_time, route_name, recorded>>
vars == <<envoyReq, request, decode, stopped, replyVars, encode, clientVars,
          sendOnResponseHeaderPhase, metricsVars, panicked>>

Statuses == {0, 200, 401, 403, 503}     \* 0 for none

(* Type correctness; a request is stopped only by a filter, not beyond. *)
TypeOK ==
  /\ chain \in Chains
  /\ auth \in AuthLists
  /\ request \subseteq Names /\ response \subseteq Names
  /\ trailers \in {"none", "pending", "seen"}
  /\ decode \in 1..Len(chain) + 1 /\ encode \in 0..Len(chain)
  /\ stopped \in BOOLEAN /\ (stopped => decode <= Len(chain))
  /\ reply \in Statuses /\ client \in Statuses
  /\ ends \in BOOLEAN /\ address \in BOOLEAN
  /\ body \in {"none", "flowing", "ended", "trailers"}
  /\ sendOnResponseHeaderPhase \in BOOLEAN
  /\ start_time \in BOOLEAN /\ route_name \in BOOLEAN
  /\ recorded \in Seq({"trailers", "end"})
  /\ panicked \in BOOLEAN

Init ==
  /\ chain \in Chains
  /\ auth \in AuthLists
  /\ request \in SUBSET Names
  /\ trailers \in {"none", "pending"}
  /\ decode = 1 /\ encode = 0 /\ stopped = FALSE
  /\ reply = 0 /\ response = {} /\ ends = FALSE /\ address = FALSE
  /\ client = 0 /\ body = "none"
  /\ sendOnResponseHeaderPhase = FALSE
  /\ start_time = FALSE /\ route_name = FALSE /\ recorded = << >>
  /\ panicked = FALSE

-----------------------------------------------------------------------------
(* The request's headers are at filter f; the response's headers are.      *)
RequestAt(f) == ~stopped /\ reply = 0 /\ decode <= Len(chain) /\ chain[decode] = f

ResponseAt(f) ==
  /\ reply # 0 /\ client = 0 /\ ~panicked
  /\ encode > 0
  /\ chain[encode] = f

ContinueRequest == decode' = decode + 1 /\ UNCHANGED stopped
StopRequest == stopped' = TRUE /\ UNCHANGED decode

Respond(status, names, endsWithHeaders, known) ==
  /\ reply' = status
  /\ response' = names
  /\ ends' = endsWithHeaders
  /\ address' = known
  /\ encode' = Len(chain)

(* send_response and SendLocalReply, with a body, in the hook for requests. *)
SendLocalReply(status) == Respond(status, {}, FALSE, FALSE) /\ UNCHANGED clientVars

(* The same in the hook for a response whose headers the client does not   *)
(* have yet.                                                               *)
ReplaceResponse(status) ==
  /\ client' = status
  /\ response' = {}
  /\ body' = "ended"
  /\ UNCHANGED <<reply, ends, address, encode>>

-----------------------------------------------------------------------------
(* The first value of a header, and whether there is one. *)
GetRequestHeader(values) ==
  [value |-> IF values = << >> THEN "" ELSE values[1], ok |-> values # << >>]

(* Mutation of AuthRequest: it does not look whether the header is there. *)
AuthRequestUnchecked ==
  /\ RequestAt("header_auth")
  /\ sendOnResponseHeaderPhase' = (GetRequestHeader(auth).value = "on_response_headers")
  /\ ContinueRequest
  /\ UNCHANGED <<envoyReq, request, replyVars, encode, clientVars, metricsVars, panicked>>

(* Mutation of AuthRequest: StopIteration without a local reply. *)
AuthRequestSilent ==
  /\ RequestAt("header_auth")
  /\ IF GetRequestHeader(auth).ok
     THEN /\ ContinueRequest
          /\ sendOnResponseHeaderPhase' = (GetRequestHeader(auth).value = "on_response_headers")
     ELSE StopRequest /\ UNCHANGED sendOnResponseHeaderPhase
  /\ UNCHANGED <<envoyReq, request, replyVars, encode, clientVars, metricsVars, panicked>>

(* header_auth, RequestHeaders. *)
AuthRequest ==
  /\ RequestAt("header_auth")
  /\ \/ /\ ~GetRequestHeader(auth).ok
        /\ SendLocalReply(401)
        /\ StopRequest
        /\ UNCHANGED sendOnResponseHeaderPhase
     \/ /\ GetRequestHeader(auth).ok
        /\ sendOnResponseHeaderPhase' = (GetRequestHeader(auth).value = "on_response_headers")
        /\ ContinueRequest
        /\ UNCHANGED <<replyVars, encode, clientVars>>
  /\ UNCHANGED <<envoyReq, request, metricsVars, panicked>>

(* Mutation of AuthResponse: the response of a local reply is let through. *)
AuthResponseUpstreamOnly ==
  /\ ResponseAt("header_auth")
  /\ IF sendOnResponseHeaderPhase /\ reply = 200
     THEN ReplaceResponse(401)
     ELSE encode' = encode - 1 /\ UNCHANGED <<replyVars, clientVars>>
  /\ UNCHANGED <<envoyReq, request, decode, stopped, sendOnResponseHeaderPhase, metricsVars, panicked>>

(* header_auth, ResponseHeaders, for any response that comes back. *)
AuthResponse ==
  /\ ResponseAt("header_auth")
  /\ IF sendOnResponseHeaderPhase
     THEN ReplaceResponse(401)
     ELSE encode' = encode - 1 /\ UNCHANGED <<replyVars, clientVars>>
  /\ UNCHANGED <<envoyReq, request, decode, stopped, sendOnResponseHeaderPhase, metricsVars, panicked>>

(* Mutation of RandomRequest: it goes on after the local reply. *)
RandomRequestPast ==
  /\ RequestAt("random_auth")
  /\ \/ SendLocalReply(403) /\ stopped' = TRUE /\ decode' = decode + 1
     \/ ContinueRequest /\ UNCHANGED <<replyVars, encode, clientVars>>
  /\ UNCHANGED <<envoyReq, request, sendOnResponseHeaderPhase, metricsVars, panicked>>

(* random_auth, on_request_headers. *)
RandomRequest ==
  /\ RequestAt("random_auth")
  /\ \/ SendLocalReply(403) /\ StopRequest
     \/ ContinueRequest /\ UNCHANGED <<replyVars, encode, clientVars>>
  /\ UNCHANGED <<envoyReq, request, sendOnResponseHeaderPhase, metricsVars, panicked>>

(* metrics, on_request_headers. *)
MetricsRequest ==
  /\ RequestAt("metrics")
  /\ start_time' = TRUE
  /\ route_name' = TRUE
  /\ ContinueRequest
  /\ UNCHANGED <<envoyReq, request, replyVars, encode, clientVars, sendOnResponseHeaderPhase,
                 recorded, panicked>>

(* Mutation of record_latency: the route's name is not taken. *)
record_latency_again(moment) ==
  /\ recorded' = IF start_time /\ route_name THEN Append(recorded, moment) ELSE recorded
  /\ UNCHANGED <<start_time, route_name>>

(* At most one value, since the route's name is taken with it. *)
record_latency(moment) ==
  /\ recorded' = IF start_time /\ route_name THEN Append(recorded, moment) ELSE recorded
  /\ route_name' = (route_name /\ ~start_time)
  /\ UNCHANGED start_time

(* Mutation of MetricsResponse: it does not wait for the end. *)
MetricsResponseEarly ==
  /\ ResponseAt("metrics")
  /\ encode' = encode - 1
  /\ record_latency("end")
  /\ UNCHANGED <<envoyReq, request, decode, stopped, replyVars, clientVars,
                 sendOnResponseHeaderPhase, panicked>>

(* metrics, on_response_headers. *)
MetricsResponse ==
  /\ ResponseAt("metrics")
  /\ encode' = encode - 1
  /\ IF ends THEN record_latency("end") ELSE UNCHANGED metricsVars
  /\ UNCHANGED <<envoyReq, request, decode, stopped, replyVars, clientVars,
                 sendOnResponseHeaderPhase, panicked>>

(* header_mutation, on_request_headers: it sets first, then removes. *)
MutationRequest ==
  /\ RequestAt("header_mutation")
  /\ request' = (request \cup request_headers) \ remove_request_headers
  /\ ContinueRequest
  /\ UNCHANGED <<envoyReq, replyVars, encode, clientVars, sendOnResponseHeaderPhase,
                 metricsVars, panicked>>

(* Mutation of MutationResponse: it removes first, then sets. *)
MutationResponseSetLast ==
  /\ ResponseAt("header_mutation")
  /\ IF address
     THEN /\ response' = (response \ remove_response_headers) \cup response_headers
          /\ encode' = encode - 1
          /\ UNCHANGED panicked
     ELSE panicked' = TRUE /\ UNCHANGED <<response, encode>>
  /\ UNCHANGED <<envoyReq, request, decode, stopped, reply, ends, address, clientVars,
                 sendOnResponseHeaderPhase, metricsVars>>

(* header_mutation, on_response_headers. It expects the address of the     *)
(* upstream; the headers for addresses and status that it sets first may   *)
(* be among response_headers.                                              *)
MutationResponse ==
  /\ ResponseAt("header_mutation")
  /\ IF address
     THEN /\ response' = (response \cup response_headers) \ remove_response_headers
          /\ encode' = encode - 1
          /\ UNCHANGED panicked
     ELSE panicked' = TRUE /\ UNCHANGED <<response, encode>>
  /\ UNCHANGED <<envoyReq, request, decode, stopped, reply, ends, address, clientVars,
                 sendOnResponseHeaderPhase, metricsVars>>

(* passthrough, RequestHeaders: it prints what it reads. The Rust filter   *)
(* of this name has no hook.                                               *)
PassthroughRequest ==
  /\ RequestAt("passthrough") \/ RequestAt("rust_passthrough")
  /\ ContinueRequest
  /\ UNCHANGED <<envoyReq, request, replyVars, encode, clientVars, sendOnResponseHeaderPhase,
                 metricsVars, panicked>>

(* passthrough, ResponseHeaders: the status, without which it would panic, *)
(* is there in every response.                                             *)
PassthroughResponse ==
  /\ ResponseAt("passthrough")
  /\ response' = response \cup {passthrough_header}
  /\ encode' = encode - 1
  /\ UNCHANGED <<envoyReq, request, decode, stopped, reply, ends, address, clientVars,
                 sendOnResponseHeaderPhase, metricsVars, panicked>>

-----------------------------------------------------------------------------
(* Envoy's side. A filter without a hook of its own continues. *)
PassOn ==
  /\ ResponseAt("random_auth") \/ ResponseAt("rust_passthrough")
  /\ encode' = encode - 1
  /\ UNCHANGED <<envoyReq, request, decode, stopped, replyVars, clientVars,
                 sendOnResponseHeaderPhase, metricsVars, panicked>>

Forwarded == decode > Len(chain)

(* The upstream answers, or Envoy does when it cannot reach one. *)
Upstream ==
  /\ Forwarded
  /\ reply = 0
  /\ \/ \E names \in SUBSET Names, e \in BOOLEAN : Respond(200, names, e, TRUE)
     \/ \E known \in BOOLEAN : Respond(503, {}, FALSE, known)
  /\ UNCHANGED <<envoyReq, request, decode, stopped, clientVars, sendOnResponseHeaderPhase,
                 metricsVars, panicked>>

(* The response's headers have come through the chain. *)
Deliver ==
  /\ reply # 0 /\ client = 0 /\ encode = 0
  /\ client' = reply
  /\ body' = IF ends THEN "ended" ELSE "flowing"
  /\ UNCHANGED <<envoyReq, request, decode, stopped, replyVars, encode,
                 sendOnResponseHeaderPhase, metricsVars, panicked>>

InChain(f) == \E i \in DOMAIN chain : chain[i] = f

(* The last part of the response's body: on_response_body of metrics. *)
LastBody ==
  /\ body = "flowing"
  /\ body' = "ended"
  /\ IF InChain("metrics") THEN record_latency("end") ELSE UNCHANGED metricsVars
  /\ UNCHANGED <<envoyReq, request, decode, stopped, replyVars, encode, client,
                 sendOnResponseHeaderPhase, panicked>>

(* Trailers end the response; metrics has no hook for these. *)
ResponseTrailers ==
  /\ body = "flowing"
  /\ reply = 200
  /\ body' = "trailers"
  /\ UNCHANGED <<envoyReq, request, decode, stopped, replyVars, encode, client,
                 sendOnResponseHeaderPhase, metricsVars, panicked>>

(* The trailers of the request: on_request_trailers of metrics. *)
RequestTrailers ==
  /\ trailers = "pending"
  /\ Forwarded /\ body \in {"none", "flowing"} /\ ~panicked
  /\ trailers' = "seen"
  /\ IF InChain("metrics") THEN record_latency("trailers") ELSE UNCHANGED metricsVars
  /\ UNCHANGED <<chain, auth, request, decode, stopped, replyVars, encode, clientVars,
                 sendOnResponseHeaderPhase, panicked>>

-----------------------------------------------------------------------------
Hooks == \/ AuthRequest \/ RandomRequest \/ MetricsRequest \/ MutationRequest
         \/ PassthroughRequest
         \/ AuthResponse \/ PassOn \/ MetricsResponse \/ MutationResponse
         \/ PassthroughResponse
         \/ Deliver

Next == Hooks \/ Upstream \/ LastBody \/ ResponseTrailers \/ RequestTrailers

(* Envoy takes headers through the chain as far as the filters let it. The *)
(* upstream owes nothing.                                                  *)
Fairness == WF_vars(Hooks)

SafetySpec == Init /\ [][Next]_vars
Spec == SafetySpec /\ Fairness

-----------------------------------------------------------------------------
(* What a filter has refused never gets to the upstream, wherever in the   *)
(* chain the filter is.                                                    *)
RefusedNotForwarded ==
  reply \in {401, 403} \/ (auth = << >> /\ InChain("header_auth")) => ~Forwarded

Position(f) == CHOOSE i \in DOMAIN chain : chain[i] = f

(* A request that asks header_auth for the refusal of its response, with   *)
(* the first value of the header, gets no other one once it has come past  *)
(* header_auth, whether the upstream answers, a filter that stands behind  *)
(* it, or Envoy.                                                           *)
ResponseRefused ==
  InChain("header_auth") /\ decode > Position("header_auth") /\ client \notin {0, 401}
     => auth[1] # "on_response_headers"

(* The filter has seen the headers of the request and of the response. *)
SeenBy(f) == InChain(f) /\ decode > Position(f) /\ encode < Position(f)

(* The client has all of the response that came through the chain: it was  *)
(* not replaced on its way.                                                *)
Complete == body \in {"ended", "trailers"} /\ client = reply

(* The histogram has at most one value for a stream, although three hooks  *)
(* record and trailers may come before or after the response's headers. A  *)
(* stream of whose request the filter has seen no trailers records nothing *)
(* before the end of the response, and records once the response has ended *)
(* with its headers or with a last part of its body, also that of a local  *)
(* reply, exactly if the filter has seen the request: one that another     *)
(* filter refused before it has no value. A response that ends with        *)
(* trailers is promised no value.                                          *)
RecordedAtEnd ==
  /\ Len(recorded) <= 1
  /\ trailers # "seen" =>
     /\ recorded # << >> => SeenBy("metrics") /\ (ends \/ body = "ended")
     /\ Complete /\ SeenBy("metrics") /\ body = "ended" => recorded = <<"end">>

(* What the metrics filter says of itself: "This records the latency of    *)
(* the request", of any request that has been answered.                    *)
LatencyOfRequest == Complete /\ SeenBy("metrics") => recorded = <<"end">>

(* What a filter adds to the response after header_mutation, which sees it *)
(* before the filters that stand in front of it.                           *)
AddedAfter ==
  IF InChain("passthrough") /\ Position("passthrough") < Position("header_mutation")
  THEN {passthrough_header} ELSE {}

(* A header that is to be removed reaches neither side, even if it is also *)
(* set, by header_mutation itself, by the upstream or by a filter that the *)
(* headers come through before.                                            *)
RemovedGone ==
  InChain("header_mutation") =>
     /\ Forwarded => request \cap remove_request_headers = {}
     /\ client # 0 => response \cap remove_response_headers \subseteq AddedAfter

(* Whoever stops a request answers it, unless header_mutation panics at the *)
(* answer, which no upstream gave.                                          *)
StoppedAnswered == stopped ~> client # 0 \/ panicked
=============================================================================
