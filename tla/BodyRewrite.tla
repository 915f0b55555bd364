----------------------------- MODULE BodyRewrite -----------------------------
(***************************************************************************)
(* The body hook of the passthrough filter (go/passthrough.go) on the body *)
(* access of the Go SDK (go/gosdk/abi.go). Envoy buffers the body until    *)
(* its end; the hook then reads it through a bodyReader, replaces it, puts *)
(* it back, and checks both by reading again. The request's hook and the   *)
(* response's are the same code; a stream's filter keeps no state, so one  *)
(* direction of one stream is modelled.                                    *)
(*                                                                         *)
(* Every call on the body may fail (return false): then nothing changes in *)
(* Envoy. The hook panics when the body cannot be got, and does not look   *)
(* at what draining and appending return.                                  *)
(*                                                                         *)
(* A buffer is its bytes and the places where its slices end. No slice is  *)
(* empty, so a slice is told by the place where it begins.                 *)
(***************************************************************************)
EXTENDS Naturals, Sequences, SequencesExt, FiniteSetsExt

CONSTANTS
  Frames,      \* what may arrive at once
  MaxFrames,   \* bound: frames of a body
  Hello,       \* the bytes of "hello world"
  ReadSizes    \* the room that io.ReadAll offers to a Read

Bytes == UNION {ToSet(f) : f \in Frames \cup {Hello}}

ASSUME SizesAssumption == ReadSizes \subseteq Nat \ {0} /\ MaxFrames \in Nat
ASSUME BytesAssumption == Frames \cup {Hello} \subseteq Seq(Bytes) /\ Hello # << >>

VARIABLES
  sent,       \* history: the bytes that Envoy has received
  frames,     \* their number of frames
  slices,     \* Envoy's buffer
  status,     \* what has become of the body
  next,       \* what the next filter has received
  pc,         \* the step of the hook, 0 when it does not run
  chunks,     \* bodyReader.chunks: the buffer as it was
  index,      \* where the slice of bodyReader.index begins
  offset,     \* bodyReader.offset
  out,        \* what io.ReadAll has collected
  original,   \* what the first io.ReadAll has returned
  valid,      \* history: the chunks still point into the buffer
  failed      \* history: a call on the body has returned false

readerVars == <<chunks, index, offset>>
envoyVars == <<sent, frames, status, next>>
vars == <<envoyVars, slices, pc, readerVars, out, original, valid, failed>>

(* Mutation of Steps: what is sent on is not read back. *)
StepsUnchecked == <<"get", "read", "drain", "append hello",
                    "get", "read", "drain", "append original", "return">>

(* Mutation of Steps: the modified body is read with the reader at hand. *)
StepsReaderKept == <<"get", "read", "drain", "append hello",
                     "read", "read", "drain", "append original",
                     "get", "read", "return">>

(* The calls of the hook, in order. *)
Steps == <<"get", "read", "drain", "append hello",
           "get", "read", "drain", "append original",
           "get", "read", "return">>

At(call) == pc > 0 /\ Steps[pc] = call

Empty == [bytes |-> << >>, ends |-> {}]

Buffers ==
  {b \in [bytes : Seq(Bytes), ends : SUBSET Nat] :
     /\ b.ends \subseteq 1..Len(b.bytes)
     /\ b.bytes # << >> => Len(b.bytes) \in b.ends}

(* The end of the slice that begins at from. *)
End(b, from) == Min({end \in b.ends : end > from})

TypeOK ==
  /\ sent \in Seq(Bytes) /\ next \in Seq(Bytes)
  /\ out \in Seq(Bytes) /\ original \in Seq(Bytes)
  /\ frames \in 0..MaxFrames
  /\ slices \in Buffers /\ chunks \in Buffers
  /\ status \in {"receiving", "forwarded", "reset", "panicked", "out_of_range"}
  /\ pc \in 0..Len(Steps)
  /\ index \in {0} \cup chunks.ends
  /\ offset \in 0..(IF index = Len(chunks.bytes) THEN 0 ELSE End(chunks, index) - index)
  /\ valid \in BOOLEAN /\ failed \in BOOLEAN

Init ==
  /\ sent = << >> /\ next = << >> /\ out = << >> /\ original = << >>
  /\ frames = 0 /\ slices = Empty /\ status = "receiving" /\ pc = 0
  /\ chunks = Empty /\ index = 0 /\ offset = 0 /\ valid = FALSE /\ failed = FALSE

-----------------------------------------------------------------------------
(* Envoy's buffer: what is added fills up the last slice, makes one or two *)
(* new ones, or both; slices that have been drained are given back.        *)
Added(bytes) ==
  LET old == Len(slices.bytes)
      new == old + Len(bytes)
  IN  IF bytes = << >> THEN {slices}
      ELSE {[bytes |-> slices.bytes \o bytes, ends |-> kept \cup {cut, new}] :
              kept \in {slices.ends, slices.ends \ {old}}, cut \in old + 1..new}

Drained(n) ==
  [bytes |-> SubSeq(slices.bytes, n + 1, Len(slices.bytes)),
   ends  |-> {end - n : end \in {e \in slices.ends : e > n}}]

Receiving == status = "receiving" /\ pc = 0

(* A frame arrives. Before the end the hook returns StopIterationAndBuffer; *)
(* with the last frame it starts on the whole body.                         *)
Frame(bytes, end_of_stream) ==
  /\ Receiving
  /\ frames < MaxFrames
  /\ frames' = frames + 1
  /\ sent' = sent \o bytes
  /\ slices' \in Added(bytes)
  /\ pc' = IF end_of_stream THEN 1 ELSE 0
  /\ UNCHANGED <<status, next, readerVars, out, original, valid, failed>>

Forward ==
  /\ status' = "forwarded"
  /\ next' = slices.bytes

(* With trailers the body has no last frame: it goes on as it is. *)
Trailers ==
  /\ Receiving
  /\ frames > 0
  /\ Forward
  /\ UNCHANGED <<sent, frames, slices, pc, readerVars, out, original, valid, failed>>

Reset ==
  /\ Receiving
  /\ status' = "reset"
  /\ UNCHANGED <<sent, frames, next, slices, pc, readerVars, out, original, valid, failed>>

-----------------------------------------------------------------------------
(* &bodyReader{chunks: chunks} *)
NewReader == chunks' = slices /\ index' = 0 /\ offset' = 0

(* GetRequestBody. Either of its two calls may fail: it returns nil and    *)
(* false, and the hook panics. It takes the address of the first of        *)
(* vectorSize chunks, also if there is none.                               *)
Get ==
  /\ At("get")
  /\ \/ /\ failed' = TRUE
        /\ status' = "panicked" /\ pc' = 0
        /\ UNCHANGED <<readerVars, out, valid>>
     \/ /\ slices = Empty
        /\ status' = "out_of_range" /\ pc' = 0
        /\ UNCHANGED <<readerVars, out, valid, failed>>
     \/ /\ slices # Empty
        /\ NewReader
        /\ out' = << >> /\ valid' = TRUE
        /\ pc' = pc + 1
        /\ UNCHANGED <<status, failed>>
  /\ UNCHANGED <<sent, frames, next, slices, original>>

(* What io.ReadAll has returned at the three places of the hook. *)
AsExpected == CASE pc = 2 -> TRUE [] pc = 6 -> out = Hello [] OTHER -> out = original

EOF ==
  /\ original' = IF pc = 2 THEN out ELSE original
  /\ IF AsExpected THEN pc' = pc + 1 /\ UNCHANGED status
                   ELSE pc' = 0 /\ status' = "panicked"
  /\ UNCHANGED out

(* n = copy(p, chunk[offset:]) *)
CopyFrom(i, o, room) ==
  LET n == Min({room, End(chunks, i) - i - o})
  IN  /\ out' = out \o SubSeq(chunks.bytes, i + o + 1, i + o + n)
      /\ index' = i
      /\ offset' = o + n
      /\ UNCHANGED <<status, pc, original>>

AtEnd == index = Len(chunks.bytes)

Exhausted == ~AtEnd /\ index + offset >= End(chunks, index)

(* Mutation of Read: the offset stays when the index moves on. *)
ReadOffsetKept(room) ==
  /\ At("read")
  /\ \/ ~AtEnd /\ ~Exhausted /\ CopyFrom(index, offset, room)
     \/ /\ Exhausted /\ End(chunks, index) < Len(chunks.bytes)
        /\ index' = End(chunks, index)
        /\ UNCHANGED <<offset, out, status, pc, original>>
     \/ /\ Exhausted /\ End(chunks, index) = Len(chunks.bytes)
        /\ index' = Len(chunks.bytes) /\ offset' = 0 /\ EOF
     \/ AtEnd /\ EOF /\ UNCHANGED <<index, offset>>
  /\ UNCHANGED <<sent, frames, next, slices, chunks, valid, failed>>

(* Mutation of Read: the offset is compared with > instead of >=. *)
ReadStuck(room) ==
  /\ At("read")
  /\ \/ ~AtEnd /\ CopyFrom(index, offset, room)
     \/ AtEnd /\ EOF /\ UNCHANGED <<index, offset>>
  /\ UNCHANGED <<sent, frames, next, slices, chunks, valid, failed>>

(* bodyReader.Read, called by io.ReadAll until it returns io.EOF. *)
Read(room) ==
  /\ At("read")
  /\ \/ ~AtEnd /\ ~Exhausted /\ CopyFrom(index, offset, room)
     \/ /\ Exhausted /\ End(chunks, index) < Len(chunks.bytes)
        /\ CopyFrom(End(chunks, index), 0, room)
     \/ /\ Exhausted /\ End(chunks, index) = Len(chunks.bytes)
        /\ index' = Len(chunks.bytes) /\ offset' = 0 /\ EOF
     \/ AtEnd /\ EOF /\ UNCHANGED <<index, offset>>
  /\ UNCHANGED <<sent, frames, next, slices, chunks, valid, failed>>

(* A call that changes the body, whose result the hook ignores. *)
Change(newSlices) ==
  /\ \/ slices' \in newSlices /\ valid' = FALSE /\ UNCHANGED failed
     \/ failed' = TRUE /\ UNCHANGED <<slices, valid>>
  /\ pc' = pc + 1
  /\ UNCHANGED <<envoyVars, readerVars, out, original>>

(* Mutation of Drain: one byte stays. *)
DrainShort == At("drain") /\ Change({Drained(Len(out) - 1)})

Drain == At("drain") /\ Change({Drained(Len(out))})

AppendBody ==
  \/ At("append hello") /\ Change(Added(Hello))
  \/ At("append original") /\ Change(Added(original))

Return ==
  /\ At("return")
  /\ Forward
  /\ pc' = 0
  /\ UNCHANGED <<sent, frames, slices, readerVars, out, original, valid, failed>>

-----------------------------------------------------------------------------
HookStep == Get \/ (\E room \in ReadSizes : Read(room)) \/ Drain \/ AppendBody \/ Return

Next ==
  \/ \E bytes \in Frames, end_of_stream \in BOOLEAN : Frame(bytes, end_of_stream)
  \/ Trailers
  \/ Reset
  \/ HookStep

(* The hook runs on its thread until it returns; Envoy owes nothing. *)
Fairness == WF_vars(HookStep)

SafetySpec == Init /\ [][Next]_vars
Spec == SafetySpec /\ Fairness

-----------------------------------------------------------------------------
(* What the next filter receives is the body that Envoy has received, byte *)
(* for byte, however it was cut into frames, slices and reads, and         *)
(* whichever of the calls that replace it and put it back have failed: the *)
(* hook ignores their results, but reads the body back before it goes on.  *)
BodyPreserved == status = "forwarded" => next = sent

(* The hook panics only for a reason. A check fails, or the body is not    *)
(* there, only when a call has failed before. The address of the first     *)
(* chunk is out of range only when the body has ended without a byte, for  *)
(* which the code has no guard, or when what was appended is not there.    *)
PanicsExplained ==
  /\ status = "panicked" => failed
  /\ status = "out_of_range" => failed \/ sent = << >>

(* A reader is used only while the body it was taken of is unchanged:      *)
(* draining and appending invalidate it.                                   *)
ReaderValid == At("read") => valid
=============================================================================
