------------------------------ MODULE BodyChain ------------------------------
(***************************************************************************)
(* The zero_copy_regex_waf filter (rust/src/http_zero_copy_regex_waf.rs)   *)
(* behind the passthrough filter of BodyRewrite: it reads the body that    *)
(* the other one has taken out and put back, through a reader of its own   *)
(* over Envoy's buffer, and refuses the request if the regular expression  *)
(* matches. The filters run one after the other, on the stream's thread.   *)
(***************************************************************************)
EXTENDS BodyRewrite

CONSTANT Matches(_)   \* the answer of the regular expression to a body

VARIABLES
  waf,        \* where the body is in the filter
  vec_idx,    \* where the slice of BodyReader.vec_idx begins
  buf_idx,    \* BodyReader.buf_idx
  room,       \* buf.len() of the running read
  buf,        \* what the running read has copied: n bytes
  read        \* what read_matches has been given

bodyReaderVars == <<vec_idx, buf_idx, room, buf, read>>
wafVars == <<waf, bodyReaderVars>>
chainVars == <<vars, wafVars>>

(* Type correctness of the reader and of what it has read. *)
WafTypeOK ==
  /\ waf \in {"waiting", "reading", "copying", "unread", "continued", "refused", "panicked"}
  /\ vec_idx \in {0} \cup slices.ends
  /\ buf_idx \in 0..(IF vec_idx = Len(slices.bytes) THEN 0 ELSE End(slices, vec_idx) - vec_idx - 1)
  /\ room \in ReadSizes \cup {0} /\ Len(buf) <= room
  /\ buf \in Seq(Bytes) /\ read \in Seq(Bytes)

(* Type correctness of both filters. *)
ChainTypeOK == TypeOK /\ WafTypeOK

ChainInit ==
  /\ Init
  /\ waf = "waiting"
  /\ vec_idx = 0 /\ buf_idx = 0 /\ room = 0 /\ buf = << >> /\ read = << >>

-----------------------------------------------------------------------------
(* on_request_body, for what the passthrough filter lets go on: at the end *)
(* of the body it starts to read, or panics (expect) if it cannot get it.  *)
(* Without an end it asks for the body to be buffered, and the trailers,   *)
(* for which it has no hook, release it.                                   *)
on_request_body(end_of_stream) ==
  /\ waf' \in IF end_of_stream THEN {"reading", "panicked"} ELSE {"unread"}
  /\ UNCHANGED bodyReaderVars

Arriving ==
  /\ \/ \E bytes \in Frames, end_of_stream \in BOOLEAN : Frame(bytes, end_of_stream)
     \/ Reset
  /\ UNCHANGED wafVars

TrailersEnd == Trailers /\ on_request_body(FALSE)

PassthroughStep ==
  \/ Return /\ on_request_body(TRUE)
  \/ /\ Get \/ (\E size \in ReadSizes : Read(size)) \/ Drain \/ AppendBody
     /\ UNCHANGED wafVars

(* Ok(0) is the end for read_matches. The filter answers 403 and stops the *)
(* request, or continues.                                                  *)
Answer == waf' = IF Matches(read) THEN "refused" ELSE "continued"

(* The head of BodyReader::read. *)
ReadCall(size) ==
  /\ waf = "reading"
  /\ IF vec_idx = Len(slices.bytes)
     THEN Answer /\ UNCHANGED <<room, buf>>
     ELSE waf' = "copying" /\ room' = size /\ buf' = << >>
  /\ UNCHANGED <<vars, vec_idx, buf_idx, read>>

LoopGoesOn == Len(buf) < room /\ vec_idx < Len(slices.bytes)

(* Mutation of CopyLoop: a slice that has been copied from is left behind. *)
CopyLoopOnce ==
  LET to_copy == Min({End(slices, vec_idx) - vec_idx, room - Len(buf)})
  IN  /\ waf = "copying" /\ LoopGoesOn
      /\ buf' = buf \o SubSeq(slices.bytes, vec_idx + 1, vec_idx + to_copy)
      /\ vec_idx' = End(slices, vec_idx)
      /\ UNCHANGED <<vars, waf, buf_idx, room, read>>

(* One round of the loop of BodyReader::read. *)
CopyLoop ==
  LET here == vec_idx + buf_idx
      to_copy == Min({End(slices, vec_idx) - here, room - Len(buf)})
  IN  /\ waf = "copying" /\ LoopGoesOn
      /\ buf' = buf \o SubSeq(slices.bytes, here + 1, here + to_copy)
      /\ \/ /\ here + to_copy >= End(slices, vec_idx)
            /\ vec_idx' = End(slices, vec_idx) /\ buf_idx' = 0
         \/ /\ here + to_copy < End(slices, vec_idx)
            /\ buf_idx' = buf_idx + to_copy
            /\ UNCHANGED vec_idx
      /\ UNCHANGED <<vars, waf, room, read>>

(* Ok(n). *)
ReadReturn ==
  /\ waf = "copying" /\ ~LoopGoesOn
  /\ read' = read \o buf
  /\ IF buf = << >> THEN Answer ELSE waf' = "reading"
  /\ UNCHANGED <<vars, vec_idx, buf_idx, room, buf>>

-----------------------------------------------------------------------------
WafStep == (\E size \in ReadSizes : ReadCall(size)) \/ CopyLoop \/ ReadReturn

ChainNext == Arriving \/ TrailersEnd \/ PassthroughStep \/ WafStep

(* Both hooks run on the stream's thread until they return. *)
ChainFairness == WF_chainVars(PassthroughStep \/ WafStep)

ChainSpec == ChainInit /\ [][ChainNext]_chainVars /\ ChainFairness

-----------------------------------------------------------------------------
(* When the filter decides on a body, the regular expression has been      *)
(* given the body that Envoy has received, all of it and nothing else,     *)
(* although the filter before has emptied and filled the buffer, and       *)
(* although two readers have cut it up in different ways: BodyReader never *)
(* returns Ok(0) before the end. It decides on the bodies that their last  *)
(* frame ends; those that trailers end it never reads (MatchRefused).      *)
VerdictOnBody ==
  waf \in {"continued", "refused"} =>
     /\ read = sent
     /\ waf = "refused" <=> Matches(sent)

(* No body that matches the regular expression gets past the filter,       *)
(* however the body ends: this is what the filter's comment says. The code *)
(* lets go a body that trailers end.                                       *)
MatchRefused == waf \in {"continued", "unread"} => ~Matches(sent)

(* Both hooks return, one after the other: io.ReadAll and read_matches     *)
(* come to the end of every body.                                          *)
HooksReturn == pc # 0 \/ waf \in {"reading", "copying"} ~> pc = 0 /\ waf \notin {"reading", "copying"}
=============================================================================
