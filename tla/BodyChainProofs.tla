--------------------------- MODULE BodyChainProofs ---------------------------
(***************************************************************************)
(* Proofs about BodyRewrite and BodyChain, for bodies of any number of     *)
(* frames of any size, cut into slices in any way, and reads of any size.  *)
(*                                                                         *)
(* Both loops read slice by slice, and the induction over the slices is    *)
(* one over the steps: what has been read is always the part of the body   *)
(* in front of the place that the reader has come to.                      *)
(***************************************************************************)
EXTENDS BodyChain, SequenceTheorems, NaturalsInduction, WellFoundedInduction, TLAPS

(* The reader of the passthrough filter reads the buffer as it is, and the *)
(* part in front of its place has been read.                               *)
ReaderOK ==
  /\ chunks = slices /\ valid
  /\ out = SubSeq(chunks.bytes, 1, index + offset)

(* What the buffer holds at each call of the hook, whatever has failed:    *)
(* what the last check of the hook has seen.                               *)
HookOK ==
  /\ pc # 0 => status = "receiving"
  /\ status = "receiving" /\ pc \in 0..3 => slices.bytes = sent
  /\ pc \in {2, 6, 10} => ReaderOK
  /\ pc > 1 => sent # << >>
  /\ pc > 2 => original = sent
  /\ pc = 3 => out = sent
  /\ pc = 7 => out = Hello /\ slices.bytes = Hello
  /\ pc = 11 => slices.bytes = sent

(* What the buffer holds after the calls whose result the hook ignores,    *)
(* while none of them has failed.                                          *)
Unfailed ==
  ~failed => /\ pc \in {4, 8} => slices = Empty
             /\ pc \in {5, 6} => slices.bytes = Hello
             /\ pc \in {9, 10} => slices.bytes = sent

HookInv == TypeOK /\ HookOK /\ Unfailed /\ BodyPreserved /\ PanicsExplained

-----------------------------------------------------------------------------
(* The place of every call in the hook. *)
LEMMA Calls ==
  ASSUME TypeOK
  PROVE  /\ At("get") <=> pc \in {1, 5, 9}
         /\ At("read") <=> pc \in {2, 6, 10}
         /\ At("drain") <=> pc \in {3, 7}
         /\ At("append hello") <=> pc = 4
         /\ At("append original") <=> pc = 8
         /\ At("return") <=> pc = 11
         /\ pc \in 0..11
<1>0. pc \in 0..11
  BY DEF TypeOK, Steps
<1>1. CASE pc = 0
  BY <1>0, <1>1 DEF At
<1>2. CASE pc > 0
  <2>1. /\ Steps[1] = "get" /\ Steps[2] = "read" /\ Steps[3] = "drain"
        /\ Steps[4] = "append hello" /\ Steps[5] = "get" /\ Steps[6] = "read"
        /\ Steps[7] = "drain" /\ Steps[8] = "append original" /\ Steps[9] = "get"
        /\ Steps[10] = "read" /\ Steps[11] = "return"
    BY DEF Steps
  <2>2. \/ pc = 1 \/ pc = 2 \/ pc = 3 \/ pc = 4 \/ pc = 5 \/ pc = 6 \/ pc = 7
        \/ pc = 8 \/ pc = 9 \/ pc = 10 \/ pc = 11
    BY <1>0, <1>2
  <2> QED
    BY <1>0, <1>2, <2>1, <2>2 DEF At
<1>3. pc = 0 \/ pc > 0
  BY <1>0
<1> QED
  BY <1>1, <1>2, <1>3

(* io.ReadAll offers room, and a slice has bytes left: Read copies the     *)
(* smaller number of them.                                                 *)
LEMMA MinPair ==
  ASSUME NEW m \in Nat, NEW n \in Nat
  PROVE  Min({m, n}) = IF m <= n THEN m ELSE n
BY DEF Min

(* What is read next, behind what has been read: the part in front of the  *)
(* place behind it.                                                        *)
LEMMA NextPart ==
  ASSUME NEW s \in Seq(Bytes), NEW m \in Nat, NEW n \in Nat, m + n <= Len(s)
  PROVE  /\ SubSeq(s, m + 1, m + n) \in Seq(Bytes)
         /\ Len(SubSeq(s, m + 1, m + n)) = n
         /\ SubSeq(s, 1, m + n) \in Seq(Bytes)
         /\ SubSeq(s, 1, m) \o SubSeq(s, m + 1, m + n) = SubSeq(s, 1, m + n)
<1>0. Len(s) \in Nat
  BY LenProperties
<1>1. \A k \in m + 1..m + n : s[k] \in Bytes
  BY <1>0, ElementOfSeq
<1>2. \A k \in 1..m + n : s[k] \in Bytes
  BY <1>0, ElementOfSeq
<1>3. /\ SubSeq(s, m + 1, m + n) \in Seq(Bytes)
      /\ Len(SubSeq(s, m + 1, m + n)) = IF m + 1 <= m + n THEN m + n - (m + 1) + 1 ELSE 0
  <2> DEFINE a == m + 1
             b == m + n
  <2>1. a \in Int /\ b \in Int /\ \A k \in a..b : s[k] \in Bytes
    BY <1>1
  <2> HIDE DEF a, b
  <2>2. SubSeq(s, a, b) \in Seq(Bytes) /\ Len(SubSeq(s, a, b)) = IF a <= b THEN b - a + 1 ELSE 0
    BY <2>1, SubSeqProperties
  <2> QED
    BY <2>2 DEF a, b
<1>4. (IF m + 1 <= m + n THEN m + n - (m + 1) + 1 ELSE 0) = n
  OBVIOUS
<1>5. SubSeq(s, 1, m + n) \in Seq(Bytes)
  BY <1>2, SubSeqProperties
<1>6. SubSeq(s, 1, m) \o SubSeq(s, m + 1, m + n) = SubSeq(s, 1, m + n)
  <2>1. 1 \in 1..Len(s) + 1 /\ m \in (1 - 1)..Len(s) /\ m + n \in m..Len(s)
    BY <1>0
  <2> QED
    BY <2>1, ConcatAdjacentSubSeq
<1> QED
  BY <1>3, <1>4, <1>5, <1>6

(* A set of numbers that is not empty has a least element. *)
LEMMA LeastElement ==
  ASSUME NEW S \in SUBSET Nat, S # {}
  PROVE  Min(S) \in S /\ \A n \in S : Min(S) <= n
<1>1. \E m \in S : \A n \in S : ~ (<<n, m>> \in OpToRel(<, Nat))
  BY NatLessThanWellFounded, WFMin
<1>2. PICK m \in S : \A n \in S : ~ (<<n, m>> \in OpToRel(<, Nat))
  BY <1>1
<1>3. \A n \in S : m <= n
  <2> SUFFICES ASSUME NEW n \in S PROVE m <= n
    OBVIOUS
  <2>1. <<n, m>> \in OpToRel(<, Nat) <=> n < m
    BY DEF OpToRel
  <2>2. ~ (n < m)
    BY <1>2, <2>1
  <2> QED
    BY <2>2
<1> QED
  BY <1>3 DEF Min

(* A reader that has not come to the end of the buffer is in a slice.      *)
LEMMA EndOf ==
  ASSUME NEW b \in Buffers, NEW from \in {0} \cup b.ends, from # Len(b.bytes)
  PROVE  /\ End(b, from) \in b.ends /\ End(b, from) \in Nat
         /\ from < End(b, from)
         /\ End(b, from) <= Len(b.bytes)
<1>1. /\ b.bytes \in Seq(Bytes) /\ Len(b.bytes) \in Nat
      /\ b.ends \subseteq 1..Len(b.bytes)
      /\ b.bytes # << >> => Len(b.bytes) \in b.ends
  BY LenProperties DEF Buffers
<1>2. from < Len(b.bytes) /\ from \in Nat
  BY <1>1
<1>3. b.bytes # << >>
  BY <1>2, Len(<< >>) = 0
<1> DEFINE S == {end \in b.ends : end > from}
<1>4. S \in SUBSET Nat /\ S # {}
  BY <1>1, <1>2, <1>3
<1>5. Min(S) \in S
  BY <1>4, LeastElement
<1>6. End(b, from) = Min(S)
  BY DEF End
<1> HIDE DEF S
<1>7. End(b, from) \in S
  BY <1>5, <1>6
<1> QED
  BY <1>1, <1>7 DEF S

(* What is added to Envoy's buffer is at its end, however it is cut.       *)
LEMMA AddedOK ==
  ASSUME slices \in Buffers, NEW bytes \in Seq(Bytes), NEW b \in Added(bytes)
  PROVE  b \in Buffers /\ b.bytes = slices.bytes \o bytes
<1> DEFINE old == Len(slices.bytes)
           new == old + Len(bytes)
<1>1. /\ slices.bytes \in Seq(Bytes) /\ old \in Nat /\ Len(bytes) \in Nat
      /\ slices.ends \subseteq 1..old
  BY LenProperties DEF Buffers
<1>2. CASE bytes = << >>
  BY <1>1, <1>2, ConcatEmptySeq DEF Added
<1>3. CASE bytes # << >>
  <2>1. PICK kept \in {slices.ends, slices.ends \ {old}}, cut \in old + 1..new :
           b = [bytes |-> slices.bytes \o bytes, ends |-> kept \cup {cut, new}]
    BY <1>3 DEF Added
  <2>2. b.bytes = slices.bytes \o bytes /\ b.ends = kept \cup {cut, new}
    BY <2>1
  <2>3. b.bytes \in Seq(Bytes) /\ Len(b.bytes) = new
    BY <1>1, <2>2, ConcatProperties
  <2>4. Len(bytes) > 0
    BY <1>1, <1>3, EmptySeq
  <2>5. new \in Nat /\ kept \subseteq 1..new /\ cut \in 1..new /\ new \in 1..new
    BY <1>1, <2>4
  <2>6. b.ends \subseteq 1..new
    BY <2>2, <2>5
  <2>7. b \in [bytes : Seq(Bytes), ends : SUBSET Nat]
    BY <2>1, <2>2, <2>3, <2>6
  <2> QED
    BY <2>2, <2>3, <2>6, <2>7 DEF Buffers
<1> QED
  BY <1>2, <1>3

(* Draining as much as the buffer holds empties it. *)
LEMMA DrainedAll ==
  ASSUME slices \in Buffers
  PROVE  Drained(Len(slices.bytes)) = Empty
<1>1. slices.bytes \in Seq(Bytes) /\ slices.ends \subseteq 1..Len(slices.bytes)
  BY DEF Buffers
<1>2. Len(slices.bytes) \in Nat
  BY <1>1, LenProperties
<1>3. SubSeq(slices.bytes, Len(slices.bytes) + 1, Len(slices.bytes)) = << >>
  BY <1>2, SubSeqEmpty
<1>4. {e \in slices.ends : e > Len(slices.bytes)} = {}
  BY <1>1, <1>2
<1> QED
  BY <1>3, <1>4 DEF Drained, Empty

(* A buffer without a byte has no slice. *)
LEMMA EmptyBuffer ==
  /\ Empty \in Buffers
  /\ \A b \in Buffers : b.bytes = << >> => b = Empty
<1>1. Empty \in Buffers
  BY EmptySeq DEF Empty, Buffers
<1>2. ASSUME NEW b \in Buffers, b.bytes = << >> PROVE b = Empty
  BY <1>2, EmptySeq DEF Empty, Buffers
<1> QED
  BY <1>1, <1>2

-----------------------------------------------------------------------------
(* Where the reader of the passthrough filter is, in numbers.              *)
LEMMA Place ==
  ASSUME TypeOK
  PROVE  /\ chunks.bytes \in Seq(Bytes) /\ Len(chunks.bytes) \in Nat
         /\ index \in 0..Len(chunks.bytes) /\ offset \in Nat
         /\ AtEnd => offset = 0
         /\ ~AtEnd => /\ End(chunks, index) \in chunks.ends
                      /\ End(chunks, index) \in index + 1..Len(chunks.bytes)
                      /\ index + offset <= End(chunks, index)
<1>1. /\ chunks \in Buffers
      /\ chunks.bytes \in Seq(Bytes) /\ chunks.ends \subseteq 1..Len(chunks.bytes)
  BY DEF TypeOK, Buffers
<1>2. Len(chunks.bytes) \in Nat
  BY <1>1, LenProperties
<1>3. index \in {0} \cup chunks.ends
  BY DEF TypeOK
<1>4. index \in 0..Len(chunks.bytes)
  BY <1>1, <1>2, <1>3
<1>0. offset \in 0..(IF AtEnd THEN 0 ELSE End(chunks, index) - index)
  BY DEF TypeOK, AtEnd
<1>5. CASE AtEnd
  <2>1. offset = 0
    BY <1>0, <1>5
  <2> QED
    BY <1>1, <1>2, <1>4, <1>5, <2>1
<1>6. CASE ~AtEnd
  <2>1. /\ End(chunks, index) \in chunks.ends /\ End(chunks, index) \in Nat
        /\ index < End(chunks, index) /\ End(chunks, index) <= Len(chunks.bytes)
    BY <1>1, <1>3, <1>6, EndOf DEF AtEnd
  <2>2. offset \in 0..(End(chunks, index) - index)
    BY <1>0, <1>6
  <2>3. /\ End(chunks, index) \in index + 1..Len(chunks.bytes)
        /\ offset \in Nat /\ index + offset <= End(chunks, index)
    BY <1>4, <2>1, <2>2
  <2> QED
    BY <1>1, <1>2, <1>4, <1>6, <2>1, <2>3
<1> QED
  BY <1>5, <1>6

(* What Read copies is the next part of the body, whether it goes on in    *)
(* the slice at hand or moves on to the next one.                          *)
LEMMA CopyStep ==
  ASSUME TypeOK, ReaderOK, NEW size \in ReadSizes,
         NEW i \in {0} \cup chunks.ends, i # Len(chunks.bytes),
         NEW o \in 0..(End(chunks, i) - i), i + o = index + offset,
         CopyFrom(i, o, size)
  PROVE  /\ index' = i /\ offset' \in o..(End(chunks, i) - i)
         /\ out' = SubSeq(chunks.bytes, 1, index' + offset') /\ out' \in Seq(Bytes)
<1> DEFINE e == End(chunks, i)
           n == Min({size, e - i - o})
           len == Len(chunks.bytes)
<1>1. /\ chunks \in Buffers /\ chunks.bytes \in Seq(Bytes) /\ len \in Nat
      /\ chunks.ends \subseteq 1..len
  BY Place DEF TypeOK, Buffers
<1>2. e \in Nat /\ i < e /\ e <= len /\ i \in Nat /\ o \in Nat /\ o <= e - i
  BY <1>1, EndOf
<1>3. size \in Nat /\ e - i - o \in Nat
  BY <1>2, SizesAssumption
<1>4. n = IF size <= e - i - o THEN size ELSE e - i - o
  BY <1>3, MinPair
<1>5. n \in Nat /\ n <= e - i - o
  BY <1>3, <1>4
<1>6. /\ out' = out \o SubSeq(chunks.bytes, i + o + 1, i + o + n)
      /\ index' = i /\ offset' = o + n
  BY DEF CopyFrom
<1> HIDE DEF e, n, len
<1>7. /\ i + o \in 0..len /\ i + o + n \in i + o..len
      /\ o + n \in o..(e - i) /\ index' + offset' = i + o + n
  BY <1>1, <1>2, <1>5, <1>6
<1>8. out = SubSeq(chunks.bytes, 1, i + o)
  BY DEF ReaderOK
<1>9. /\ SubSeq(chunks.bytes, 1, i + o) \o SubSeq(chunks.bytes, i + o + 1, i + o + n)
           = SubSeq(chunks.bytes, 1, i + o + n)
      /\ SubSeq(chunks.bytes, 1, i + o + n) \in Seq(Bytes)
  <2>1. i + o \in Nat /\ n \in Nat /\ i + o + n <= Len(chunks.bytes)
    BY <1>1, <1>2, <1>5, <1>7 DEF len
  <2> QED
    BY <1>1, <2>1, NextPart
<1> QED
  BY <1>6, <1>7, <1>8, <1>9 DEF e

(* When Read returns io.EOF, io.ReadAll has the whole body. *)
LEMMA AllRead ==
  ASSUME TypeOK, ReaderOK,
         AtEnd \/ (Exhausted /\ End(chunks, index) = Len(chunks.bytes))
  PROVE  out = chunks.bytes
<1>1. index + offset = Len(chunks.bytes)
  BY Place DEF Exhausted, AtEnd
<1>2. SubSeq(chunks.bytes, 1, Len(chunks.bytes)) = chunks.bytes
  BY Place, SubSeqFull
<1> QED
  BY <1>1, <1>2 DEF ReaderOK

-----------------------------------------------------------------------------
(* What a step that keeps to one part of the state knows of the others.    *)
LEMMA Types ==
  ASSUME TypeOK
  PROVE  /\ sent \in Seq(Bytes) /\ next \in Seq(Bytes)
         /\ out \in Seq(Bytes) /\ original \in Seq(Bytes)
         /\ frames \in 0..MaxFrames /\ slices \in Buffers
         /\ status \in {"receiving", "forwarded", "reset", "panicked", "out_of_range"}
         /\ valid \in BOOLEAN /\ failed \in BOOLEAN
         /\ pc \in 0..11 /\ slices.bytes \in Seq(Bytes)
BY DEF TypeOK, Steps, Buffers

(* The state after a change of the buffer or of Envoy's side, when the     *)
(* reader stays where it is.                                               *)
LEMMA TypeFrame ==
  ASSUME TypeOK, UNCHANGED readerVars,
         sent' \in Seq(Bytes), next' \in Seq(Bytes), frames' \in 0..MaxFrames,
         out' \in Seq(Bytes), original' \in Seq(Bytes), slices' \in Buffers,
         status' \in {"receiving", "forwarded", "reset", "panicked", "out_of_range"},
         pc' \in 0..11, valid' \in BOOLEAN, failed' \in BOOLEAN
  PROVE  TypeOK'
<1>1. Len(Steps) = 11
  BY DEF Steps
<1>2. chunks' = chunks /\ index' = index /\ offset' = offset
  BY DEF readerVars
<1>3. chunks' \in Buffers /\ index' \in {0} \cup chunks'.ends
  BY <1>2 DEF TypeOK
<1>4. offset' \in 0..(IF index' = Len(chunks'.bytes) THEN 0 ELSE End(chunks', index') - index')
  BY <1>2 DEF TypeOK
<1> QED
  BY <1>1, <1>3, <1>4 DEF TypeOK

(* While the body arrives, Envoy's buffer holds all of it. *)
LEMMA FrameStep ==
  ASSUME HookInv, NEW bytes \in Frames, NEW last \in BOOLEAN, Frame(bytes, last)
  PROVE  HookInv'
<1> USE DEF HookInv
<1>1. bytes \in Seq(Bytes) /\ MaxFrames \in Nat
  BY BytesAssumption, SizesAssumption
<1>2. /\ status = "receiving" /\ pc = 0
      /\ sent' = sent \o bytes /\ slices' \in Added(bytes) /\ pc' \in {0, 1}
      /\ frames' = frames + 1 /\ frames < MaxFrames
      /\ UNCHANGED <<status, next, readerVars, out, original>>
  BY DEF Frame, Receiving
<1>3. valid' = valid /\ failed' = failed
  BY Zenon DEF Frame
<1>4. slices \in Buffers /\ slices.bytes = sent /\ sent \in Seq(Bytes)
  BY <1>2, Types DEF HookOK
<1>5. slices' \in Buffers /\ slices'.bytes = sent' /\ sent' \in Seq(Bytes)
  BY <1>1, <1>2, <1>4, AddedOK, ConcatProperties
<1>6. TypeOK'
  <2>1. frames' \in 0..MaxFrames /\ pc' \in 0..11
    BY <1>1, <1>2, Types
  <2>2. valid' \in BOOLEAN /\ failed' \in BOOLEAN
    BY <1>3, Types, Zenon
  <2>3. /\ next' \in Seq(Bytes) /\ out' \in Seq(Bytes) /\ original' \in Seq(Bytes)
        /\ status' \in {"receiving", "forwarded", "reset", "panicked", "out_of_range"}
        /\ UNCHANGED readerVars
    BY <1>2, Types
  <2> QED
    BY <1>5, <2>1, <2>2, <2>3, TypeFrame
<1>7. HookOK' /\ Unfailed' /\ BodyPreserved' /\ PanicsExplained'
  BY <1>2, <1>5 DEF HookOK, Unfailed, BodyPreserved, PanicsExplained
<1> QED
  BY <1>6, <1>7

(* What is sent on is what has arrived, with trailers and without.         *)
LEMMA EndStep ==
  ASSUME HookInv, Trailers \/ Reset \/ Return
  PROVE  HookInv'
<1> USE DEF HookInv
<1>1. /\ pc' = 0 /\ status' \in {"forwarded", "reset"}
      /\ UNCHANGED <<sent, frames, slices, readerVars, out, original>>
  BY DEF Trailers, Reset, Return, Receiving, Forward
<1>2. valid' = valid /\ failed' = failed
  BY Zenon DEF Trailers, Reset, Return
<1>3. status' = "forwarded" => next' = slices.bytes /\ slices.bytes = sent
  <2>1. CASE Trailers
    BY <2>1 DEF HookOK, Trailers, Receiving, Forward
  <2>2. CASE Return
    <3>1. At("return") /\ next' = slices.bytes
      BY <2>2 DEF Return, Forward
    <3>2. pc = 11
      BY <3>1, Calls
    <3> QED
      BY <3>1, <3>2 DEF HookOK
  <2>3. CASE Reset
    BY <2>3 DEF Reset
  <2> QED
    BY <2>1, <2>2, <2>3
<1>4. TypeOK'
  <2>1. next' = next \/ next' = slices.bytes
    BY DEF Trailers, Reset, Return, Forward
  <2>2. next' \in Seq(Bytes)
    BY <2>1, Types
  <2>3. valid' \in BOOLEAN /\ failed' \in BOOLEAN
    BY <1>2, Types, Zenon
  <2>4. pc' \in 0..11
    BY <1>1
  <2>5. /\ sent' \in Seq(Bytes) /\ out' \in Seq(Bytes) /\ original' \in Seq(Bytes)
        /\ frames' \in 0..MaxFrames /\ slices' \in Buffers /\ UNCHANGED readerVars
    BY <1>1, Types
  <2> QED
    BY <1>1, <2>2, <2>3, <2>4, <2>5, TypeFrame
<1>5. HookOK'
  BY <1>1 DEF HookOK
<1>7. Unfailed'
  BY <1>1 DEF Unfailed
<1>8. PanicsExplained'
  BY <1>1 DEF PanicsExplained
<1>6. BodyPreserved'
  BY <1>1, <1>3 DEF BodyPreserved
<1> QED
  BY <1>4, <1>5, <1>6, <1>7, <1>8

(* A hook that panics leaves everything else as it was. *)
LEMMA PanicStep ==
  ASSUME HookInv, status' \in {"panicked", "out_of_range"}, pc' = 0,
         UNCHANGED <<readerVars, out, sent, frames, next, slices, original>>,
         valid' \in BOOLEAN, failed' \in BOOLEAN, PanicsExplained'
  PROVE  HookInv'
<1> USE DEF HookInv
<1>1. TypeOK'
  <2>1. /\ sent' \in Seq(Bytes) /\ next' \in Seq(Bytes) /\ frames' \in 0..MaxFrames
        /\ out' \in Seq(Bytes) /\ original' \in Seq(Bytes) /\ slices' \in Buffers
    BY Types
  <2>2. UNCHANGED readerVars
    BY Zenon
  <2>3. pc' \in 0..11
    BY pc' = 0
  <2> QED
    BY <2>1, <2>2, <2>3, TypeFrame
<1>2. HookOK' /\ Unfailed' /\ BodyPreserved'
  <2>1. pc' = 0 /\ status' # "receiving" /\ status' # "forwarded"
    OBVIOUS
  <2>2. HookOK'
    BY <2>1 DEF HookOK
  <2>3. Unfailed'
    BY <2>1 DEF Unfailed
  <2>4. BodyPreserved'
    BY <2>1 DEF BodyPreserved
  <2> QED
    BY <2>2, <2>3, <2>4
<1> QED
  BY <1>1, <1>2

(* Every read is by a reader of the buffer as it is now, from its start.   *)
LEMMA GetStep ==
  ASSUME HookInv, Get
  PROVE  HookInv'
<1> USE DEF HookInv
<1>1. pc \in {1, 5, 9} /\ status = "receiving" /\ slices \in Buffers
  <2>1. At("get")
    BY DEF Get
  <2>2. pc \in {1, 5, 9}
    BY <2>1, Calls
  <2>3. status = "receiving"
    BY <2>2 DEF HookOK
  <2> QED
    BY <2>2, <2>3, Types
<1>2. UNCHANGED <<sent, frames, next, slices, original>>
  BY DEF Get
<1>3. CASE /\ failed' = TRUE /\ status' = "panicked" /\ pc' = 0
           /\ UNCHANGED <<readerVars, out, valid>>
  <2>1. valid' \in BOOLEAN /\ failed' \in BOOLEAN
    BY <1>3, Types, Zenon
  <2>2. UNCHANGED <<readerVars, out, sent, frames, next, slices, original>>
    BY <1>2, <1>3
  <2>3. PanicsExplained'
    BY <1>3, Zenon DEF PanicsExplained
  <2> QED
    BY <1>3, <2>1, <2>2, <2>3, PanicStep
<1>4. CASE /\ slices = Empty /\ status' = "out_of_range" /\ pc' = 0
           /\ UNCHANGED <<readerVars, out, valid, failed>>
  <2>1. valid' = valid /\ failed' = failed
    BY <1>4, Zenon
  <2>2. UNCHANGED <<readerVars, out, sent, frames, next, slices, original>>
    BY <1>2, <1>4
  <2>3. slices.bytes = << >> /\ Hello # << >>
    BY <1>4, BytesAssumption DEF Empty
  <2>4. failed \/ sent = << >>
    <3>1. pc = 1 => slices.bytes = sent
      BY <1>1 DEF HookOK
    <3>2. pc = 5 => failed
      BY <2>3 DEF Unfailed
    <3>3. pc = 9 => failed \/ sent = << >>
      BY <2>3 DEF Unfailed
    <3> QED
      BY <1>1, <2>3, <3>1, <3>2, <3>3
  <2>5. valid' \in BOOLEAN /\ failed' \in BOOLEAN
    BY <2>1, Types, Zenon
  <2>6. PanicsExplained'
    <3>1. sent' = sent /\ status' = "out_of_range" /\ "out_of_range" # "panicked"
      BY <1>2, <1>4
    <3> QED
      BY <2>1, <2>4, <3>1, Zenon DEF PanicsExplained
  <2> QED
    BY <1>4, <2>2, <2>5, <2>6, PanicStep
<1>5. CASE /\ slices # Empty /\ NewReader /\ out' = << >> /\ valid' = TRUE
           /\ pc' = pc + 1 /\ UNCHANGED <<status, failed>>
  <2>1. /\ chunks' = slices /\ index' = 0 /\ offset' = 0
        /\ out' = << >> /\ pc' = pc + 1
        /\ UNCHANGED <<status, sent, frames, next, slices, original>>
    BY <1>2, <1>5 DEF NewReader
  <2>13. valid' = TRUE /\ failed' = failed
    BY <1>5, Zenon
  <2>2. slices.bytes # << >>
    BY <1>1, <1>5, EmptyBuffer
  <2>3. slices.bytes \in Seq(Bytes) /\ Len(slices.bytes) \in Nat \ {0}
    BY <1>1, <2>2, EmptySeq DEF Buffers
  <2>4. End(slices, 0) \in Nat
    BY <1>1, <2>3, EndOf
  <2>5. offset' \in 0..(IF index' = Len(chunks'.bytes) THEN 0 ELSE End(chunks', index') - index')
    <3>1. 0 \in 0..(End(slices, 0) - 0)
      BY <2>4
    <3>2. index' # Len(chunks'.bytes)
      BY <2>1, <2>3
    <3>3. End(chunks', index') - index' = End(slices, 0) - 0
      BY <2>1
    <3> QED
      BY <2>1, <3>1, <3>2, <3>3
  <2>6. /\ pc' \in {2, 6, 10} /\ (pc' = 2 => pc = 1) /\ (pc' = 6 => pc = 5) /\ (pc' = 10 => pc = 9)
        /\ pc' \in 0..Len(Steps)
    BY <1>1, <2>1 DEF Steps
  <2>7. out' \in Seq(Bytes) /\ index' \in {0} \cup chunks'.ends
    BY <2>1, EmptySeq
  <2>8. TypeOK'
    <3>1. valid' \in BOOLEAN /\ failed' \in BOOLEAN
      BY <2>13, Types, Zenon
    <3> QED
      BY <1>1, <2>1, <2>5, <2>6, <2>7, <3>1 DEF TypeOK
  <2>9. ReaderOK'
    <3>1. SubSeq(slices.bytes, 1, 0) = << >>
      BY SubSeqEmpty
    <3>2. index' + offset' = 0
      BY <2>1
    <3> QED
      BY <2>1, <2>13, <3>1, <3>2 DEF ReaderOK
  <2>10. sent # << >>
    BY <1>1, <2>2 DEF HookOK
  <2>11. HookOK'
    BY <1>1, <2>1, <2>6, <2>9, <2>10 DEF HookOK
  <2>12. Unfailed'
    BY <2>1, <2>6, <2>13 DEF Unfailed
  <2>14. BodyPreserved' /\ PanicsExplained'
    BY <1>1, <2>1 DEF BodyPreserved, PanicsExplained
  <2> QED
    BY <2>8, <2>11, <2>12, <2>14
<1> QED
  BY <1>3, <1>4, <1>5 DEF Get

(* What a Read does: it copies from the slice at hand or from the next     *)
(* one, which has a byte left, or it returns io.EOF at the end of the      *)
(* body.                                                                   *)
LEMMA ReadCases ==
  ASSUME HookInv, NEW size \in ReadSizes, Read(size)
  PROVE  \/ \E i \in {0} \cup chunks.ends :
              /\ i # Len(chunks.bytes)
              /\ \E o \in 0..(End(chunks, i) - i) :
                    i + o = index + offset /\ i + o < End(chunks, i) /\ CopyFrom(i, o, size)
         \/ /\ EOF /\ out = chunks.bytes
            /\ index' \in {0} \cup chunks.ends /\ index' = Len(chunks.bytes) /\ offset' = 0
<1> USE DEF HookInv
<1>1. /\ pc \in {2, 6, 10} /\ ReaderOK /\ status = "receiving"
      /\ UNCHANGED <<sent, frames, next, slices, chunks>>
  <2>1. At("read")
    BY DEF Read
  <2>2. pc \in {2, 6, 10}
    BY <2>1, Calls
  <2>3. ReaderOK /\ status = "receiving"
    BY <2>2 DEF HookOK
  <2>4. UNCHANGED <<sent, frames, next, slices, chunks>>
    BY DEF Read
  <2> QED
    BY <2>2, <2>3, <2>4
<1>2. /\ chunks \in Buffers /\ index \in {0} \cup chunks.ends
      /\ chunks.bytes \in Seq(Bytes) /\ Len(chunks.bytes) \in Nat
  BY Place DEF TypeOK
<1>3. \/ \E i \in {0} \cup chunks.ends :
           /\ i # Len(chunks.bytes)
           /\ \E o \in 0..(End(chunks, i) - i) :
                 i + o = index + offset /\ i + o < End(chunks, i) /\ CopyFrom(i, o, size)
      \/ /\ EOF /\ out = chunks.bytes
         /\ index' \in {0} \cup chunks.ends /\ index' = Len(chunks.bytes) /\ offset' = 0
  <2>1. CASE ~AtEnd /\ ~Exhausted /\ CopyFrom(index, offset, size)
    <3>1. index # Len(chunks.bytes)
      BY <2>1 DEF AtEnd
    <3>2. offset \in 0..(End(chunks, index) - index)
      BY <2>1, Place
    <3>3. index + offset < End(chunks, index)
      BY <2>1, Place DEF Exhausted
    <3> QED
      BY <1>2, <2>1, <3>1, <3>2, <3>3
  <2>2. CASE Exhausted /\ End(chunks, index) < Len(chunks.bytes) /\ CopyFrom(End(chunks, index), 0, size)
    <3>1. ~AtEnd /\ index + offset = End(chunks, index) + 0
      BY <2>2, Place DEF Exhausted
    <3>2. End(chunks, index) \in chunks.ends /\ End(chunks, index) # Len(chunks.bytes)
      BY <2>2, <3>1, Place
    <3>3. End(chunks, End(chunks, index)) \in Nat
          /\ End(chunks, index) < End(chunks, End(chunks, index))
      BY <1>2, <3>2, EndOf
    <3>4. /\ 0 \in 0..(End(chunks, End(chunks, index)) - End(chunks, index))
          /\ End(chunks, index) + 0 < End(chunks, End(chunks, index))
      BY <3>1, <3>3, Place
    <3> QED
      BY <2>2, <3>1, <3>2, <3>4
  <2>3. CASE /\ Exhausted /\ End(chunks, index) = Len(chunks.bytes)
             /\ index' = Len(chunks.bytes) /\ offset' = 0 /\ EOF
    <3>1. End(chunks, index) \in chunks.ends
      BY <2>3, Place DEF Exhausted
    <3>2. out = chunks.bytes
      BY <1>1, <2>3, AllRead
    <3> QED
      BY <2>3, <3>1, <3>2
  <2>4. CASE AtEnd /\ EOF /\ UNCHANGED <<index, offset>>
    <3>1. out = chunks.bytes
      BY <1>1, <2>4, AllRead
    <3>2. index = Len(chunks.bytes) /\ offset = 0
      BY <2>4, Place DEF AtEnd
    <3> QED
      BY <1>2, <2>4, <3>1, <3>2
  <2> QED
    BY <2>1, <2>2, <2>3, <2>4 DEF Read
<1> QED
  BY <1>3

(* One Read of io.ReadAll, and what the hook does with the whole.          *)
LEMMA ReadStep ==
  ASSUME HookInv, NEW size \in ReadSizes, Read(size)
  PROVE  HookInv'
<1> USE DEF HookInv
<1>1. /\ pc \in {2, 6, 10} /\ ReaderOK /\ status = "receiving"
      /\ UNCHANGED <<sent, frames, next, slices, chunks>>
  <2>1. At("read")
    BY DEF Read
  <2>2. pc \in {2, 6, 10}
    BY <2>1, Calls
  <2>3. ReaderOK /\ status = "receiving"
    BY <2>2 DEF HookOK
  <2>4. UNCHANGED <<sent, frames, next, slices, chunks>>
    BY DEF Read
  <2> QED
    BY <2>2, <2>3, <2>4
<1>6. valid' = valid /\ failed' = failed
  BY Zenon DEF Read
<1>2. /\ chunks \in Buffers /\ index \in {0} \cup chunks.ends
      /\ chunks.bytes \in Seq(Bytes) /\ Len(chunks.bytes) \in Nat
  BY Place DEF TypeOK
<1>3. \/ \E i \in {0} \cup chunks.ends :
           /\ i # Len(chunks.bytes)
           /\ \E o \in 0..(End(chunks, i) - i) : i + o = index + offset /\ CopyFrom(i, o, size)
      \/ /\ EOF /\ out = chunks.bytes
         /\ index' \in {0} \cup chunks.ends /\ index' = Len(chunks.bytes) /\ offset' = 0
  BY ReadCases
<1>4. CASE \E i \in {0} \cup chunks.ends :
             /\ i # Len(chunks.bytes)
             /\ \E o \in 0..(End(chunks, i) - i) : i + o = index + offset /\ CopyFrom(i, o, size)
  <2>0. PICK i \in {0} \cup chunks.ends :
           /\ i # Len(chunks.bytes)
           /\ \E o \in 0..(End(chunks, i) - i) : i + o = index + offset /\ CopyFrom(i, o, size)
    BY <1>4
  <2>1. PICK o \in 0..(End(chunks, i) - i) : i + o = index + offset /\ CopyFrom(i, o, size)
    BY <2>0
  <2>2. /\ index' = i /\ offset' \in o..(End(chunks, i) - i)
        /\ out' = SubSeq(chunks.bytes, 1, index' + offset') /\ out' \in Seq(Bytes)
    BY <1>1, <2>0, <2>1, CopyStep
  <2>3. UNCHANGED <<status, pc, original>>
    BY <2>1 DEF CopyFrom
  <2>4. End(chunks, i) \in Nat /\ i \in Nat
    BY <1>2, <2>0, EndOf DEF Buffers
  <2>5. offset' \in 0..(IF index' = Len(chunks'.bytes) THEN 0 ELSE End(chunks', index') - index')
    <3>1. offset' \in 0..(End(chunks, i) - i)
      BY <2>1, <2>2, <2>4
    <3> QED
      BY <1>1, <2>0, <2>2, <3>1
  <2>6. TypeOK'
    <3>1. valid' \in BOOLEAN /\ failed' \in BOOLEAN
      BY <1>6, Types, Zenon
    <3> QED
      BY <1>1, <2>0, <2>2, <2>3, <2>5, <3>1 DEF TypeOK
  <2>7. ReaderOK'
    <3>1. valid'
      BY <1>1, <1>6, Zenon DEF ReaderOK
    <3>2. chunks' = slices'
      BY <1>1 DEF ReaderOK
    <3> QED
      BY <1>1, <2>2, <3>1, <3>2 DEF ReaderOK
  <2>8. HookOK'
    BY <1>1, <2>3, <2>7 DEF HookOK
  <2>9. Unfailed'
    BY <1>1, <1>6, <2>3 DEF Unfailed
  <2>10. BodyPreserved' /\ PanicsExplained'
    BY <1>1, <2>3 DEF BodyPreserved, PanicsExplained
  <2> QED
    BY <2>6, <2>8, <2>9, <2>10
<1>5. CASE /\ EOF /\ out = chunks.bytes
           /\ index' \in {0} \cup chunks.ends /\ index' = Len(chunks.bytes) /\ offset' = 0
  <2>1. out = slices.bytes /\ (pc = 2 => out = sent) /\ (pc = 10 => original = sent)
    BY <1>1, <1>5 DEF HookOK, ReaderOK
  <2>2. /\ original' \in Seq(Bytes) /\ out' = out
        /\ original' = IF pc = 2 THEN out ELSE original
    BY <1>5, Types DEF EOF
  <2>3. offset' \in 0..(IF index' = Len(chunks'.bytes) THEN 0 ELSE End(chunks', index') - index')
    BY <1>1, <1>5
  <2>4. valid' \in BOOLEAN /\ failed' \in BOOLEAN
    BY <1>6, Types, Zenon
  <2>5. CASE AsExpected
    <3>1. /\ pc' = pc + 1 /\ UNCHANGED status
          /\ pc = 6 => out = Hello
          /\ pc = 10 => out = original
      BY <1>1, <1>5, <2>5 DEF EOF, AsExpected
    <3>2. /\ pc' \in {3, 7, 11} /\ (pc' = 3 <=> pc = 2) /\ (pc' = 7 <=> pc = 6)
          /\ (pc' = 11 <=> pc = 10) /\ pc' \in 0..Len(Steps)
      BY <1>1, <3>1 DEF Steps
    <3>3. TypeOK'
      BY <1>1, <1>5, <2>2, <2>3, <2>4, <3>1, <3>2 DEF TypeOK
    <3>4. sent' # << >> /\ original' = sent
      BY <1>1, <2>1, <2>2 DEF HookOK
    <3>5. (pc' = 3 => slices.bytes = sent) /\ (pc' = 7 => slices.bytes = Hello) /\ (pc' = 11 => slices.bytes = sent)
      BY <2>1, <3>1, <3>2
    <3>6. HookOK'
      BY <1>1, <2>1, <2>2, <3>1, <3>2, <3>4, <3>5 DEF HookOK
    <3>7. Unfailed'
      BY <3>2 DEF Unfailed
    <3>8. BodyPreserved' /\ PanicsExplained'
      BY <1>1, <3>1 DEF BodyPreserved, PanicsExplained
    <3> QED
      BY <3>3, <3>6, <3>7, <3>8
  <2>6. CASE ~AsExpected
    <3>1. pc' = 0 /\ status' = "panicked"
      BY <1>5, <2>6 DEF EOF
    <3>2. failed
      <4>1. pc # 2
        BY <2>6 DEF AsExpected
      <4>2. CASE pc = 6
        BY <2>1, <2>6, <4>2 DEF Unfailed, AsExpected
      <4>3. CASE pc = 10
        BY <2>1, <2>6, <4>3 DEF Unfailed, AsExpected
      <4> QED
        BY <1>1, <4>1, <4>2, <4>3
    <3>3. TypeOK'
      <4>1. pc' \in 0..Len(Steps)
        BY <3>1 DEF Steps
      <4> QED
        BY <1>1, <1>5, <2>2, <2>3, <2>4, <3>1, <4>1 DEF TypeOK
    <3>4. HookOK' /\ Unfailed' /\ BodyPreserved'
      BY <3>1 DEF HookOK, Unfailed, BodyPreserved
    <3>5. failed'
      BY <1>6, <3>2, Zenon
    <3>6. PanicsExplained'
      BY <3>1, <3>5, Zenon DEF PanicsExplained
    <3> QED
      BY <3>3, <3>4, <3>6
  <2> QED
    BY <2>5, <2>6
<1> QED
  BY <1>3, <1>4, <1>5

(* What a call that changes the body does, done or failed.                 *)
LEMMA ChangeStep ==
  ASSUME HookInv, NEW newSlices, Change(newSlices),
         pc \in {3, 4, 7, 8}, \A b \in newSlices : b \in Buffers,
         ~failed => \A b \in newSlices :
           /\ pc \in {3, 7} => b = Empty
           /\ pc = 4 => b.bytes = Hello
           /\ pc = 8 => b.bytes = sent
  PROVE  HookInv'
<1> USE DEF HookInv
<1>1. /\ pc' = pc + 1 /\ UNCHANGED <<sent, frames, status, next, readerVars, out, original>>
      /\ slices' \in newSlices \/ slices' = slices
  BY DEF Change, envoyVars
<1>2. \/ slices' \in newSlices /\ valid' = FALSE /\ failed' = failed
      \/ failed' = TRUE /\ valid' = valid
  BY Zenon DEF Change
<1>3. valid' \in BOOLEAN /\ failed' \in BOOLEAN
  BY <1>2, Types, Zenon
<1>4. status = "receiving" /\ sent # << >> /\ original = sent
  BY DEF HookOK
<1>5. pc' \in {4, 5, 8, 9} /\ pc' \in 0..11
  BY <1>1
<1>6. TypeOK'
  <2>1. slices' \in Buffers
    BY <1>1, Types
  <2>2. /\ sent' \in Seq(Bytes) /\ next' \in Seq(Bytes) /\ frames' \in 0..MaxFrames
        /\ out' \in Seq(Bytes) /\ original' \in Seq(Bytes) /\ UNCHANGED readerVars
        /\ status' \in {"receiving", "forwarded", "reset", "panicked", "out_of_range"}
    BY <1>1, Types
  <2> QED
    BY <1>3, <1>5, <2>1, <2>2, TypeFrame
<1>7. HookOK'
  BY <1>1, <1>4, <1>5 DEF HookOK
<1>8. Unfailed'
  <2>1. CASE failed' = TRUE
    BY <2>1 DEF Unfailed
  <2>2. CASE slices' \in newSlices /\ failed' = failed
    <3>1. SUFFICES ASSUME ~failed' PROVE Unfailed'
      BY DEF Unfailed
    <3>2. ~failed
      BY <2>2, <3>1, Zenon
    <3>3. \A b \in newSlices :
             /\ pc \in {3, 7} => b = Empty
             /\ pc = 4 => b.bytes = Hello
             /\ pc = 8 => b.bytes = sent
      BY <3>2, Zenon
    <3>4. /\ pc \in {3, 7} => slices' = Empty
          /\ pc = 4 => slices'.bytes = Hello
          /\ pc = 8 => slices'.bytes = sent
      BY <2>2, <3>3
    <3>5. /\ pc' \in {4, 8} => slices' = Empty
          /\ pc' \in {5, 6} => slices'.bytes = Hello
          /\ pc' \in {9, 10} => slices'.bytes = sent'
      BY <1>1, <3>4
    <3> QED
      BY <3>5 DEF Unfailed
  <2> QED
    BY <1>2, <2>1, <2>2, Zenon
<1>9. BodyPreserved' /\ PanicsExplained'
  BY <1>1, <1>4 DEF BodyPreserved, PanicsExplained
<1> QED
  BY <1>6, <1>7, <1>8, <1>9

(* Draining takes all that has been read, and the buffer holds no more.    *)
LEMMA DrainStep ==
  ASSUME HookInv, Drain
  PROVE  HookInv'
<1> USE DEF HookInv
<1>1. pc \in {3, 7} /\ slices \in Buffers
  <2>1. At("drain")
    BY DEF Drain
  <2> QED
    BY <2>1, Calls, Types
<1>2. out = slices.bytes
  BY <1>1 DEF HookOK
<1>3. Drained(Len(out)) = Empty /\ Empty \in Buffers
  BY <1>1, <1>2, DrainedAll, EmptyBuffer
<1>4. Change({Empty})
  BY <1>3 DEF Drain
<1> QED
  BY <1>1, <1>3, <1>4, ChangeStep

(* What is appended to the empty buffer is all that is in it.              *)
LEMMA AppendStep ==
  ASSUME HookInv, AppendBody
  PROVE  HookInv'
<1> USE DEF HookInv
<1>1. PICK bytes \in {Hello, original} :
         Change(Added(bytes)) /\ <<bytes, pc>> \in {<<Hello, 4>>, <<original, 8>>}
  <2>1. CASE At("append hello") /\ Change(Added(Hello))
    <3>1. pc = 4
      BY <2>1, Calls
    <3> QED
      BY <2>1, <3>1
  <2>2. CASE At("append original") /\ Change(Added(original))
    <3>1. pc = 8
      BY <2>2, Calls
    <3> QED
      BY <2>2, <3>1
  <2> QED
    BY <2>1, <2>2 DEF AppendBody
<1>2. /\ pc \in {4, 8} /\ bytes \in Seq(Bytes) /\ slices \in Buffers
      /\ (pc = 4 => bytes = Hello) /\ (pc = 8 => bytes = sent)
  <2>1. pc \in {4, 8} /\ (pc = 4 => bytes = Hello) /\ (pc = 8 => bytes = original)
    BY <1>1
  <2>2. bytes \in Seq(Bytes) /\ slices \in Buffers
    BY <1>1, BytesAssumption, Types
  <2> QED
    BY <2>1, <2>2 DEF HookOK
<1>3. \A b \in Added(bytes) : b \in Buffers /\ b.bytes = slices.bytes \o bytes
  BY <1>2, AddedOK
<1>4. ASSUME ~failed PROVE \A b \in Added(bytes) : b.bytes = bytes
  <2>1. slices.bytes = << >>
    BY <1>2, <1>4 DEF Unfailed, Empty
  <2>2. << >> \o bytes = bytes
    BY <1>2, ConcatEmptySeq
  <2> QED
    BY <1>3, <2>1, <2>2
<1>5. ~failed => \A b \in Added(bytes) :
         /\ pc \in {3, 7} => b = Empty
         /\ pc = 4 => b.bytes = Hello
         /\ pc = 8 => b.bytes = sent
  <2>1. SUFFICES ASSUME ~failed, NEW b \in Added(bytes)
                 PROVE  /\ pc \in {3, 7} => b = Empty
                        /\ pc = 4 => b.bytes = Hello
                        /\ pc = 8 => b.bytes = sent
    BY Zenon
  <2> QED
    BY <1>2, <1>4, <2>1
<1>6. pc \in {3, 4, 7, 8} /\ \A b \in Added(bytes) : b \in Buffers
  BY <1>2, <1>3
<1> QED
  BY <1>1, <1>5, <1>6, ChangeStep, Zenon

(* The state of the hook at the start of a stream.                         *)
LEMMA InitHook == Init => HookInv
<1> SUFFICES ASSUME Init PROVE HookInv
  OBVIOUS
<1>1. 0 \in 0..MaxFrames /\ 0 \in 0..Len(Steps) /\ Len(Empty.bytes) = 0
  BY SizesAssumption DEF Steps, Empty
<1>2. << >> \in Seq(Bytes) /\ Empty \in Buffers
  BY EmptySeq, EmptyBuffer
<1>3. TypeOK
  <2>1. valid \in BOOLEAN /\ failed \in BOOLEAN
    BY Zenon DEF Init
  <2>2. offset \in 0..(IF index = Len(chunks.bytes) THEN 0 ELSE End(chunks, index) - index)
    BY <1>1 DEF Init
  <2> QED
    BY <1>1, <1>2, <2>1, <2>2 DEF Init, TypeOK
<1>4. HookOK
  BY DEF Init, HookOK, Empty
<1>5. Unfailed /\ BodyPreserved /\ PanicsExplained
  BY DEF Init, Unfailed, BodyPreserved, PanicsExplained
<1> QED
  BY <1>3, <1>4, <1>5 DEF HookInv

(* Every step of the passthrough filter, and of Envoy around it, keeps the *)
(* invariant of its hook.                                                  *)
LEMMA StepHook == HookInv /\ [Next]_vars => HookInv'
<1> SUFFICES ASSUME HookInv, [Next]_vars PROVE HookInv'
  OBVIOUS
<1>1. CASE UNCHANGED vars
  <2>1. UNCHANGED <<sent, frames, status, next, slices, pc, chunks, index, offset, out, original>>
    BY <1>1 DEF vars, envoyVars, readerVars
  <2>2. valid' = valid /\ failed' = failed
    BY <1>1, Zenon DEF vars
  <2>3. TypeOK'
    <3>1. valid' \in BOOLEAN /\ failed' \in BOOLEAN
      BY <2>2, Types, Zenon DEF HookInv
    <3> QED
      BY <2>1, <3>1, Types, TypeFrame DEF HookInv, readerVars
  <2>4. ReaderOK <=> ReaderOK'
    BY <2>1, <2>2 DEF ReaderOK
  <2>5. HookOK'
    BY <2>1, <2>4 DEF HookInv, HookOK
  <2>6. Unfailed' /\ BodyPreserved' /\ PanicsExplained'
    BY <2>1, <2>2 DEF HookInv, Unfailed, BodyPreserved, PanicsExplained
  <2> QED
    BY <2>3, <2>5, <2>6 DEF HookInv
<1>2. CASE Next
  BY <1>2, FrameStep, EndStep, GetStep, ReadStep, DrainStep, AppendStep DEF Next, HookStep
<1> QED
  BY <1>1, <1>2

(* The passthrough filter alone: whatever the frames, slices and reads.    *)
THEOREM HookInductive == SafetySpec => []HookInv
BY InitHook, StepHook, PTL DEF SafetySpec

-----------------------------------------------------------------------------
(* The reader of the zero_copy_regex_waf filter: what read_matches has, and *)
(* what the running read has copied, is the part in front of its place.     *)
WafOK ==
  /\ waf = "waiting" => vec_idx = 0 /\ buf_idx = 0 /\ room = 0 /\ buf = << >> /\ read = << >>
  /\ waf # "waiting" => pc = 0 /\ status # "receiving"
  /\ waf \in {"reading", "copying"} => slices.bytes = sent
  /\ waf = "reading" => read = SubSeq(slices.bytes, 1, vec_idx + buf_idx)
  /\ waf = "copying" => /\ room \in ReadSizes
                        /\ read \o buf = SubSeq(slices.bytes, 1, vec_idx + buf_idx)

ChainInv == HookInv /\ WafTypeOK /\ WafOK /\ VerdictOnBody

(* Where BodyReader is, in numbers. *)
LEMMA WafPlace ==
  ASSUME slices \in Buffers, WafTypeOK
  PROVE  /\ slices.bytes \in Seq(Bytes) /\ Len(slices.bytes) \in Nat
         /\ vec_idx \in 0..Len(slices.bytes) /\ buf_idx \in Nat
         /\ vec_idx = Len(slices.bytes) => buf_idx = 0
         /\ vec_idx # Len(slices.bytes) =>
               /\ End(slices, vec_idx) \in slices.ends
               /\ End(slices, vec_idx) \in vec_idx + 1..Len(slices.bytes)
               /\ vec_idx + buf_idx < End(slices, vec_idx)
         /\ Len(buf) \in Nat /\ room \in Nat
<1>1. slices.bytes \in Seq(Bytes) /\ slices.ends \subseteq 1..Len(slices.bytes)
  BY DEF Buffers
<1>2. Len(slices.bytes) \in Nat /\ Len(buf) \in Nat /\ room \in Nat
  BY <1>1, LenProperties, SizesAssumption DEF WafTypeOK
<1>3. vec_idx \in {0} \cup slices.ends
  BY DEF WafTypeOK
<1>4. vec_idx \in 0..Len(slices.bytes)
  BY <1>1, <1>2, <1>3
<1>5. buf_idx \in 0..(IF vec_idx = Len(slices.bytes) THEN 0 ELSE End(slices, vec_idx) - vec_idx - 1)
  BY DEF WafTypeOK
<1>6. CASE vec_idx = Len(slices.bytes)
  BY <1>1, <1>2, <1>4, <1>5, <1>6
<1>7. CASE vec_idx # Len(slices.bytes)
  <2>1. /\ End(slices, vec_idx) \in slices.ends /\ End(slices, vec_idx) \in Nat
        /\ vec_idx < End(slices, vec_idx) /\ End(slices, vec_idx) <= Len(slices.bytes)
    BY <1>3, <1>7, EndOf
  <2>2. buf_idx \in 0..(End(slices, vec_idx) - vec_idx - 1)
    BY <1>5, <1>7
  <2>3. /\ End(slices, vec_idx) \in vec_idx + 1..Len(slices.bytes)
        /\ buf_idx \in Nat /\ vec_idx + buf_idx < End(slices, vec_idx)
    BY <1>4, <2>1, <2>2
  <2> QED
    BY <1>1, <1>2, <1>4, <1>7, <2>1, <2>3
<1> QED
  BY <1>6, <1>7

(* While the body is on its way to the filter, BodyReader is at its start. *)
LEMMA WafWaits ==
  ASSUME ChainInv, slices' \in Buffers, UNCHANGED bodyReaderVars,
         waf = "waiting", waf' \in {"waiting", "reading", "unread", "panicked"},
         waf' # "waiting" => pc' = 0 /\ status' # "receiving",
         waf' = "reading" => slices'.bytes = sent'
  PROVE  WafTypeOK' /\ WafOK' /\ VerdictOnBody'
<1>1. /\ vec_idx' = 0 /\ buf_idx' = 0 /\ room' = 0 /\ buf' = << >> /\ read' = << >>
  BY DEF ChainInv, WafOK, bodyReaderVars
<1>2. << >> \in Seq(Bytes) /\ Len(<< >>) <= 0
  BY EmptySeq
<1>3. buf_idx' \in 0..(IF vec_idx' = Len(slices'.bytes) THEN 0 ELSE End(slices', vec_idx') - vec_idx' - 1)
  <2>1. CASE Len(slices'.bytes) = 0
    BY <1>1, <2>1
  <2>2. CASE Len(slices'.bytes) # 0
    <3>1. End(slices', 0) \in Nat /\ 0 < End(slices', 0)
      BY <2>2, EndOf
    <3> QED
      BY <1>1, <2>2, <3>1
  <2> QED
    BY <2>1, <2>2
<1>4. WafTypeOK'
  BY <1>1, <1>2, <1>3 DEF WafTypeOK
<1>5. SubSeq(slices'.bytes, 1, 0) = << >>
  BY SubSeqEmpty
<1>6. waf' = "reading" => read' = SubSeq(slices'.bytes, 1, vec_idx' + buf_idx')
  BY <1>1, <1>5
<1>7. WafOK'
  BY <1>1, <1>6 DEF WafOK
<1>8. VerdictOnBody'
  BY DEF VerdictOnBody
<1> QED
  BY <1>4, <1>7, <1>8

(* The steps of the passthrough filter and of Envoy come before the first  *)
(* step of the next filter.                                                *)
LEMMA BeforeWaf ==
  ASSUME ChainInv, Arriving \/ TrailersEnd \/ PassthroughStep
  PROVE  ChainInv'
<1>1. [Next]_vars
  BY DEF Arriving, TrailersEnd, PassthroughStep, Next, HookStep
<1>2. HookInv'
  BY <1>1, StepHook DEF ChainInv
<1>3. slices' \in Buffers
  BY <1>2, Zenon DEF HookInv, TypeOK
<1>4. waf = "waiting"
  <2>1. pc # 0 \/ status = "receiving"
    <3>1. CASE Arriving
      BY <3>1 DEF Arriving, Frame, Reset, Receiving
    <3>2. CASE TrailersEnd
      BY <3>2 DEF TrailersEnd, Trailers, Receiving
    <3>3. CASE PassthroughStep
      <4>1. \E call \in {"return", "get", "read", "drain", "append hello", "append original"} : At(call)
        BY <3>3 DEF PassthroughStep, Return, Get, Read, Drain, AppendBody
      <4>2. pc > 0
        BY <4>1 DEF At
      <4> QED
        BY <4>2
    <3> QED
      BY <3>1, <3>2, <3>3
  <2> QED
    BY <2>1 DEF ChainInv, WafOK
<1>5. UNCHANGED bodyReaderVars
  BY DEF Arriving, TrailersEnd, PassthroughStep, on_request_body, wafVars
<1>6. \/ waf' = "waiting"
      \/ Trailers /\ waf' = "unread"
      \/ Return /\ waf' \in {"reading", "panicked"}
  <2>1. CASE Arriving
    BY <1>4, <2>1 DEF Arriving, wafVars
  <2>2. CASE TrailersEnd
    BY <2>2 DEF TrailersEnd, on_request_body
  <2>3. CASE PassthroughStep
    BY <1>4, <2>3 DEF PassthroughStep, on_request_body, wafVars
  <2> QED
    BY <2>1, <2>2, <2>3
<1>7. waf' # "waiting" => pc' = 0 /\ status' # "receiving"
  BY <1>6 DEF Trailers, Return, Receiving, Forward
<1>8. waf' = "reading" => slices'.bytes = sent'
  <2>1. SUFFICES ASSUME Return PROVE slices'.bytes = sent'
    BY <1>6
  <2>2. At("return") /\ TypeOK /\ HookOK
    BY <2>1 DEF Return, ChainInv, HookInv
  <2>3. pc = 11
    BY <2>2, Calls
  <2>4. slices.bytes = sent
    BY <2>2, <2>3 DEF HookOK
  <2> QED
    BY <2>1, <2>4 DEF Return
<1>9. WafTypeOK' /\ WafOK' /\ VerdictOnBody'
  BY <1>3, <1>4, <1>5, <1>6, <1>7, <1>8, WafWaits
<1> QED
  BY <1>2, <1>9 DEF ChainInv

(* The two ways in which read_matches comes to the end of the body: it has *)
(* been given all of it.                                                   *)
LEMMA WafEnd ==
  ASSUME ChainInv, waf \in {"reading", "copying"}, vec_idx = Len(slices.bytes),
         buf = << >> \/ waf = "reading"
  PROVE  read = sent
<1>1. slices \in Buffers /\ WafTypeOK
  BY DEF ChainInv, HookInv, TypeOK
<1>2. vec_idx + buf_idx = Len(slices.bytes) /\ slices.bytes \in Seq(Bytes)
  BY <1>1, WafPlace
<1>3. SubSeq(slices.bytes, 1, Len(slices.bytes)) = slices.bytes
  BY <1>2, SubSeqFull
<1>4. waf = "copying" => read \o buf = read
  BY ConcatEmptySeq DEF ChainInv, WafTypeOK
<1> QED
  BY <1>2, <1>3, <1>4 DEF ChainInv, WafOK

(* The head of BodyReader::read. *)
LEMMA ReadCallStep ==
  ASSUME ChainInv, NEW size \in ReadSizes, ReadCall(size)
  PROVE  WafTypeOK' /\ WafOK' /\ VerdictOnBody'
<1>1. /\ waf = "reading" /\ slices' = slices /\ sent' = sent /\ pc' = pc /\ status' = status
      /\ vec_idx' = vec_idx /\ buf_idx' = buf_idx /\ read' = read
  BY DEF ReadCall, vars, envoyVars
<1>2. /\ WafTypeOK /\ slices \in Buffers
      /\ pc = 0 /\ status # "receiving" /\ slices.bytes = sent
      /\ read = SubSeq(slices.bytes, 1, vec_idx + buf_idx)
  BY <1>1 DEF ChainInv, HookInv, TypeOK, WafOK
<1>3. CASE vec_idx = Len(slices.bytes)
  <2>1. Answer /\ room' = room /\ buf' = buf
    BY <1>3 DEF ReadCall
  <2>2. read = sent
    BY <1>1, <1>3, WafEnd
  <2>3. waf' = IF Matches(sent) THEN "refused" ELSE "continued"
    BY <2>1, <2>2 DEF Answer
  <2>4. WafTypeOK'
    BY <1>1, <1>2, <2>1, <2>3 DEF WafTypeOK
  <2>5. WafOK'
    BY <1>1, <1>2, <2>3 DEF WafOK
  <2>6. VerdictOnBody'
    BY <1>1, <2>2, <2>3 DEF VerdictOnBody
  <2> QED
    BY <2>4, <2>5, <2>6
<1>4. CASE vec_idx # Len(slices.bytes)
  <2>1. waf' = "copying" /\ room' = size /\ buf' = << >>
    BY <1>4 DEF ReadCall
  <2>2. << >> \in Seq(Bytes) /\ Len(<< >>) <= size
    BY EmptySeq, SizesAssumption
  <2>3. read \o << >> = read
    BY <1>2, ConcatEmptySeq DEF WafTypeOK
  <2>4. WafTypeOK'
    BY <1>1, <1>2, <2>1, <2>2 DEF WafTypeOK
  <2>5. WafOK'
    BY <1>1, <1>2, <2>1, <2>3 DEF WafOK
  <2>6. VerdictOnBody'
    BY <2>1 DEF VerdictOnBody
  <2> QED
    BY <2>4, <2>5, <2>6
<1> QED
  BY <1>3, <1>4

(* Ok(n), and Ok(0) only at the end of the body. *)
LEMMA ReadReturnStep ==
  ASSUME ChainInv, ReadReturn
  PROVE  WafTypeOK' /\ WafOK' /\ VerdictOnBody'
<1>1. /\ waf = "copying" /\ slices' = slices /\ sent' = sent /\ pc' = pc /\ status' = status
      /\ vec_idx' = vec_idx /\ buf_idx' = buf_idx /\ room' = room /\ buf' = buf
      /\ read' = read \o buf /\ ~LoopGoesOn
  BY DEF ReadReturn, vars, envoyVars
<1>2. /\ WafTypeOK /\ slices \in Buffers
      /\ pc = 0 /\ status # "receiving" /\ slices.bytes = sent
      /\ read \o buf = SubSeq(slices.bytes, 1, vec_idx + buf_idx) /\ room \in ReadSizes
  BY <1>1 DEF ChainInv, HookInv, TypeOK, WafOK
<1>3. read' \in Seq(Bytes)
  BY <1>1, <1>2, ConcatProperties DEF WafTypeOK
<1>4. CASE buf = << >>
  <2>1. vec_idx = Len(slices.bytes)
    <3>1. Len(buf) = 0 /\ room > 0
      BY <1>2, <1>4, SizesAssumption
    <3>2. vec_idx \in 0..Len(slices.bytes) /\ Len(slices.bytes) \in Nat
      BY <1>2, WafPlace
    <3> QED
      BY <1>1, <3>1, <3>2 DEF LoopGoesOn
  <2>2. read = sent
    BY <1>1, <1>4, <2>1, WafEnd
  <2>3. read' = read
    BY <1>1, <1>2, <1>4, ConcatEmptySeq DEF WafTypeOK
  <2>4. waf' = IF Matches(sent) THEN "refused" ELSE "continued"
    BY <1>4, <2>2 DEF ReadReturn, Answer
  <2>5. WafTypeOK'
    BY <1>1, <1>2, <1>3, <2>4 DEF WafTypeOK
  <2>6. WafOK'
    BY <1>1, <1>2, <2>4 DEF WafOK
  <2>7. VerdictOnBody'
    BY <1>1, <2>2, <2>3, <2>4 DEF VerdictOnBody
  <2> QED
    BY <2>5, <2>6, <2>7
<1>5. CASE buf # << >>
  <2>1. waf' = "reading"
    BY <1>5 DEF ReadReturn
  <2>2. WafTypeOK'
    BY <1>1, <1>2, <1>3, <2>1 DEF WafTypeOK
  <2>3. WafOK'
    BY <1>1, <1>2, <2>1 DEF WafOK
  <2>4. VerdictOnBody'
    BY <2>1 DEF VerdictOnBody
  <2> QED
    BY <2>2, <2>3, <2>4
<1> QED
  BY <1>4, <1>5

(* One round of the loop of BodyReader::read copies the next part of the   *)
(* body, and never nothing.                                                *)
LEMMA CopyLoopStep ==
  ASSUME ChainInv, CopyLoop
  PROVE  WafTypeOK' /\ WafOK' /\ VerdictOnBody'
<1> DEFINE len == Len(slices.bytes)
           here == vec_idx + buf_idx
           e == End(slices, vec_idx)
           rest == room - Len(buf)
           to_copy == Min({e - here, rest})
           part == SubSeq(slices.bytes, here + 1, here + to_copy)
<1>1. /\ waf = "copying" /\ waf' = "copying" /\ slices' = slices /\ sent' = sent
      /\ pc' = pc /\ status' = status /\ room' = room /\ read' = read
      /\ buf' = buf \o part /\ Len(buf) < room /\ vec_idx < len
      /\ \/ here + to_copy >= e /\ vec_idx' = e /\ buf_idx' = 0
         \/ here + to_copy < e /\ buf_idx' = buf_idx + to_copy /\ vec_idx' = vec_idx
  BY DEF CopyLoop, LoopGoesOn, vars, envoyVars
<1>2. /\ WafTypeOK /\ slices \in Buffers
      /\ pc = 0 /\ status # "receiving" /\ slices.bytes = sent /\ room \in ReadSizes
      /\ read \o buf = SubSeq(slices.bytes, 1, here)
      /\ buf \in Seq(Bytes) /\ read \in Seq(Bytes)
  BY <1>1 DEF ChainInv, HookInv, TypeOK, WafOK, WafTypeOK
<1>3. /\ slices.bytes \in Seq(Bytes) /\ len \in Nat /\ vec_idx \in Nat /\ buf_idx \in Nat
      /\ e \in slices.ends /\ e \in Nat /\ here < e /\ e <= len
      /\ Len(buf) \in Nat /\ room \in Nat
  BY <1>1, <1>2, WafPlace
<1>4. e - here \in Nat /\ rest \in Nat /\ rest > 0 /\ here \in Nat
  BY <1>1, <1>3
<1>5. to_copy = IF e - here <= rest THEN e - here ELSE rest
  BY <1>4, MinPair
<1>6. to_copy \in Nat /\ to_copy > 0 /\ to_copy <= e - here /\ Len(buf) + to_copy <= room
  BY <1>3, <1>4, <1>5
<1> HIDE DEF to_copy, e, len
<1>7. here \in Nat /\ here + to_copy <= Len(slices.bytes)
  BY <1>3, <1>4, <1>6 DEF len
<1>8. /\ part \in Seq(Bytes) /\ Len(part) = to_copy
      /\ SubSeq(slices.bytes, 1, here) \o part = SubSeq(slices.bytes, 1, here + to_copy)
  BY <1>3, <1>6, <1>7, NextPart
<1> HIDE DEF part
<1>9. read \o buf' = SubSeq(slices.bytes, 1, here + to_copy)
  <2>1. read \o buf' = (read \o buf) \o part
    <3>1. (read \o buf) \o part = read \o (buf \o part)
      <4>1. read \in Seq(Bytes) /\ buf \in Seq(Bytes) /\ part \in Seq(Bytes)
        BY <1>2, <1>8
      <4>2. \A s, t, u \in Seq(Bytes) : (s \o t) \o u = s \o (t \o u)
        BY ConcatAssociative
      <4> QED
        BY <4>1, <4>2, Zenon
    <3> QED
      BY <1>1, <3>1
  <2> QED
    BY <1>2, <1>8, <2>1
<1>10. buf' \in Seq(Bytes) /\ Len(buf') <= room'
  BY <1>1, <1>2, <1>6, <1>8, ConcatProperties
<1>11. vec_idx' + buf_idx' = vec_idx + buf_idx + to_copy
  <2>1. CASE here + to_copy >= e /\ vec_idx' = e /\ buf_idx' = 0
    <3>1. here + to_copy = e
      BY <1>3, <1>6, <2>1
    <3> QED
      BY <1>3, <2>1, <3>1
  <2>2. CASE here + to_copy < e /\ buf_idx' = buf_idx + to_copy /\ vec_idx' = vec_idx
    BY <1>3, <1>6, <2>2
  <2> QED
    BY <1>1, <2>1, <2>2
<1>12. /\ vec_idx' \in {0} \cup slices'.ends
       /\ buf_idx' \in 0..(IF vec_idx' = Len(slices'.bytes) THEN 0
                           ELSE End(slices', vec_idx') - vec_idx' - 1)
  <2>1. CASE here + to_copy >= e /\ vec_idx' = e /\ buf_idx' = 0
    <3>1. vec_idx' \in {0} \cup slices'.ends /\ slices' \in Buffers
      BY <1>1, <1>2, <1>3, <2>1
    <3>2. vec_idx' # Len(slices'.bytes) => End(slices', vec_idx') \in Nat /\ vec_idx' < End(slices', vec_idx')
      BY <3>1, EndOf
    <3> QED
      BY <1>3, <2>1, <3>1, <3>2
  <2>2. CASE here + to_copy < e /\ buf_idx' = buf_idx + to_copy /\ vec_idx' = vec_idx
    <3>1. vec_idx' \in {0} \cup slices'.ends
      BY <1>1, <1>2, <2>2 DEF WafTypeOK
    <3>2. vec_idx' # Len(slices'.bytes) /\ End(slices', vec_idx') = e
      BY <1>1, <1>3, <2>2 DEF e, len
    <3>3. buf_idx' \in 0..(e - vec_idx' - 1)
      BY <1>3, <1>6, <2>2
    <3> QED
      BY <3>1, <3>2, <3>3
  <2> QED
    BY <1>1, <2>1, <2>2
<1>13. WafTypeOK'
  BY <1>1, <1>2, <1>10, <1>12 DEF WafTypeOK
<1>14. WafOK'
  BY <1>1, <1>2, <1>9, <1>11 DEF WafOK
<1>15. VerdictOnBody'
  BY <1>1 DEF VerdictOnBody
<1> QED
  BY <1>13, <1>14, <1>15

-----------------------------------------------------------------------------
(* The state of both filters at the start of a stream. *)
LEMMA InitChain == ChainInit => ChainInv
<1> SUFFICES ASSUME ChainInit PROVE ChainInv
  OBVIOUS
<1>1. HookInv
  BY InitHook DEF ChainInit
<1>2. slices = Empty /\ Len(Empty.bytes) = 0 /\ << >> \in Seq(Bytes) /\ Len(<< >>) <= 0
  BY EmptySeq DEF ChainInit, Init, Empty
<1>3. WafTypeOK
  BY <1>2 DEF ChainInit, WafTypeOK
<1>4. WafOK
  BY DEF ChainInit, WafOK
<1>5. VerdictOnBody
  BY DEF ChainInit, VerdictOnBody
<1> QED
  BY <1>1, <1>3, <1>4, <1>5 DEF ChainInv

(* Every step of either filter keeps both readers in front of what is left *)
(* of the body.                                                            *)
LEMMA StepChain == ChainInv /\ [ChainNext]_chainVars => ChainInv'
<1> SUFFICES ASSUME ChainInv, [ChainNext]_chainVars PROVE ChainInv'
  OBVIOUS
<1>1. CASE UNCHANGED chainVars
  <2>1. UNCHANGED <<slices, sent, pc, status, waf, vec_idx, buf_idx, room, buf, read>>
    BY <1>1 DEF chainVars, vars, envoyVars, wafVars, bodyReaderVars
  <2>2. HookInv'
    BY <1>1, StepHook DEF ChainInv, chainVars
  <2>3. WafTypeOK'
    BY <2>1 DEF ChainInv, WafTypeOK
  <2>4. WafOK'
    BY <2>1 DEF ChainInv, WafOK
  <2>5. VerdictOnBody'
    BY <2>1 DEF ChainInv, VerdictOnBody
  <2> QED
    BY <2>2, <2>3, <2>4, <2>5 DEF ChainInv
<1>2. CASE WafStep
  <2>1. UNCHANGED vars
    BY <1>2 DEF WafStep, ReadCall, CopyLoop, ReadReturn
  <2>2. HookInv'
    BY <2>1, StepHook DEF ChainInv
  <2>3. WafTypeOK' /\ WafOK' /\ VerdictOnBody'
    BY <1>2, ReadCallStep, CopyLoopStep, ReadReturnStep DEF WafStep
  <2> QED
    BY <2>2, <2>3 DEF ChainInv
<1>3. CASE Arriving \/ TrailersEnd \/ PassthroughStep
  BY <1>3, BeforeWaf
<1> QED
  BY <1>1, <1>2, <1>3 DEF ChainNext

-----------------------------------------------------------------------------
(* Both readers, at every step of every stream through both filters: what  *)
(* each has read is the body in front of its place.                        *)
THEOREM ChainInductive == ChainSpec => []ChainInv
BY InitChain, StepChain, PTL DEF ChainSpec

(* The indices of both readers stay inside the buffer that they read, and  *)
(* no read returns more than it has room for.                              *)
THEOREM ChainTypeCorrect == ChainSpec => []ChainTypeOK
<1>1. ChainInv => ChainTypeOK
  BY DEF ChainInv, HookInv, ChainTypeOK
<1> QED
  BY <1>1, ChainInductive, PTL

(* The passthrough filter sends on the body that Envoy has received, byte  *)
(* for byte, after it has replaced it and put it back, or has failed to.   *)
THEOREM BodyKept == ChainSpec => []BodyPreserved
<1>1. ChainInv => BodyPreserved
  BY DEF ChainInv, HookInv
<1> QED
  BY <1>1, ChainInductive, PTL

(* No call of bodyReader.Read is through chunks that draining or appending *)
(* has invalidated.                                                        *)
THEOREM ReaderCurrent == ChainSpec => []ReaderValid
<1>1. ChainInv => ReaderValid
  <2> SUFFICES ASSUME ChainInv, At("read") PROVE valid
    BY DEF ReaderValid
  <2>1. pc \in {2, 6, 10}
    BY Calls DEF ChainInv, HookInv
  <2> QED
    BY <2>1, Zenon DEF ChainInv, HookInv, HookOK, ReaderOK
<1> QED
  BY <1>1, ChainInductive, PTL

(* When the filter decides, the regular expression has been given the      *)
(* whole body that Envoy has received: BodyReader::read returns Ok(0) only *)
(* at its end. A body that trailers end is not decided on at all.          *)
THEOREM Verdict == ChainSpec => []VerdictOnBody
<1>1. ChainInv => VerdictOnBody
  BY DEF ChainInv
<1> QED
  BY <1>1, ChainInductive, PTL

(* The hook panics only if a call on the body has failed, or if the body   *)
(* is empty: otherwise what is read back is what was appended.             *)
THEOREM PanicsHaveCause == ChainSpec => []PanicsExplained
<1>1. ChainInv => PanicsExplained
  BY DEF ChainInv, HookInv
<1> QED
  BY <1>1, ChainInductive, PTL

-----------------------------------------------------------------------------
(* A Read that does not return io.EOF returns at least one byte, so that   *)
(* io.ReadAll does not go round in circles. A step that copies nothing     *)
(* changes nothing, and no formula about behaviours can forbid it; this is *)
(* about the action, in every state that the hook can be in.               *)
THEOREM ReadAdvances ==
  ASSUME HookInv, NEW size \in ReadSizes, Read(size), pc' = pc
  PROVE  Len(out) < Len(out')
<1>1. At("read") /\ TypeOK /\ HookOK
  BY DEF Read, HookInv
<1>2. pc \in 0..11 /\ pc > 0
  BY <1>1, Types DEF At
<1>3. ~EOF
  BY <1>2 DEF EOF
<1>4. PICK i \in {0} \cup chunks.ends :
         /\ i # Len(chunks.bytes)
         /\ \E o \in 0..(End(chunks, i) - i) :
               i + o = index + offset /\ i + o < End(chunks, i) /\ CopyFrom(i, o, size)
  BY <1>3, ReadCases
<1>5. PICK o \in 0..(End(chunks, i) - i) :
         i + o = index + offset /\ i + o < End(chunks, i) /\ CopyFrom(i, o, size)
  BY <1>4
<1> DEFINE e == End(chunks, i)
           n == Min({size, e - i - o})
           part == SubSeq(chunks.bytes, i + o + 1, i + o + n)
<1>6. /\ chunks \in Buffers /\ chunks.bytes \in Seq(Bytes) /\ Len(chunks.bytes) \in Nat
      /\ chunks.ends \subseteq 1..Len(chunks.bytes) /\ out \in Seq(Bytes)
  BY <1>1, Place, Types DEF TypeOK, Buffers
<1>7. e \in Nat /\ i < e /\ e <= Len(chunks.bytes) /\ i \in Nat /\ o \in Nat /\ i + o < e
  BY <1>4, <1>5, <1>6, EndOf
<1>8. size \in Nat /\ size > 0 /\ e - i - o \in Nat /\ e - i - o > 0
  BY <1>7, SizesAssumption
<1>9. n = IF size <= e - i - o THEN size ELSE e - i - o
  BY <1>8, MinPair
<1>10. n \in Nat /\ n > 0 /\ i + o + n <= Len(chunks.bytes) /\ i + o \in Nat
  BY <1>7, <1>8, <1>9
<1>11. out' = out \o part
  BY <1>5 DEF CopyFrom
<1> HIDE DEF n
<1>12. part \in Seq(Bytes) /\ Len(part) = n
  BY <1>6, <1>10, NextPart
<1> HIDE DEF part
<1>13. Len(out') = Len(out) + n /\ Len(out) \in Nat
  BY <1>6, <1>11, <1>12, ConcatProperties, LenProperties
<1> QED
  BY <1>10, <1>13

(* So does every round of the loop of BodyReader::read.                    *)
THEOREM CopyLoopAdvances ==
  ASSUME ChainInv, CopyLoop
  PROVE  Len(buf) < Len(buf')
<1> DEFINE here == vec_idx + buf_idx
           e == End(slices, vec_idx)
           rest == room - Len(buf)
           n == Min({e - here, rest})
           part == SubSeq(slices.bytes, here + 1, here + n)
<1>1. /\ vec_idx < Len(slices.bytes) /\ Len(buf) < room /\ buf' = buf \o part
  BY DEF CopyLoop, LoopGoesOn
<1>2. WafTypeOK /\ slices \in Buffers /\ buf \in Seq(Bytes)
  BY DEF ChainInv, HookInv, TypeOK, WafTypeOK
<1>3. /\ slices.bytes \in Seq(Bytes) /\ vec_idx \in Nat /\ buf_idx \in Nat
      /\ e \in Nat /\ here < e /\ e <= Len(slices.bytes)
      /\ Len(buf) \in Nat /\ room \in Nat /\ Len(slices.bytes) \in Nat
  BY <1>1, <1>2, WafPlace
<1>4. here \in Nat /\ e - here \in Nat /\ e - here > 0 /\ rest \in Nat /\ rest > 0
  BY <1>1, <1>3
<1>5. n = IF e - here <= rest THEN e - here ELSE rest
  BY <1>4, MinPair
<1>6. n \in Nat /\ n > 0 /\ here + n <= Len(slices.bytes)
  BY <1>3, <1>4, <1>5
<1> HIDE DEF n, here
<1>7. part \in Seq(Bytes) /\ Len(part) = n
  BY <1>3, <1>4, <1>6, NextPart
<1> HIDE DEF part
<1>8. Len(buf') = Len(buf) + n
  BY <1>1, <1>2, <1>7, ConcatProperties
<1> QED
  BY <1>3, <1>6, <1>8
=============================================================================
