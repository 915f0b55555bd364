----------------------------- MODULE MCBodyChain -----------------------------
(* An instance of BodyChain for TLC: frames of up to three bytes, one of    *)
(* which is what the hook appends, and a pattern that is found only across  *)
(* bytes of several frames or slices.                                       *)
EXTENDS BodyChain

CONSTANTS a, b, h

HelloWorld == <<h, h>>
SomeFrames == {<< >>, <<a>>, <<a, b>>, <<b, b, a>>, HelloWorld}

(* The pattern "ba.*b". *)
Pattern(body) == \E i, j \in DOMAIN body :
  i + 1 < j /\ body[i] = b /\ body[i + 1] = a /\ body[j] = b
=============================================================================
