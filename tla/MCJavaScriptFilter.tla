------------------------- MODULE MCJavaScriptFilter -------------------------
(* An instance of JavaScriptFilter for TLC. *)
EXTENDS JavaScriptFilter, TLC

CONSTANTS t1, t2, r1, r2, v1, foo, Foo, x1, x2

(* One header, by its name and by a name with a capital letter. *)
TwoSpellings == foo :> foo @@ Foo :> foo

(* Absent, or with two values. *)
SomeLists == {<< >>, <<x2, x1>>}
=============================================================================
