--------------------------- MODULE MCFilterChain ---------------------------
(* Instances of FilterChain for TLC: the chains of the first and of the    *)
(* second listener of integration/envoy.yaml, of their filters that are    *)
(* modelled here, and four in which they meet.                             *)
EXTENDS FilterChain

CONSTANTS n1, n2

SomeChains ==
  {<<"passthrough", "rust_passthrough", "metrics", "header_mutation">>,
   <<"header_auth", "random_auth">>,
   <<"metrics", "header_auth", "random_auth">>,
   <<"header_auth", "metrics", "random_auth">>,
   <<"random_auth", "header_mutation">>,
   <<"header_mutation", "header_auth", "passthrough">>}

(* No value, one, and two in either order. *)
SomeAuthLists ==
  {<< >>, <<"other">>, <<"on_response_headers">>,
   <<"other", "on_response_headers">>, <<"on_response_headers", "other">>}
=============================================================================
