------------------------------ MODULE MCSession ------------------------------
(* Session for TLC: a first request, a query and an empty request; a long  *)
(* and an empty response.                                                  *)
EXTENDS Session

CONSTANTS Other

MCTypes == {Query, Other}
MCScript ==
  [client |-> <<[type |-> Query, len |-> 1], [type |-> Query, len |-> 2],
                [type |-> Other, len |-> 0]>>,
   server |-> <<[type |-> Other, len |-> 3], [type |-> Query, len |-> 0]>>]
=============================================================================
