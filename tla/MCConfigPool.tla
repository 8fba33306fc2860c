---------------------------- MODULE MCConfigPool ----------------------------
(***************************************************************************)
(* Instances of ConfigPool for TLC: two connections whose texts would read *)
(* the same without their separators, and one with a colon in its profile, *)
(* which has the key of the first.                                         *)
(***************************************************************************)
EXTENDS ConfigPool

CONSTANT a

Bare ==
  [region |-> <<>>, access_key_id |-> <<>>, secret_access_key |-> <<>>,
   session_token |-> <<>>, profile |-> <<>>, endpoint |-> <<>>]

MCParams ==
  {[Bare EXCEPT !.profile = <<a>>, !.endpoint = <<Colon>>],
   [Bare EXCEPT !.region = <<a>>, !.endpoint = <<Colon>>],
   [Bare EXCEPT !.profile = <<a, Colon>>]}
=============================================================================
