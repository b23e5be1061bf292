---------------------------- MODULE MCAcceptance ----------------------------
(* Acceptance for TLC: who posted the offers. *)
EXTENDS Acceptance

TwoOffers == <<"p1", "p2">>
=============================================================================
