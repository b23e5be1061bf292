--------------------------- MODULE MCEligibility ---------------------------
(* Eligibility for TLC.  The bounds are those of the configurations. *)
EXTENDS Eligibility
=============================================================================
