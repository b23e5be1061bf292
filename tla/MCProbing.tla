----------------------------- MODULE MCProbing -----------------------------
(* Probing for TLC.  The bounds are those of the configurations. *)
EXTENDS Probing
=============================================================================
