------------------------------ MODULE MCStats -------------------------------
(* One provider and the LB's own counter. *)
EXTENDS Stats
=============================================================================
