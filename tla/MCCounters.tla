----------------------------- MODULE MCCounters -----------------------------
(* Counters for TLC.  The bounds are those of the configurations. *)
EXTENDS Counters, TLC

(* Agreements are interchangeable. *)
Symmetry == Permutations(Agreement)
=============================================================================
