------------------------------ MODULE MCTenure ------------------------------
(* One agreement, and a listing an earlier process wrote under a longer    *)
(* life; the batch of a refresh holds both.                                *)
EXTENDS Tenure
=============================================================================
