------------------------------ MODULE MCSettle ------------------------------
(* Two records of one provider and one of another. *)
EXTENDS Settle

ProviderOfDef == <<1, 1, 2>>
=============================================================================
