----------------------------- MODULE MCFailover -----------------------------
(* One static provider and one that comes and goes; the cursor's word is   *)
(* three, so that it wraps where the member list's length does not.        *)
EXTENDS Failover

StaticDef == <<"a">>
=============================================================================
