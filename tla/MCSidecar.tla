----------------------------- MODULE MCSidecar ------------------------------
(* The agent's batch is over the body's limit, and its halves over the     *)
(* node's; the admission's single extend comes in between.                 *)
EXTENDS Sidecar

(* A write that is alone. *)
SingleWrite == [admission |-> <<4>>]

BatchOfDef == [agent |-> <<1, 2, 3>>, admission |-> <<4>>]
=============================================================================
