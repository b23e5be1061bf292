------------------------------ MODULE Payments ------------------------------
(***************************************************************************)
(* What settlement promises, without saying how: closed counter records    *)
(* are paid, those of one provider in one payment, each at most once, and  *)
(* a receipt is only written for a record that was paid.                   *)
(***************************************************************************)
EXTENDS Naturals, Sequences

CONSTANTS
    Record,     \* counter records
    ProviderOf  \* whose each is

VARIABLES
    closed,    \* records closed so far
    payments,  \* the payments made, each the records it covered
    receipted  \* records a receipt was written for

Paid == UNION {payments[i] : i \in DOMAIN payments}

Init == closed = {} /\ payments = <<>> /\ receipted = {}

Close(r) ==
    /\ closed' = closed \cup {r}
    /\ UNCHANGED <<payments, receipted>>

Pay(S) ==
    /\ S \subseteq closed \ Paid
    /\ \A r, s \in S : ProviderOf[r] = ProviderOf[s]
    /\ payments' = Append(payments, S)
    /\ UNCHANGED <<closed, receipted>>

Receipt(S) ==
    /\ S \subseteq Paid
    /\ receipted' = receipted \cup S
    /\ UNCHANGED <<closed, payments>>

Next == \/ \E r \in Record : Close(r)
        \/ \E S \in SUBSET Record : Pay(S) \/ Receipt(S)

Spec == Init /\ [][Next]_<<closed, payments, receipted>>
=============================================================================
