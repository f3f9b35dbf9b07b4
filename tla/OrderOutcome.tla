---------------------------- MODULE OrderOutcome ----------------------------
(***************************************************************************)
(* What a paid order promises its buyer: it is served or refunded, once    *)
(* and for good, whatever executes and recovers it.                        *)
(***************************************************************************)
EXTENDS Integers

CONSTANT Orders

VARIABLES
    outcome,   \* "owed", "served" or "refunded"
    credits    \* refunds booked to the buyer's wallet for the order

vars == <<outcome, credits>>

Init ==
    /\ outcome = [o \in Orders |-> "owed"]
    /\ credits = [o \in Orders |-> 0]

Serve(o) ==
    /\ outcome[o] = "owed"
    /\ outcome' = [outcome EXCEPT ![o] = "served"]
    /\ UNCHANGED credits

Refund(o) ==
    /\ outcome[o] = "owed"
    /\ outcome' = [outcome EXCEPT ![o] = "refunded"]
    /\ credits' = [credits EXCEPT ![o] = @ + 1]

Next == \E o \in Orders : Serve(o) \/ Refund(o)

Spec == Init /\ [][Next]_vars
=============================================================================
