---------------------------- MODULE CheckoutClaim ----------------------------
(***************************************************************************)
(* What settlement promises of checkouts and payments, without providers,  *)
(* processes or tables: a checkout is claimed by at most one payment, the  *)
(* claim and its money move are one step, and a payment that comes after   *)
(* the checkout was closed is filed for review and moves nothing.          *)
(***************************************************************************)
EXTENDS Naturals

CONSTANTS Checkouts, Payments, NoPayment, CheckoutOf

VARIABLES
    owner,    \* the payment that settled the checkout, or NoPayment
    closed,   \* no payment can claim the checkout any more
    outcome,  \* of a payment: open, settled, or in review
    effect    \* how often the payment created an order or moved wallet money

vars == <<owner, closed, outcome, effect>>

Init ==
    /\ owner   = [c \in Checkouts |-> NoPayment]
    /\ closed  = [c \in Checkouts |-> FALSE]
    /\ outcome = [p \in Payments |-> "open"]
    /\ effect  = [p \in Payments |-> 0]

Settle(p) ==
    /\ ~closed[CheckoutOf[p]] /\ outcome[p] = "open"
    /\ owner'   = [owner EXCEPT ![CheckoutOf[p]] = p]
    /\ closed'  = [closed EXCEPT ![CheckoutOf[p]] = TRUE]
    /\ outcome' = [outcome EXCEPT ![p] = "settled"]
    /\ effect'  = [effect EXCEPT ![p] = 1]

Review(p) ==
    /\ closed[CheckoutOf[p]] /\ owner[CheckoutOf[p]] # p /\ outcome[p] = "open"
    /\ outcome' = [outcome EXCEPT ![p] = "review"]
    /\ UNCHANGED <<owner, closed, effect>>

(* Cancelled by newer drafts, or expired. *)
Close(C) ==
    /\ closed' = [c \in Checkouts |-> closed[c] \/ c \in C]
    /\ UNCHANGED <<owner, outcome, effect>>

Next ==
    \/ \E p \in Payments : Settle(p) \/ Review(p)
    \/ \E C \in SUBSET Checkouts : Close(C)

Spec == Init /\ [][Next]_vars

-----------------------------------------------------------------------------
(* One payment at most takes effect per checkout, the one that owns it, so *)
(* no checkout is paid for twice.                                          *)
OneEffectPerCheckout ==
    \A p, q \in Payments :
        CheckoutOf[p] = CheckoutOf[q] /\ effect[p] > 0 /\ effect[q] > 0 => p = q
=============================================================================
