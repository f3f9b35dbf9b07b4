---------------------------- MODULE MCSettlement ----------------------------
(***************************************************************************)
(* Instances of Settlement for TLC.  A payment is named by its method and  *)
(* its checkout: zarinpal, nowpayments, stars, card and wallet pay the     *)
(* order checkout; topup pays a wallet charge of the same user.            *)
(***************************************************************************)
EXTENDS Settlement

CONSTANTS order1, order2, charge,                  \* checkouts
          zarinpal, nowpayments, stars, card, wallet, wallet2, topup, topupCard,
          buyer

MCCheckoutOf ==
    [p \in Payments |-> IF p \in {topup, topupCard} THEN charge
                        ELSE IF p = wallet2 THEN order2 ELSE order1]
MCProvider ==
    [p \in Payments |-> CASE p = zarinpal            -> "ZARINPAL"
                          [] p \in {nowpayments, topup} -> "NOWPAYMENTS"
                          [] p = stars                -> "TELEGRAM_STARS"
                          [] p \in {card, topupCard}  -> "CARD"
                          [] p \in {wallet, wallet2}  -> "WALLET"]
MCBuyer   == [c \in Checkouts |-> buyer]
MCPurpose == [c \in Checkouts |-> IF c = charge THEN "WALLET_CHARGE" ELSE "ORDER_PAYMENT"]
MCPrice   == [c \in Checkouts |-> 1]
(* The two order checkouts are drafts of the same product. *)
MCDraft   == [c \in Checkouts |-> Purpose[c]]
=============================================================================
