----------------------------- MODULE Settlement -----------------------------
(***************************************************************************)
(* Cross-provider settlement of checkouts: how one CheckoutSession that    *)
(* may be paid through several independent providers ends up settled by    *)
(* exactly one Payment.                                                    *)
(*                                                                         *)
(* Every database statement that commits on its own is one action, and a   *)
(* $transaction is one action.  What a handler read before its first write *)
(* is kept in its process record, so that a row may change between the     *)
(* read and the write.                                                     *)
(*                                                                         *)
(*   Recorders   concurrent requests of apps/api (callbacks and IPNs)      *)
(*   Workers     update handlers of apps/bot (buttons, Stars, admins)      *)
(*   Sweep       the settlement sweep loop of apps/bot                     *)
(***************************************************************************)
EXTENDS Integers, FiniteSetsExt

CONSTANTS
    Checkouts, Payments, Users, Workers, Recorders,
    Sweep,          \* the one sweep loop, not an update handler
    NoPayment,      \* a NULL payment reference
    CheckoutOf,     \* Payment.checkoutSessionId
    Provider,       \* the method a payment row is for
    Buyer,          \* CheckoutSession.userId
    Draft,          \* user + product (or the user's top-up slot) of a checkout
    Purpose,        \* ORDER_PAYMENT or WALLET_CHARGE
    Price,          \* finalPriceToman, frozen at checkout creation
    Reserved,       \* checkouts whose snapshot names a username reservation
    Discounted,     \* checkouts with a discount code
    InfoRequired,   \* checkouts that need the customer information form
    Reports,        \* bound: the events the providers report
    DiscountLimit,  \* DiscountCode.totalUsageLimit (bound of the model: one code)
    MaxAttempts,    \* bound: provider invoices per payment row
    MaxCrashes      \* bound: crashes of the bot process

Online == {"ZARINPAL", "NOWPAYMENTS", "TELEGRAM_STARS"}
Live   == {"PENDING", "PROCESSING"}
Procs  == Workers \cup {Sweep}

ASSUME ConstantsAssumption ==
    /\ NoPayment \notin Payments
    /\ Sweep \notin Workers
    /\ CheckoutOf \in [Payments -> Checkouts]
    /\ Provider \in [Payments -> Online \cup {"CARD", "WALLET"}]
    /\ Buyer \in [Checkouts -> Users]
    /\ Purpose \in [Checkouts -> {"ORDER_PAYMENT", "WALLET_CHARGE"}]
    /\ Price \in [Checkouts -> Nat \ {0}]
    /\ Reserved \subseteq {c \in Checkouts : Purpose[c] = "ORDER_PAYMENT"}
    /\ Discounted \subseteq {c \in Checkouts : Purpose[c] = "ORDER_PAYMENT"}
    /\ InfoRequired \subseteq {c \in Checkouts : Purpose[c] = "ORDER_PAYMENT"} \ Reserved
    /\ DiscountLimit \in Nat
    /\ MaxAttempts \in Nat
    /\ MaxCrashes \in Nat

(* A table has finitely many rows. *)
ASSUME PaymentsAssumption == IsFiniteSet(Payments)

VARIABLES
    clock,        \* per checkout: 0 live, 1 past expiresAt, 2 past the 30 minute grace too
    checkout,     \* CheckoutSession rows
    payment,      \* Payment rows
    order,        \* the payment that created the checkout's Order, or NoPayment
    balance,      \* User.balanceToman
    ledger,       \* number of WalletTransaction rows that name the payment
    review,       \* the FinancialReconciliationCase of the payment
    reservation,  \* the username reservation of the checkout
    info,         \* checkouts whose customer information was submitted
    redeemed,     \* checkouts with a DiscountCodeUsage row
    flagged,      \* checkouts whose Order carries the over-claimed discount note
    issued,       \* external: invoices the provider has issued for the payment
    collected,    \* external: the invoices the buyer has paid at the provider
    request,      \* process records of the API
    task,         \* process records of the bot
    batch,        \* payments the running sweep still has to settle
    crashes

rows     == <<checkout, payment, order, balance, ledger, review, reservation, redeemed, flagged>>
external == <<clock, info, issued, collected>>
vars     == <<rows, external, request, task, batch, crashes>>

CheckoutStatuses == {"NONE", "PENDING", "PAID", "CANCELLED", "EXPIRED"}
PaymentStatuses  == {"NONE", "PENDING", "PENDING_REVIEW", "PROCESSING", "APPROVED",
                     "REJECTED", "FAILED", "EXPIRED", "CANCELLED"}
Events           == {"SUCCESS", "PROCESSING", "FAILED", "EXPIRED", "CANCELLED"}
ProviderStatuses == {"NULL"} \cup Events
ReservationStatuses == {"NONE", "BOUND", "LINKED", "EXPIRED"}

NoRow  == [status |-> "NONE", providerStatus |-> "NULL", settlementStatus |-> "UNSETTLED",
           authority |-> 0, late |-> FALSE]
NoCase == [type |-> "NONE", primary |-> NoPayment, notified |-> FALSE]

IdleTask    == [pc |-> "idle", payment |-> NoPayment, seen |-> "NONE",
                owner |-> NoPayment, attempt |-> 0, late |-> FALSE]
IdleRequest == [pc |-> "idle", payment |-> NoPayment, event |-> "PROCESSING", late |-> FALSE]

TaskSteps == {"idle", "open", "create", "receipt", "verify", "record", "mark",
              "fail", "reread", "settle", "duplicate", "notify", "approve", "reject"}

PaymentRef    == Payments \cup {NoPayment}
CheckoutRow   == [status : CheckoutStatuses, owner : PaymentRef]
PaymentRow    == [status : PaymentStatuses, providerStatus : ProviderStatuses,
                  settlementStatus : {"UNSETTLED", "SETTLED", "DUPLICATE_SUCCESS_REVIEW"},
                  authority : 0 .. MaxAttempts, late : BOOLEAN]
CaseRow       == [type : {"NONE", "DUPLICATE_CHECKOUT_PAYMENT", "SERVICE_USERNAME_UNBOUND"},
                  primary : PaymentRef, notified : BOOLEAN]
(* A running request works on a payment; a running handler on a payment    *)
(* that is not a wallet's.  A recorded success moves no status.            *)
RequestRecord ==
    {q \in [pc : {"idle", "read", "write", "status"},
            payment : PaymentRef, event : Events, late : BOOLEAN] :
        /\ q.pc # "idle" => q.payment \in Payments
        /\ q.pc = "status" => q.event # "SUCCESS"}
TaskRecord ==
    {t \in [pc : TaskSteps, payment : PaymentRef, seen : CheckoutStatuses,
            owner : PaymentRef, attempt : 0 .. MaxAttempts, late : BOOLEAN] :
        t.pc # "idle" => t.payment \in Payments /\ Provider[t.payment] # "WALLET"}

Init ==
    /\ clock       = [c \in Checkouts |-> 0]
    /\ checkout    = [c \in Checkouts |-> [status |-> "NONE", owner |-> NoPayment]]
    /\ payment     = [p \in Payments |-> NoRow]
    /\ order       = [c \in Checkouts |-> NoPayment]
    /\ balance     = [u \in Users |-> 0]
    /\ ledger      = [p \in Payments |-> 0]
    /\ review      = [p \in Payments |-> NoCase]
    /\ reservation = [c \in Checkouts |-> "NONE"]
    /\ info        = {}
    /\ redeemed    = {}
    /\ flagged     = {}
    /\ issued      = [p \in Payments |-> 0]
    /\ collected   = [p \in Payments |-> {}]
    /\ request     = [r \in Recorders |-> IdleRequest]
    /\ task        = [w \in Procs |-> IdleTask]
    /\ batch       = {}
    /\ crashes     = 0

-----------------------------------------------------------------------------
(* Predicates the handlers share.                                          *)

Expired(c)      == clock[c] > 0
Payable(c)      == checkout[c].status = "PENDING" /\ ~Expired(c)
ClaimablePaid(c) == checkout[c].status \in {"PENDING", "PAID"}     \* mutant: no owner
Claimable(c)    == checkout[c].status = "PENDING" /\ checkout[c].owner = NoPayment
InfoComplete(c) == c \in InfoRequired => c \in info
PaymentsOf(c)   == {p \in Payments : CheckoutOf[p] = c}
AwaitingReview(c) == \E p \in PaymentsOf(c) : payment[p].status = "PENDING_REVIEW"
Idle(w)         == task[w].pc = "idle"

(* claimDiscountUsage: one usage row per checkout, re-validated under the  *)
(* row lock of the code against its total limit.                           *)
DiscountClaimableUnlocked(c) == TRUE                              \* mutant
DiscountClaimable(c) ==
    c \in Discounted => c \in redeemed \/ Cardinality(redeemed) < DiscountLimit

(* attachReservationToOrder matches only a BOUND row, or one this order    *)
(* already holds; a checkout without a reservation has nothing to bind.    *)
BindableIfAny(c) == c \in Reserved => reservation[c] # "NONE"      \* mutant
Bindable(c) == c \in Reserved => reservation[c] \in {"BOUND", "LINKED"}

(* SQL: NOT (providerStatus = 'SUCCESS') is not true of a NULL.            *)
Revivable(p) ==
    /\ payment[p].status \in {"FAILED", "CANCELLED", "EXPIRED"}
    /\ payment[p].providerStatus \notin {"SUCCESS", "NULL"}

Settleable(p) ==
    \/ payment[p].status \in Live \cup {"PENDING_REVIEW", "APPROVED"}
    \/ payment[p].providerStatus = "SUCCESS" /\ payment[p].settlementStatus # "SETTLED"
    \/ payment[p].settlementStatus = "DUPLICATE_SUCCESS_REVIEW"

Goto(w, t)  == task' = [task EXCEPT ![w] = t]
Finish(w)   == Goto(w, IdleTask)
Step(w, pc) == task' = [task EXCEPT ![w].pc = pc]
Start(w, pc, p) == Goto(w, [IdleTask EXCEPT !.pc = pc, !.payment = p])

-----------------------------------------------------------------------------
(* Checkouts: creation, supersession, expiry.                              *)

Supersede(c, doomed) ==
    /\ checkout[c].status = "NONE"
    /\ checkout' = [d \in Checkouts |->
           IF d = c THEN [checkout[d] EXCEPT !.status = "PENDING"]
           ELSE IF d \in doomed THEN [checkout[d] EXCEPT !.status = "CANCELLED"]
           ELSE checkout[d]]

SameDraft(c) == {d \in Checkouts \ {c} : Draft[d] = Draft[c] /\ checkout[d].status = "PENDING"}

(* A fresh checkout cancels every older PENDING one of the draft; a        *)
(* service checkout claims its held username in the same transaction.      *)
CreateCheckout(c) ==
    /\ Supersede(c, SameDraft(c))
    /\ reservation' = [reservation EXCEPT ![c] = IF c \in Reserved THEN "BOUND" ELSE "NONE"]
    /\ UNCHANGED <<payment, order, balance, ledger, review, redeemed, flagged,
                   external, request, task, batch, crashes>>

(* The wallet path of a manually fulfilled product spares a checkout whose *)
(* payment may still settle.                                               *)
MaterializeCheckout(c) ==
    /\ Purpose[c] = "ORDER_PAYMENT" /\ c \notin Reserved
    /\ Supersede(c, {d \in SameDraft(c) :
           \A p \in PaymentsOf(d) : payment[p].status \notin Live \cup {"PENDING_REVIEW"}})
    /\ UNCHANGED <<payment, order, balance, ledger, review, reservation, redeemed, flagged,
                   external, request, task, batch, crashes>>

Tick(c) ==
    /\ checkout[c].status # "NONE" /\ clock[c] < 2
    /\ clock' = [clock EXCEPT ![c] = @ + 1]
    /\ UNCHANGED <<rows, info, issued, collected, request, task, batch, crashes>>

SubmitCustomerInfo(c) ==
    /\ c \in InfoRequired \ info /\ checkout[c].status # "NONE"
    /\ info' = info \cup {c}
    /\ UNCHANGED <<rows, clock, issued, collected, request, task, batch, crashes>>

(* expireDeadBound, one statement: the slot of a dead checkout is freed    *)
(* unless one of its payments can still settle or it has an order.         *)
UnusedByLive(c) ==                                                \* mutant: APPROVED forgotten
    \A p \in PaymentsOf(c) : payment[p].status \notin Live \cup {"PENDING_REVIEW"}
Unused(c) == order[c] = NoPayment /\ \A p \in PaymentsOf(c) : ~Settleable(p)

ExpireReservation(c) ==
    /\ reservation[c] \in {"BOUND", "LINKED"}
    /\ \/ checkout[c].status \in {"EXPIRED", "CANCELLED"}
       \/ checkout[c].status = "PENDING" /\ Expired(c)
    /\ Unused(c)
    /\ reservation' = [reservation EXCEPT ![c] = "EXPIRED"]
    /\ UNCHANGED <<checkout, payment, order, balance, ledger, review, redeemed, flagged,
                   external, request, task, batch, crashes>>

-----------------------------------------------------------------------------
(* Opening a gateway payment: handler guard, row, provider create.         *)

OpenPayment(w, p) ==
    LET c == CheckoutOf[p] IN
    /\ Idle(w) /\ Provider[p] \in Online
    /\ Payable(c) /\ InfoComplete(c)
    /\ ~(payment[p].status = "PENDING" /\ payment[p].authority # 0)   \* reused as it is
    /\ Start(w, "open", p)
    /\ UNCHANGED <<rows, external, request, batch, crashes>>

(* One row per checkout and gateway: inserted, found PENDING, or revived   *)
(* from a dead attempt.                                                    *)
LoadOrCreatePaymentRow(w) ==
    LET p == task[w].payment IN
    /\ task[w].pc = "open"
    /\ \/ /\ payment[p].status = "NONE" \/ Revivable(p)
          /\ payment' = [payment EXCEPT ![p].status = "PENDING",
                                        ![p].providerStatus = "NULL", ![p].authority = 0]
          /\ Step(w, "create")
       \/ /\ payment[p].status = "PENDING"
          /\ IF payment[p].authority = 0 THEN Step(w, "create") ELSE Finish(w)
          /\ UNCHANGED payment
       \/ /\ payment[p].status \notin {"NONE", "PENDING"} /\ ~Revivable(p)
          /\ Finish(w)
          /\ UNCHANGED payment
    /\ UNCHANGED <<checkout, order, balance, ledger, review, reservation, redeemed, flagged,
                   external, request, batch, crashes>>

(* The handle of a created invoice is stored unconditionally.              *)
ProviderCreates(w) ==
    LET p == task[w].payment IN
    /\ task[w].pc = "create" /\ issued[p] < MaxAttempts
    /\ issued'  = [issued EXCEPT ![p] = @ + 1]
    /\ payment' = [payment EXCEPT ![p].authority = issued[p] + 1]
    /\ Finish(w)
    /\ UNCHANGED <<checkout, order, balance, ledger, review, reservation, redeemed, flagged,
                   clock, info, collected, request, batch, crashes>>

ProviderCreateFails(w) ==
    LET p == task[w].payment IN
    /\ task[w].pc = "create"
    /\ payment' = [payment EXCEPT ![p].status = IF @ = "PENDING" THEN "FAILED" ELSE @]
    /\ Finish(w)
    /\ UNCHANGED <<checkout, order, balance, ledger, review, reservation, redeemed, flagged,
                   external, request, batch, crashes>>

(* The buyer pays an invoice.  Stars are vetoed by pre_checkout_query,     *)
(* the other providers ask nobody.                                         *)
Collect(p, k) ==
    /\ k \in (1 .. issued[p]) \ collected[p]
    /\ Provider[p] = "TELEGRAM_STARS" =>
           payment[p].status \in Live /\ ~Expired(CheckoutOf[p])
    /\ collected' = [collected EXCEPT ![p] = @ \cup {k}]
    /\ UNCHANGED <<rows, clock, info, issued, request, task, batch, crashes>>

-----------------------------------------------------------------------------
(* apps/api: a route finds the row, verifies what the provider reports and *)
(* records it with a read and two updates, without a transaction.          *)

(* What a provider may report of invoice k, delayed or repeated: Zarinpal  *)
(* is found by its authority, an IPN by the payment id unless it names     *)
(* another invoice than the stored one.                                    *)
Reported(p, k, e) ==
    /\ k \in 1 .. issued[p]
    /\ e = "SUCCESS" => k \in collected[p]
    /\ \/ Provider[p] = "ZARINPAL" /\ payment[p].authority = k
          /\ e \in {"SUCCESS", "FAILED", "CANCELLED"}
       \/ Provider[p] = "NOWPAYMENTS" /\ payment[p].authority \in {0, k}
          /\ e \in {"SUCCESS", "PROCESSING", "FAILED", "EXPIRED"}

Callback(r, p, k, e) ==
    /\ request[r].pc = "idle" /\ Reported(p, k, e)
    /\ request' = [request EXCEPT ![r] =
           [pc |-> "read", payment |-> p, event |-> e, late |-> FALSE]]
    /\ UNCHANGED <<rows, external, task, batch, crashes>>

(* A row that has SUCCESS ignores any other event. *)
RecordRead(r) ==
    LET p == request[r].payment IN
    /\ request[r].pc = "read"
    /\ request' = [request EXCEPT ![r] =
           IF payment[p].providerStatus = "SUCCESS" /\ request[r].event # "SUCCESS"
           THEN IdleRequest
           ELSE [@ EXCEPT !.pc = "write", !.late = Expired(CheckoutOf[p])]]
    /\ UNCHANGED <<rows, external, task, batch, crashes>>

RecordWrite(r) ==
    LET p == request[r].payment IN
    /\ request[r].pc = "write"
    /\ payment' = [payment EXCEPT ![p].providerStatus = request[r].event]
    /\ request' = [request EXCEPT ![r] =
           IF request[r].late \/ request[r].event = "SUCCESS" THEN IdleRequest
           ELSE [@ EXCEPT !.pc = "status"]]
    /\ UNCHANGED <<checkout, order, balance, ledger, review, reservation, redeemed, flagged,
                   external, task, batch, crashes>>

(* The status a recorded event moves a PENDING or PROCESSING row to has    *)
(* the name of the event.                                                  *)
RecordStatus(r) ==
    LET p == request[r].payment IN
    /\ request[r].pc = "status"
    /\ payment' = [payment EXCEPT ![p].status = IF @ \in Live THEN request[r].event ELSE @]
    /\ request' = [request EXCEPT ![r] = IdleRequest]
    /\ UNCHANGED <<checkout, order, balance, ledger, review, reservation, redeemed, flagged,
                   external, task, batch, crashes>>

-----------------------------------------------------------------------------
(* settleGatewayPayment, run by update handlers and by the sweep.          *)

Unsettled(p) == payment[p].status \in Live /\ payment[p].settlementStatus = "UNSETTLED"

ReadyOnAnyEvent(p) == Unsettled(p) /\ payment[p].providerStatus # "NULL"   \* mutant
Ready(p)      == Unsettled(p) /\ payment[p].providerStatus = "SUCCESS"
Verifiable(p) == /\ Unsettled(p) /\ payment[p].providerStatus # "SUCCESS"
                 /\ Provider[p] = "ZARINPAL" /\ payment[p].authority # 0

(* Everything else (settled, failed, filed, no event yet) is only reported. *)
SettleRead(w, p) ==
    \/ Ready(p) /\ Start(w, "settle", p)
    \/ Verifiable(p) /\ Goto(w, [IdleTask EXCEPT !.pc = "verify", !.payment = p,
                                                !.attempt = payment[p].authority])
    \/ ~Ready(p) /\ ~Verifiable(p) /\ Finish(w)

CheckPayment(w, p) ==
    /\ Idle(w) /\ Provider[p] \in Online
    /\ Ready(p) \/ Verifiable(p)
    /\ SettleRead(w, p)
    /\ UNCHANGED <<rows, external, request, batch, crashes>>

(* recordProviderSuccessFromBot reads the row first; the verify path goes  *)
(* on with the row it read before, a Stars update settles from a new read. *)
StartRecording(w, p) ==
    Goto(w, [IdleTask EXCEPT !.pc = "record", !.payment = p, !.late = Expired(CheckoutOf[p])])

AfterRecording(p) == IF Provider[p] = "TELEGRAM_STARS" THEN "reread" ELSE "settle"

(* Verify on demand: SUCCESS is recorded, a definite failure fails the     *)
(* row as it is by then, anything else leaves it pending.                  *)
VerifySucceeds(w) ==
    LET p == task[w].payment IN
    /\ task[w].pc = "verify" /\ task[w].attempt \in collected[p]
    /\ StartRecording(w, p)
    /\ UNCHANGED <<rows, external, request, batch, crashes>>

VerifyFails(w) ==
    /\ task[w].pc = "verify" /\ task[w].attempt \notin collected[task[w].payment]
    /\ Step(w, "fail")
    /\ UNCHANGED <<rows, external, request, batch, crashes>>

FailPayment(w) ==
    LET p == task[w].payment IN
    /\ task[w].pc = "fail"
    /\ payment' = [payment EXCEPT ![p].status = IF @ \in Live THEN "FAILED" ELSE @]
    /\ Finish(w)
    /\ UNCHANGED <<checkout, order, balance, ledger, review, reservation, redeemed, flagged,
                   external, request, batch, crashes>>

VerifyUncertain(w) ==
    /\ task[w].pc = "verify"
    /\ Finish(w)
    /\ UNCHANGED <<rows, external, request, batch, crashes>>

(* A Stars successful_payment update starts at the bot's own recorder.     *)
StarsPaid(w, p) ==
    /\ Idle(w) /\ Provider[p] = "TELEGRAM_STARS" /\ collected[p] # {}
    /\ StartRecording(w, p)
    /\ UNCHANGED <<rows, external, request, batch, crashes>>

BotRecordSuccess(w) ==
    LET p == task[w].payment IN
    /\ task[w].pc = "record"
    /\ payment' = [payment EXCEPT ![p].providerStatus = "SUCCESS"]
    /\ Step(w, IF task[w].late THEN AfterRecording(p) ELSE "mark")
    /\ UNCHANGED <<checkout, order, balance, ledger, review, reservation, redeemed, flagged,
                   external, request, batch, crashes>>

BotMarkProcessing(w) ==
    LET p == task[w].payment IN
    /\ task[w].pc = "mark"
    /\ payment' = [payment EXCEPT ![p].status = IF @ \in Live THEN "PROCESSING" ELSE @]
    /\ Step(w, AfterRecording(p))
    /\ UNCHANGED <<checkout, order, balance, ledger, review, reservation, redeemed, flagged,
                   external, request, batch, crashes>>

StarsSettle(w) ==
    /\ task[w].pc = "reread"
    /\ SettleRead(w, task[w].payment)
    /\ UNCHANGED <<rows, external, request, batch, crashes>>

(* What a settling transaction does besides claiming the checkout.         *)

Approved(p) == [payment[p] EXCEPT !.status = "APPROVED", !.settlementStatus = "SETTLED"]

(* A wallet charge is credited once per payment. *)
CreditWalletUnlogged(p) ==                                        \* mutant: a path without ledger
    LET u == Buyer[CheckoutOf[p]] IN
    /\ ledger'  = [ledger EXCEPT ![p] = IF Provider[p] = "CARD" THEN 0 ELSE 1]
    /\ balance' = [balance EXCEPT ![u] = @ + Price[CheckoutOf[p]]]

CreditWallet(p) ==
    LET u == Buyer[CheckoutOf[p]] IN
    IF ledger[p] = 0
    THEN /\ ledger'  = [ledger EXCEPT ![p] = 1]
         /\ balance' = [balance EXCEPT ![u] = @ + Price[CheckoutOf[p]]]
    ELSE UNCHANGED <<ledger, balance>>

(* One order per checkout, bound to its reservation when it is created.    *)
CreateOrder(p) ==
    LET c == CheckoutOf[p] IN
    /\ order' = [order EXCEPT ![c] = IF @ = NoPayment THEN p ELSE @]
    /\ reservation' = [reservation EXCEPT ![c] =
           IF order[c] = NoPayment /\ @ = "BOUND" THEN "LINKED" ELSE @]

RedeemDiscount(c) ==
    redeemed' = redeemed \cup (IF c \in Discounted /\ DiscountClaimable(c) THEN {c} ELSE {})

(* A gateway cannot give the money back: an order whose reservation cannot *)
(* be bound files a case, a discount that cannot be claimed flags it.      *)
GatewayOrder(p) ==
    LET c == CheckoutOf[p] IN
    /\ CreateOrder(p)
    /\ review' = [review EXCEPT ![p] =
           IF order[c] = NoPayment /\ ~Bindable(c) /\ @ = NoCase
           THEN [NoCase EXCEPT !.type = "SERVICE_USERNAME_UNBOUND"] ELSE @]
    /\ RedeemDiscount(c)
    /\ flagged' = IF DiscountClaimable(c) THEN flagged ELSE flagged \cup {c}
    /\ UNCHANGED <<balance, ledger>>

TopUp(p) ==
    /\ CreditWallet(p)
    /\ UNCHANGED <<order, reservation, review, redeemed, flagged>>

IsTopUp(p) == Purpose[CheckoutOf[p]] = "WALLET_CHARGE"

LosesUnread(p) == ~Claimable(CheckoutOf[p])                       \* mutant: own claim not re-read
Loses(p) == ~Claimable(CheckoutOf[p]) /\ checkout[CheckoutOf[p]].owner # p

(* The claim on the checkout decides; the payment flip decides between two *)
(* runs for the same payment.                                              *)
SettleCommit(w) ==
    LET p == task[w].payment
        c == CheckoutOf[p] IN
    /\ task[w].pc = "settle" /\ InfoComplete(c)
    /\ Claimable(c) \/ checkout[c].owner = p
    /\ payment[p].status \in Live
    /\ checkout' = [checkout EXCEPT ![c] =
           IF Claimable(c) THEN [status |-> "PAID", owner |-> p] ELSE @]
    /\ payment' = [payment EXCEPT ![p] = Approved(p)]
    /\ IF IsTopUp(p) THEN TopUp(p) ELSE GatewayOrder(p)
    /\ IF review'[p] # review[p] THEN Step(w, "notify") ELSE Finish(w)
    /\ UNCHANGED <<external, request, batch, crashes>>

(* The OWNER alert of a case just filed; a send that fails is left to the  *)
(* sweep.                                                                  *)
NotifyCase(w) ==
    /\ task[w].pc = "notify"
    /\ \E sent \in BOOLEAN : review' = [review EXCEPT ![task[w].payment].notified = @ \/ sent]
    /\ Finish(w)
    /\ UNCHANGED <<checkout, payment, order, balance, ledger, reservation, redeemed, flagged,
                   external, request, batch, crashes>>

(* Rolled back: information missing, or another run flipped the payment.   *)
SettleAbort(w) ==
    LET p == task[w].payment
        c == CheckoutOf[p] IN
    /\ task[w].pc = "settle"
    /\ \/ ~InfoComplete(c)
       \/ (Claimable(c) \/ checkout[c].owner = p) /\ payment[p].status \notin Live
    /\ Finish(w)
    /\ UNCHANGED <<rows, external, request, batch, crashes>>

SettleLost(w) ==
    LET p == task[w].payment
        c == CheckoutOf[p] IN
    /\ task[w].pc = "settle" /\ InfoComplete(c)
    /\ Loses(p)
    /\ task' = [task EXCEPT ![w].pc = "duplicate", ![w].owner = checkout[c].owner]
    /\ UNCHANGED <<rows, external, request, batch, crashes>>

(* recordDuplicateSuccess, a transaction of its own: marker and case.      *)
RecordDuplicateSuccess(w) ==
    LET p == task[w].payment IN
    /\ task[w].pc = "duplicate"
    /\ payment' = [payment EXCEPT ![p].settlementStatus =
           IF @ = "UNSETTLED" THEN "DUPLICATE_SUCCESS_REVIEW" ELSE @]
    /\ review' = [review EXCEPT ![p] =
           IF @ = NoCase
           THEN [NoCase EXCEPT !.type = "DUPLICATE_CHECKOUT_PAYMENT", !.primary = task[w].owner]
           ELSE @]
    /\ Finish(w)
    /\ UNCHANGED <<checkout, order, balance, ledger, reservation, redeemed, flagged,
                   external, request, batch, crashes>>

-----------------------------------------------------------------------------
(* Card receipts and their review.                                         *)

SubmitReceipt(w, p) ==
    LET c == CheckoutOf[p] IN
    /\ Idle(w) /\ Provider[p] = "CARD" /\ payment[p].status = "NONE"
    /\ \A v \in Workers : task[v].payment # p          \* a row of its own
    /\ Payable(c) /\ ~AwaitingReview(c)
    /\ Start(w, "receipt", p)
    /\ UNCHANGED <<rows, external, request, batch, crashes>>

InsertReceipt(w) ==
    LET p == task[w].payment IN
    /\ task[w].pc = "receipt" /\ payment[p].status = "NONE"
    /\ payment' = [payment EXCEPT ![p] =
           [NoRow EXCEPT !.status = "PENDING_REVIEW", !.late = Expired(CheckoutOf[p])]]
    /\ Finish(w)
    /\ UNCHANGED <<checkout, order, balance, ledger, review, reservation, redeemed, flagged,
                   external, request, batch, crashes>>

ApproveRead(w, p) ==
    LET c == CheckoutOf[p] IN
    /\ Idle(w) /\ payment[p].status = "PENDING_REVIEW" /\ ~payment[p].late
    /\ checkout[c].status = "PENDING" /\ InfoComplete(c)
    /\ Start(w, "approve", p)
    /\ UNCHANGED <<rows, external, request, batch, crashes>>

(* Nothing has been collected by a provider: any anomaly rolls back.       *)
ApproveCommit(w) ==
    LET p == task[w].payment
        c == CheckoutOf[p] IN
    /\ task[w].pc = "approve"
    /\ payment[p].status = "PENDING_REVIEW" /\ Claimable(c)
    /\ payment'  = [payment EXCEPT ![p] = Approved(p)]
    /\ checkout' = [checkout EXCEPT ![c] = [status |-> "PAID", owner |-> p]]
    /\ IF IsTopUp(p) THEN TopUp(p)
       ELSE /\ Bindable(c) /\ DiscountClaimable(c)
            /\ CreateOrder(p) /\ RedeemDiscount(c)
            /\ UNCHANGED <<balance, ledger, review, flagged>>
    /\ Finish(w)
    /\ UNCHANGED <<external, request, batch, crashes>>

ApproveAbort(w) ==
    LET p == task[w].payment
        c == CheckoutOf[p] IN
    /\ task[w].pc = "approve"
    /\ \/ payment[p].status # "PENDING_REVIEW" \/ ~Claimable(c)
       \/ ~IsTopUp(p) /\ ~(Bindable(c) /\ DiscountClaimable(c))
    /\ Finish(w)
    /\ UNCHANGED <<rows, external, request, batch, crashes>>

RejectRead(w, p) ==
    LET c == CheckoutOf[p] IN
    /\ Idle(w) /\ payment[p].status = "PENDING_REVIEW"
    /\ Goto(w, [IdleTask EXCEPT !.pc = "reject", !.payment = p,
                                !.seen = checkout[c].status, !.late = Expired(c)])
    /\ UNCHANGED <<rows, external, request, batch, crashes>>

(* The checkout is expired on what was read before the transaction.        *)
RejectCommit(w) ==
    LET p == task[w].payment
        c == CheckoutOf[p] IN
    /\ task[w].pc = "reject"
    /\ IF payment[p].status = "PENDING_REVIEW"
       THEN /\ payment'  = [payment EXCEPT ![p].status = "REJECTED"]
            /\ checkout' = [checkout EXCEPT ![c].status =
                   IF task[w].seen = "PENDING" /\ task[w].late THEN "EXPIRED" ELSE @]
       ELSE UNCHANGED <<payment, checkout>>
    /\ Finish(w)
    /\ UNCHANGED <<order, balance, ledger, review, reservation, redeemed, flagged,
                   external, request, batch, crashes>>

-----------------------------------------------------------------------------
(* The conditional decrement of the wallet. *)
Affordable(c) == balance[Buyer[c]] >= Price[c]

(* settleWalletOrder: one transaction, on a fresh checkout or on one the   *)
(* customer form was filled against.  The idempotency key of the intent is *)
(* the payment row: a replay finds it and changes nothing.                 *)
SettleWalletOrder(p) ==
    LET c == CheckoutOf[p]
        u == Buyer[c] IN
    /\ Provider[p] = "WALLET" /\ payment[p].status = "NONE" /\ ~IsTopUp(p)
    /\ \/ checkout[c].status = "NONE" /\ c \notin InfoRequired
       \/ Claimable(c) /\ ~Expired(c) /\ c \notin Reserved /\ InfoComplete(c)
    /\ Affordable(c) /\ DiscountClaimable(c)
    /\ checkout' = [checkout EXCEPT ![c] = [status |-> "PAID", owner |-> p]]
    /\ payment'  = [payment EXCEPT ![p] = Approved(p)]
    /\ order'    = [order EXCEPT ![c] = p]
    /\ balance'  = [balance EXCEPT ![u] = @ - Price[c]]
    /\ ledger'   = [ledger EXCEPT ![p] = 1]
    /\ reservation' = [reservation EXCEPT ![c] = IF c \in Reserved THEN "LINKED" ELSE @]
    /\ RedeemDiscount(c)
    /\ UNCHANGED <<review, flagged, external, request, task, batch, crashes>>

-----------------------------------------------------------------------------
(* The sweep loop: one batch of recorded successes, one by one, then the   *)
(* expiry of abandoned rows and the owed OWNER alerts.                     *)

SweptPending(p) == Provider[p] \in Online /\ Ready(p) /\ payment[p].status = "PENDING"  \* mutant
Swept(p) == Provider[p] \in Online /\ Ready(p)

SweepSelect ==
    /\ Idle(Sweep) /\ batch = {}
    /\ batch' = {p \in Payments : Swept(p)}
    /\ UNCHANGED <<rows, external, request, task, crashes>>

SweepNext(p) ==
    /\ Idle(Sweep) /\ p \in batch
    /\ batch' = batch \ {p}
    /\ SettleRead(Sweep, p)
    /\ UNCHANGED <<rows, external, request, crashes>>

SweepExpire ==
    LET stale == {p \in Payments : /\ Provider[p] \in Online
                                   /\ payment[p].status = "PENDING"
                                   /\ payment[p].providerStatus = "NULL"
                                   /\ clock[CheckoutOf[p]] = 2} IN
    /\ Idle(Sweep) /\ batch = {} /\ stale # {}
    /\ payment' = [p \in Payments |->
           IF p \in stale THEN [payment[p] EXCEPT !.status = "EXPIRED"] ELSE payment[p]]
    /\ UNCHANGED <<checkout, order, balance, ledger, review, reservation, redeemed, flagged,
                   external, request, task, batch, crashes>>

(* A send that fails leaves the case unnotified for the next sweep.        *)
AlertLiveOnly(p) ==                                               \* mutant
    ~Expired(CheckoutOf[p]) /\ review[p].type = "SERVICE_USERNAME_UNBOUND" /\ ~review[p].notified
AlertOwed(p) == review[p].type = "SERVICE_USERNAME_UNBOUND" /\ ~review[p].notified

SweepNotify(p) ==
    /\ Idle(Sweep) /\ batch = {} /\ AlertOwed(p)
    /\ review' = [review EXCEPT ![p].notified = TRUE]
    /\ UNCHANGED <<checkout, payment, order, balance, ledger, reservation, redeemed, flagged,
                   external, request, task, batch, crashes>>

-----------------------------------------------------------------------------
(* Crashes lose what a process had in memory, never a committed statement. *)

BotCrash ==
    /\ crashes < MaxCrashes
    /\ \E w \in Procs : ~Idle(w)
    /\ crashes' = crashes + 1
    /\ task'  = [w \in Procs |-> IdleTask]
    /\ batch' = {}
    /\ UNCHANGED <<rows, external, request>>

RequestDies(r) ==
    /\ crashes < MaxCrashes /\ request[r].pc # "idle"
    /\ crashes' = crashes + 1
    /\ request' = [request EXCEPT ![r] = IdleRequest]
    /\ UNCHANGED <<rows, external, task, batch>>

-----------------------------------------------------------------------------
BotStep(w) ==
    \/ LoadOrCreatePaymentRow(w) \/ ProviderCreates(w) \/ ProviderCreateFails(w)
    \/ VerifySucceeds(w) \/ VerifyFails(w) \/ FailPayment(w) \/ VerifyUncertain(w)
    \/ BotRecordSuccess(w) \/ BotMarkProcessing(w) \/ StarsSettle(w)
    \/ SettleCommit(w) \/ NotifyCase(w) \/ SettleAbort(w) \/ SettleLost(w) \/ RecordDuplicateSuccess(w)
    \/ InsertReceipt(w)
    \/ ApproveCommit(w) \/ ApproveAbort(w) \/ RejectCommit(w)

SweepStep == SweepSelect \/ SweepExpire \/ \E p \in Payments : SweepNext(p) \/ SweepNotify(p)

Next ==
    \/ \E c \in Checkouts : CreateCheckout(c) \/ MaterializeCheckout(c) \/ Tick(c)
                            \/ SubmitCustomerInfo(c) \/ ExpireReservation(c)
    \/ \E w \in Workers, p \in Payments :
           OpenPayment(w, p) \/ CheckPayment(w, p) \/ StarsPaid(w, p)
           \/ SubmitReceipt(w, p) \/ ApproveRead(w, p) \/ RejectRead(w, p)
    \/ \E p \in Payments : SettleWalletOrder(p)
    \/ \E p \in Payments, k \in 1 .. MaxAttempts : Collect(p, k)
    \/ \E r \in Recorders, p \in Payments, k \in 1 .. MaxAttempts, e \in Reports :
           Callback(r, p, k, e)
    \/ \E r \in Recorders : RecordRead(r) \/ RecordWrite(r) \/ RecordStatus(r) \/ RequestDies(r)
    \/ \E w \in Procs : BotStep(w)
    \/ SweepStep
    \/ BotCrash

Spec == Init /\ [][Next]_vars

(* The loop reschedules itself for ever and a handler that runs runs on;   *)
(* buyers, admins and providers owe nothing.                               *)
Fairness ==
    /\ WF_vars(SweepSelect \/ \E p \in Payments : SweepNext(p))
    /\ SF_vars(\E p \in Payments : SweepNotify(p))
    /\ \A w \in Procs : WF_vars(BotStep(w))
    /\ \A r \in Recorders : WF_vars(RecordRead(r) \/ RecordWrite(r) \/ RecordStatus(r))

FairSpec == Spec /\ Fairness


-----------------------------------------------------------------------------
(* Properties.                                                             *)

Owns(p)    == checkout[CheckoutOf[p]].owner = p
Settled(p) == payment[p].settlementStatus = "SETTLED"

(* Rows and process records have the shape the code gives them; no wallet  *)
(* is overdrawn and no payment moves wallet money twice.                   *)
TypeOK ==
    /\ clock \in [Checkouts -> 0 .. 2]
    /\ checkout \in [Checkouts -> CheckoutRow]
    /\ payment \in [Payments -> PaymentRow]
    /\ order \in [Checkouts -> PaymentRef]
    /\ balance \in [Users -> Nat]
    /\ ledger \in [Payments -> 0 .. 1]
    /\ review \in [Payments -> CaseRow]
    /\ reservation \in [Checkouts -> ReservationStatuses]
    /\ info \subseteq InfoRequired
    /\ redeemed \subseteq Discounted /\ flagged \subseteq Discounted
    /\ issued \in [Payments -> 0 .. MaxAttempts]
    /\ collected \in [Payments -> SUBSET (1 .. MaxAttempts)]
    /\ request \in [Recorders -> RequestRecord]
    /\ task \in [Procs -> TaskRecord]
    /\ batch \subseteq Payments
    /\ crashes \in 0 .. MaxCrashes

(* The claim of settleGatewayPayment, approveReceiptPayment and            *)
(* settleWalletOrder: a payment is APPROVED and SETTLED exactly when it    *)
(* owns its checkout, so that no interleaving of providers, reviews and    *)
(* wallet orders settles one checkout twice.                               *)
SettledByOwner ==
    \A p \in Payments :
        /\ Owns(p) <=> Settled(p)
        /\ Settled(p) <=> payment[p].status = "APPROVED"

(* "There is no observable state where the claim exists without its money  *)
(* move": the order of a checkout is its owner's, and wallet money moved   *)
(* for owners of top-ups and wallet orders, once, and for nobody else.     *)
MoneyFollowsOwner ==
    /\ \A c \in Checkouts :
           order[c] = IF Purpose[c] = "ORDER_PAYMENT" THEN checkout[c].owner ELSE NoPayment
    /\ \A p \in Payments :
           ledger[p] = 1 <=> Owns(p) /\ (IsTopUp(p) \/ Provider[p] = "WALLET")

(* A gateway payment settles, or is filed as a duplicate charge, only when *)
(* the provider holds the buyer's money, however requests, verifies and    *)
(* revived attempts interleave.                                            *)
CollectedBeforeSettled ==
    \A p \in Payments :
        Provider[p] \in Online /\ payment[p].settlementStatus # "UNSETTLED"
            => collected[p] # {}

(* recordDuplicateSuccess: the marker and the case go together, the case   *)
(* names the payment that settled the checkout (none when it was cancelled *)
(* or expired unsettled), and an owner is never filed as its own duplicate.*)
ReviewOfLosers ==
    \A p \in Payments :
        /\ payment[p].settlementStatus = "DUPLICATE_SUCCESS_REVIEW"
               <=> review[p].type = "DUPLICATE_CHECKOUT_PAYMENT"
        /\ review[p].type = "DUPLICATE_CHECKOUT_PAYMENT"
               => ~Owns(p) /\ review[p].primary = checkout[CheckoutOf[p]].owner
        /\ review[p].type = "SERVICE_USERNAME_UNBOUND" => Owns(p)

(* bindSettledReservationFromSnapshot: an order whose buyer reserved a     *)
(* username holds that reservation, or its settlement filed the case that  *)
(* keeps it from being provisioned.                                        *)
UnboundHeld ==
    \A c \in Reserved :
        order[c] # NoPayment =>
            reservation[c] = "LINKED" \/ review[order[c]].type = "SERVICE_USERNAME_UNBOUND"

(* claimDiscountUsage: the code is never used beyond its limit, and every  *)
(* discounted order either counts as a use or, paid at a gateway, carries  *)
(* the note for manual review.                                             *)
DiscountAccounted ==
    /\ Cardinality(redeemed) <= DiscountLimit
    /\ \A c \in Discounted :
           /\ order[c] # NoPayment => (c \in redeemed <=> c \notin flagged)
           /\ c \in flagged => Provider[order[c]] \in Online
           /\ c \in redeemed => order[c] # NoPayment

(* Wallet transactions explain every balance: top-ups minus wallet orders. *)
Moved ==
    [p \in Payments |->
        ledger[p] * (IF IsTopUp(p) THEN Price[CheckoutOf[p]] ELSE -Price[CheckoutOf[p]])]
LedgerExplainsBalance ==
    \A u \in Users :
        balance[u] = SumFunctionOnSet(Moved, {p \in Payments : Buyer[CheckoutOf[p]] = u})

(* An owner, a settlement outcome and a filed case are final.              *)
DecisionsAreFinal ==
    [][/\ \A c \in Checkouts :
              checkout[c].owner # NoPayment => checkout'[c].owner = checkout[c].owner
       /\ \A p \in Payments :
              /\ payment[p].settlementStatus # "UNSETTLED" =>
                     payment'[p].settlementStatus = payment[p].settlementStatus
              /\ review[p].type # "NONE" => review'[p].type = review[p].type]_vars

(* cleanup.ts, the sweep of dead reservations: "a successfully settling    *)
(* reservation can never become EXPIRED".                                  *)
LinkedIsKept ==
    [][\A c \in Checkouts : reservation[c] = "LINKED" => reservation'[c] = "LINKED"]_vars

(* Somebody may still write a status or an event it decided on before the  *)
(* success was recorded: a request past its read, a verify of an invoice   *)
(* that was unpaid, an invoice being created or still to be created.       *)
Contested(p) ==
    \/ \E r \in Recorders :
           /\ request[r].payment = p /\ request[r].event # "SUCCESS"
           /\ request[r].pc \in {"write", "status"}
    \/ \E w \in Procs :
           /\ task[w].payment = p
           /\ \/ task[w].pc \in {"create", "fail"}
              \/ task[w].pc = "verify" /\ task[w].attempt \notin collected[p]
    \/ payment[p].authority = 0

(* The first sweep pass: a recorded success that nothing settled, because  *)
(* the bot was down or the button was never pressed, settles or is filed,  *)
(* unless the row was contested when the success was recorded.             *)
SuccessAccounted ==
    \A p \in Payments :
        Provider[p] \in Online /\ Ready(p) /\ InfoComplete(CheckoutOf[p]) /\ ~Contested(p)
            ~> payment[p].settlementStatus # "UNSETTLED"

(* sweepUnnotifiedServiceUnboundCases: the OWNER hears of every paid order *)
(* that is held for its username, whatever crash or failed send came first.*)
AlertSent ==
    \A p \in Payments : review[p].type = "SERVICE_USERNAME_UNBOUND" ~> review[p].notified

(* The detailed system implements the abstract claim.                      *)
Outcome(p) == CASE payment[p].settlementStatus = "UNSETTLED" -> "open"
                [] payment[p].settlementStatus = "SETTLED"   -> "settled"
                [] OTHER                                     -> "review"
Effect(p)  == IF IsTopUp(p) THEN ledger[p]
              ELSE IF order[CheckoutOf[p]] = p THEN 1 ELSE 0

Claim == INSTANCE CheckoutClaim WITH
             owner   <- [c \in Checkouts |-> checkout[c].owner],
             closed  <- [c \in Checkouts |-> checkout[c].status \notin {"NONE", "PENDING"}],
             outcome <- [p \in Payments |-> Outcome(p)],
             effect  <- [p \in Payments |-> Effect(p)]

(* Every step of requests, handlers, reviews, wallet orders and sweeps is  *)
(* a claim with its money move, a filing for review, a closing, or nothing.*)
ImplementsClaim == Claim!Spec

-----------------------------------------------------------------------------
(* What the documents say and the code does not keep.                      *)

(* "providerStatus = SUCCESS is never downgraded"                          *)
(* (docs/cross-provider-checkout-settlement.md): recordProviderOutcome     *)
(* decides on a row it read before it writes.                              *)
SuccessNeverDowngraded ==
    [][\A p \in Payments :
           payment[p].providerStatus = "SUCCESS" => payment'[p].providerStatus = "SUCCESS"]_vars

(* "providerStatus=SUCCESS with status=PENDING/PROCESSING means verified,  *)
(* not yet settled - the sweep or the user's check button finishes the     *)
(* job" (docs/payment-lifecycle.md): not when the row was contested.       *)
VerifiedIsSettled ==
    \A p \in Payments :
        Provider[p] \in Online /\ Ready(p) /\ InfoComplete(CheckoutOf[p])
            ~> payment[p].settlementStatus # "UNSETTLED"

(* "Provider create fails: payment FAILED immediately; the row is revived  *)
(* to PENDING on the user's next attempt" (docs/payment-lifecycle.md): the *)
(* attempt of loadOrCreatePaymentRow that finds the row with no invoice    *)
(* leaves it PENDING.                                                      *)
CreateFailureRevived ==
    [][\A w \in Workers :
           LET p == task[w].payment IN
           task[w].pc = "open" /\ LoadOrCreatePaymentRow(w)
               /\ payment[p].status = "FAILED" /\ issued[p] = 0
           => payment'[p].status = "PENDING"]_vars

(* A checkout that a payment settled stays PAID: on rejection "the         *)
(* checkout stays PENDING while unexpired; an already-expired one is       *)
(* flipped to EXPIRED" (docs/receipt-review-phase8.md) is said of the      *)
(* unsettled checkout rejectReceiptPayment read before its transaction.    *)
OwnedIsPaid ==
    \A c \in Checkouts : checkout[c].owner # NoPayment => checkout[c].status = "PAID"

(* "NEVER supersede a checkout that still has a payment awaiting           *)
(* settlement: a card receipt in review" (wallet-payment.service.ts): said *)
(* of both places that supersede; createCheckoutSession cancels regardless.*)
ReceiptKeepsCheckout ==
    [][\A c \in Checkouts :
           AwaitingReview(c) /\ checkout[c].status = "PENDING"
               => checkout'[c].status # "CANCELLED"]_vars

=============================================================================
