------------------------- MODULE StarsSubscription -------------------------
(***************************************************************************)
(* One Telegram Stars subscription.  Telegram takes the price of each      *)
(* cycle by itself and tells the bot in an update that may be lost; the    *)
(* bot turns each charge into one payment and one renewal order, executes  *)
(* the order, and returns the Stars of a charge whose order failed.        *)
(*                                                                         *)
(* The bot handles one update at a time (Updates) and runs the jobs of the *)
(* execute queue (Consumers); the worker scans the transactions and the    *)
(* rows, and puts what is lost or stuck into that queue.                   *)
(***************************************************************************)
EXTENDS Integers, FiniteSets

CONSTANTS
    MaxCharge,     \* bound: cycles Telegram bills
    Updates,       \* the update handler of the bot
    Consumers,     \* slots of the execute consumer (its concurrency)
    RefundLimit,   \* refundMaxAttempts
    MaxMoves,      \* bound: buttons and subscription updates
    MaxFaults      \* bound: throwing statements, failing Telegram calls, crashes

Charges == 1 .. MaxCharge
Procs   == Consumers \cup {Updates}
NoCharge == 0

ASSUME StarsAssumption ==
    /\ MaxCharge \in Nat /\ Updates \notin Consumers
    /\ RefundLimit \in Nat \ {0} /\ MaxMoves \in Nat
    /\ MaxFaults \in Nat

VARIABLES
    sub,        \* TelegramStarsServiceSubscription: status, currentPeriodEndsAt (as
                \* the cycle that ends then), initialTelegramPaymentChargeId
    charge,     \* TelegramStarsSubscriptionCharge: status, refundAttempts,
                \* isFirstRecurring
    order,      \* Order.status of the charge, "NONE" before the chain exists
    task,       \* the settlement, refund or button of each process
    jobs,       \* waiting jobs of stars-subscription-execute
    failed,     \* charges whose settle job failed and is kept for a day
    scan,       \* runStarsPastDueDetection between its reads and its write
    taken,      \* external: cycles Telegram took the price of
    billing,    \* external: Telegram will take the next one
    updates,    \* external: successful_payment updates on their way
    returned,   \* external: charges whose Stars are back with the buyer
    chains,     \* ghost: payments and orders made per charge
    called,     \* ghost: charges refundStarPayment returned
    moves, faults

rows     == <<sub, charge, order>>
queue    == <<jobs, failed>>
telegram == <<taken, billing, updates, returned>>
ghosts   == <<chains, called>>
bounds   == <<moves, faults>>
vars     == <<rows, task, queue, scan, telegram, ghosts, bounds>>

SubStatuses    == {"PENDING_PAYMENT", "ACTIVE", "PAST_DUE", "CANCEL_AT_PERIOD_END",
                   "REACTIVATION_ALLOWED", "REQUIRES_ACTION"}
ChargeStatuses == {"NONE", "RECEIVED", "SETTLING", "FULFILLING", "COMPLETED", "REFUND_PENDING",
                   "REFUNDED", "RECONCILIATION_REQUIRED"}
OrderStatuses  == {"NONE", "PAID", "PROVISIONING", "COMPLETED", "FAILED"}
Kinds          == {"settle", "reconcile", "refund"}
Steps == {"idle", "create", "claim", "chain", "chainFailed", "dispatch", "panel", "write",
          "activate", "refund", "call", "count", "confirm", "stop", "require",
          "reconcile", "reset", "cancelled", "reactivate", "reactivated"}

IdleTask == [pc |-> "idle", charge |-> NoCharge, kind |-> "settle", isFirst |-> FALSE,
             again |-> FALSE, to |-> "COMPLETED", attempts |-> 0, first |-> NoCharge]

Init ==
    /\ sub      = [status |-> "PENDING_PAYMENT", ends |-> NoCharge, first |-> NoCharge]
    /\ charge   = [c \in Charges |-> [status |-> "NONE", attempts |-> 0, isFirst |-> FALSE]]
    /\ order    = [c \in Charges |-> "NONE"]
    /\ task     = [w \in Procs |-> IdleTask]
    /\ jobs     = {}
    /\ failed   = {}
    /\ scan     = [pc |-> "idle", ends |-> NoCharge]
    /\ taken    = 0
    /\ billing  = TRUE
    /\ updates  = {}
    /\ returned = {}
    /\ chains   = [c \in Charges |-> 0]
    /\ called   = {}
    /\ moves    = 0
    /\ faults   = 0

-----------------------------------------------------------------------------
At(w, pc)   == task[w].pc = pc
ChargeOf(w) == task[w].charge
Goto(w, pc) == task' = [task EXCEPT ![w].pc = pc]
Hold(w, pc) == task' = [task EXCEPT ![w] = [IdleTask EXCEPT !.pc = pc, !.charge = task[w].charge,
                                                           !.kind = task[w].kind,
                                                           !.isFirst = task[w].isFirst,
                                                           !.again = task[w].again]]
Leave(w)    == task' = [task EXCEPT ![w] = IdleTask]
Status(c)   == charge[c].status
HasOrder(c) == order[c] # "NONE"

SetCharge(c, from, to) ==
    charge' = [charge EXCEPT ![c].status = IF @ \in from THEN to ELSE @]
SetSub(from, to) == sub' = [sub EXCEPT !.status = IF @ \in from THEN to ELSE @]
SetCharges(set, to) ==
    charge' = [c \in Charges |-> IF c \in set THEN [charge[c] EXCEPT !.status = to] ELSE charge[c]]

(* A move of the user or of Telegram on the subscription.                  *)
Moves == moves < MaxMoves /\ moves' = moves + 1

(* Something that may go wrong, a bounded number of times.                 *)
Fails == faults < MaxFaults /\ faults' = faults + 1

-----------------------------------------------------------------------------
(* settleTelegramStarsSubscriptionCharge.                                  *)

(* The row of the charge is created, or the existing one is read.  A       *)
(* resolved charge is left, one with an order resumes its fulfilment.      *)
CreateCharge(w) ==
    LET c == ChargeOf(w) IN
    /\ At(w, "create")
    /\ IF Status(c) # "NONE" THEN UNCHANGED charge
       ELSE charge' = [charge EXCEPT ![c].status = "RECEIVED", ![c].isFirst = task[w].isFirst]
    /\ CASE Status(c) = "REFUND_PENDING" -> Hold(w, "refund")
         [] Status(c) \in {"COMPLETED", "REFUNDED", "RECONCILIATION_REQUIRED"} -> Leave(w)
         [] OTHER -> (IF HasOrder(c) THEN Hold(w, "dispatch") ELSE Goto(w, "claim"))
    /\ UNCHANGED <<sub, order, queue, scan, telegram, ghosts, bounds>>

ClaimCharge(w) ==
    LET c == ChargeOf(w) IN
    /\ At(w, "claim")
    /\ SetCharge(c, {"RECEIVED"}, "SETTLING")
    /\ IF Status(c) = "RECEIVED" THEN Goto(w, "chain") ELSE Leave(w)
    /\ UNCHANGED <<sub, order, queue, scan, telegram, ghosts, bounds>>

ChainWithoutKey(w) ==   \* mutant: the payment has no unique key
    LET c == ChargeOf(w) IN
    /\ At(w, "chain")
    /\ order'  = [order EXCEPT ![c] = "PAID"]
    /\ chains' = [chains EXCEPT ![c] = @ + 1]
    /\ SetCharge(c, ChargeStatuses, "FULFILLING")
    /\ sub' = [sub EXCEPT !.ends = c, !.first = IF task[w].isFirst THEN c ELSE @]
    /\ Hold(w, "dispatch")
    /\ UNCHANGED <<queue, scan, telegram, called, bounds>>

(* Checkout, payment and order in one transaction, which also writes the   *)
(* charge by its id and the period of the subscription.  The payment's     *)
(* unique key makes a second one fail without a trace.                     *)
CreateChain(w) ==
    LET c == ChargeOf(w) IN
    /\ At(w, "chain")
    /\ IF HasOrder(c) THEN Leave(w) /\ UNCHANGED <<rows, chains>>
       ELSE /\ order'  = [order EXCEPT ![c] = "PAID"]
            /\ chains' = [chains EXCEPT ![c] = @ + 1]
            /\ SetCharge(c, ChargeStatuses, "FULFILLING")
            /\ sub' = [sub EXCEPT !.ends = c, !.first = IF task[w].isFirst THEN c ELSE @]
            /\ Hold(w, "dispatch")
    /\ UNCHANGED <<queue, scan, telegram, called, bounds>>

ChainThrows(w) ==
    /\ At(w, "chain") /\ Fails
    /\ Hold(w, "chainFailed")
    /\ UNCHANGED <<rows, queue, scan, telegram, ghosts, moves>>

SettleFails(w) ==
    /\ At(w, "chainFailed")
    /\ SetCharge(ChargeOf(w), {"SETTLING"}, "RECONCILIATION_REQUIRED")
    /\ Leave(w)
    /\ UNCHANGED <<sub, order, queue, scan, telegram, ghosts, bounds>>

-----------------------------------------------------------------------------
(* finishAfterOrder.                                                       *)

Write(w, to) == task' = [task EXCEPT ![w].pc = "write", ![w].to = to]

(* dispatchPaidOrderFulfillment up to the panel.  A contended lock and an  *)
(* order that another dispatcher executes or failed answer like an unknown *)
(* outcome; a dead end fails the order.                                    *)
Dispatch(w) ==
    LET c == ChargeOf(w) IN
    /\ At(w, "dispatch")
    /\ \/ order[c] = "PAID" /\ order' = [order EXCEPT ![c] = "PROVISIONING"] /\ Goto(w, "panel")
       \/ order[c] = "PAID" /\ order' = [order EXCEPT ![c] = "FAILED"] /\ Write(w, "REFUND_PENDING")
       \/ order[c] = "COMPLETED" /\ UNCHANGED order /\ Write(w, "COMPLETED")
       \/ UNCHANGED order /\ Write(w, "RECONCILIATION_REQUIRED")
    /\ UNCHANGED <<sub, charge, queue, scan, telegram, ghosts, bounds>>

UnansweredRefunds(w) ==   \* mutant: no answer of the panel counts as a failure
    LET c == ChargeOf(w) IN
    /\ At(w, "panel")
    /\ \/ order' = [order EXCEPT ![c] = "COMPLETED"] /\ Write(w, "COMPLETED")
       \/ order' = [order EXCEPT ![c] = "FAILED"] /\ Write(w, "REFUND_PENDING")
       \/ UNCHANGED order /\ Write(w, "REFUND_PENDING")
    /\ UNCHANGED <<sub, charge, queue, scan, telegram, ghosts, bounds>>

(* The panel renews, refuses, or leaves the bot without an answer.         *)
Panel(w) ==
    LET c == ChargeOf(w) IN
    /\ At(w, "panel")
    /\ \/ order' = [order EXCEPT ![c] = "COMPLETED"] /\ Write(w, "COMPLETED")
       \/ order' = [order EXCEPT ![c] = "FAILED"] /\ Write(w, "REFUND_PENDING")
       \/ UNCHANGED order /\ Write(w, "RECONCILIATION_REQUIRED")
    /\ UNCHANGED <<sub, charge, queue, scan, telegram, ghosts, bounds>>

(* The outcome is written by the id of the charge, whatever its status.    *)
WriteOutcome(w) ==
    LET c == ChargeOf(w)  to == task[w].to IN
    /\ At(w, "write")
    /\ SetCharge(c, ChargeStatuses, to)
    /\ CASE to = "COMPLETED"      -> Hold(w, "activate")
         [] to = "REFUND_PENDING" -> Hold(w, "refund")
         [] OTHER                 -> Leave(w)
    /\ UNCHANGED <<sub, order, queue, scan, telegram, ghosts, bounds>>

Activate(w) ==
    /\ At(w, "activate")
    /\ SetSub({"PENDING_PAYMENT", "ACTIVE", "PAST_DUE", "REACTIVATION_ALLOWED"}, "ACTIVE")
    /\ Leave(w)
    /\ UNCHANGED <<charge, order, queue, scan, telegram, ghosts, bounds>>

(* Startup recovery settles an order left PROVISIONING, under the lock its *)
(* executor holds during the panel call.  The charge is not told.          *)
RecoverOrder(c) ==
    /\ order[c] = "PROVISIONING"
    /\ \A w \in Procs : ~(At(w, "panel") /\ ChargeOf(w) = c)
    /\ \E s \in {"COMPLETED", "FAILED"} : order' = [order EXCEPT ![c] = s]
    /\ UNCHANGED <<sub, charge, task, queue, scan, telegram, ghosts, bounds>>

-----------------------------------------------------------------------------
(* refundStarsSubscriptionCharge.                                          *)

ReadRefund(w) ==
    LET c == ChargeOf(w) IN
    /\ At(w, "refund")
    /\ IF Status(c) # "REFUND_PENDING" THEN Leave(w)
       ELSE task' = [task EXCEPT ![w].pc = "call", ![w].attempts = charge[c].attempts,
                                 ![w].first = sub.first]
    /\ UNCHANGED <<rows, queue, scan, telegram, ghosts, bounds>>

(* Telegram returns a charge once and rejects every later call.            *)
CallRefund(w) ==
    LET c == ChargeOf(w) IN
    /\ At(w, "call")
    /\ \/ /\ c \notin returned /\ returned' = returned \cup {c} /\ called' = called \cup {c}
          /\ \/ Goto(w, "confirm") /\ UNCHANGED faults
             \/ Goto(w, "count") /\ Fails                  \* the answer is lost
       \/ c \in returned /\ Goto(w, "count") /\ UNCHANGED <<returned, called, faults>>
       \/ c \notin returned /\ Goto(w, "count") /\ Fails /\ UNCHANGED <<returned, called>>
    /\ UNCHANGED <<rows, queue, scan, taken, billing, updates, chains, moves>>

CountFailure(w) ==
    LET c == ChargeOf(w) IN
    /\ At(w, "count")
    /\ charge' = [charge EXCEPT ![c].attempts =
                    IF Status(c) = "REFUND_PENDING" THEN task[w].attempts + 1 ELSE @]
    /\ Leave(w)
    /\ UNCHANGED <<sub, order, queue, scan, telegram, ghosts, bounds>>

ConfirmRefund(w) ==
    LET c == ChargeOf(w) IN
    /\ At(w, "confirm")
    /\ SetCharge(c, {"REFUND_PENDING"}, "REFUNDED")
    /\ IF Status(c) = "REFUND_PENDING" THEN Goto(w, "stop") ELSE Leave(w)
    /\ UNCHANGED <<sub, order, queue, scan, telegram, ghosts, bounds>>

(* editUserStarSubscription knows the subscription by its first charge; a  *)
(* call that fails is ignored here.                                        *)
StopBilling(w) ==
    /\ At(w, "stop")
    /\ Hold(w, "require")
    /\ \/ task[w].first = 1 /\ billing' = FALSE /\ UNCHANGED faults
       \/ UNCHANGED billing /\ IF task[w].first = 1 THEN Fails ELSE UNCHANGED faults
    /\ UNCHANGED <<rows, queue, scan, taken, updates, returned, ghosts, moves>>

RequireAction(w) ==
    /\ At(w, "require")
    /\ SetSub(SubStatuses, "REQUIRES_ACTION")
    /\ Leave(w)
    /\ UNCHANGED <<charge, order, queue, scan, telegram, ghosts, bounds>>

-----------------------------------------------------------------------------
(* reconcileStarsChargeById.                                               *)

ReadStuck(w) ==
    LET c == ChargeOf(w) IN
    /\ At(w, "reconcile")
    /\ CASE Status(c) \in {"COMPLETED", "REFUNDED"} -> Leave(w)
         [] Status(c) = "REFUND_PENDING" -> Goto(w, "refund")
         [] OTHER -> Goto(w, IF HasOrder(c) THEN "dispatch" ELSE "reset")
    /\ UNCHANGED <<rows, queue, scan, telegram, ghosts, bounds>>

ResetCharge(w) ==
    LET c == ChargeOf(w) IN
    /\ At(w, "reset")
    /\ SetCharge(c, IF HasOrder(c) THEN {} ELSE {"SETTLING", "RECONCILIATION_REQUIRED"}, "RECEIVED")
    /\ task' = [task EXCEPT ![w].pc = "create", ![w].isFirst = charge[c].isFirst]
    /\ UNCHANGED <<sub, order, queue, scan, telegram, ghosts, bounds>>

-----------------------------------------------------------------------------
(* The execute queue: a job id is not added while one of it waits or runs, *)
(* nor a settle job beside the failed one of the charge.                   *)

Queued(kind, c) ==
    \/ \E j \in jobs : j.kind = kind /\ j.charge = c
    \/ \E w \in Consumers : ~At(w, "idle") /\ task[w].kind = kind /\ ChargeOf(w) = c
Enqueue(kind, c, isFirst) ==
    /\ ~Queued(kind, c) /\ ~(kind = "settle" /\ c \in failed)
    /\ jobs' = jobs \cup {[kind |-> kind, charge |-> c, isFirst |-> isFirst, again |-> FALSE]}
    /\ UNCHANGED <<failed, rows, task, scan, telegram, ghosts, bounds>>

FirstStep(kind) == CASE kind = "settle"    -> "create"
                     [] kind = "reconcile" -> "reconcile"
                     [] kind = "refund"    -> "refund"

Begin(w, kind, c, isFirst, again) ==
    task' = [task EXCEPT ![w] = [IdleTask EXCEPT !.pc = FirstStep(kind), !.charge = c,
                                                !.kind = kind, !.isFirst = isFirst, !.again = again]]

StartJob(w, j) ==
    /\ w \in Consumers /\ At(w, "idle") /\ j \in jobs
    /\ jobs' = jobs \ {j}
    /\ Begin(w, j.kind, j.charge, j.isFirst, j.again)
    /\ UNCHANGED <<failed, rows, scan, telegram, ghosts, bounds>>

-----------------------------------------------------------------------------
(* The scans of the worker.                                                *)

(* tryRecoverPayment.                                                      *)
RecoverPayment(c) ==
    /\ c <= taken /\ Status(c) = "NONE"
    /\ Enqueue("settle", c,
               sub.first = NoCharge /\ \A d \in Charges :
                  Status(d) \notin {"SETTLING", "FULFILLING", "COMPLETED"})

(* tryReconcileRefund knows the subscription and the amount of an outgoing *)
(* transaction, and so every charge of it that waits for its refund.       *)
Pending == {c \in Charges : Status(c) = "REFUND_PENDING"}
ReconcileRefund ==
    /\ returned # {} /\ Pending # {}
    /\ SetCharges(Pending, "REFUNDED")
    /\ UNCHANGED <<sub, order, task, queue, scan, telegram, ghosts, bounds>>

SelectUnsettled(c) ==   \* mutant: a charge with an order is not selected
    /\ Status(c) \in {"SETTLING", "RECONCILIATION_REQUIRED"}
    /\ Enqueue("reconcile", c, FALSE)

(* runStarsFulfillmentReconcile; the 15 minutes may pass at any time.      *)
SelectStuck(c) ==
    /\ Status(c) \in {"SETTLING", "FULFILLING", "RECONCILIATION_REQUIRED"}
    /\ Enqueue("reconcile", c, FALSE)

(* runStarsRefundRetry.                                                    *)
SelectRefund(c) ==
    /\ Status(c) = "REFUND_PENDING" /\ charge[c].attempts < RefundLimit
    /\ Enqueue("refund", c, FALSE)

ExhaustLater(c) ==   \* mutant: more than the allowed attempts
    /\ Status(c) = "REFUND_PENDING" /\ charge[c].attempts > RefundLimit
    /\ sub.status # "REQUIRES_ACTION"
    /\ SetSub(SubStatuses, "REQUIRES_ACTION")
    /\ UNCHANGED <<charge, order, task, queue, scan, telegram, ghosts, bounds>>

ExhaustRefund(c) ==
    /\ Status(c) = "REFUND_PENDING" /\ charge[c].attempts >= RefundLimit
    /\ sub.status # "REQUIRES_ACTION"
    /\ SetSub(SubStatuses, "REQUIRES_ACTION")
    /\ UNCHANGED <<charge, order, task, queue, scan, telegram, ghosts, bounds>>

(* runStarsPastDueDetection: the candidate, its newer charges, the write.  *)
Billed == {"ACTIVE", "REACTIVATION_ALLOWED"}
ReadPastDue ==
    /\ scan.pc = "idle" /\ sub.status \in Billed /\ sub.ends # NoCharge
    /\ scan' = [pc |-> "count", ends |-> sub.ends]
    /\ UNCHANGED <<rows, task, queue, telegram, ghosts, bounds>>

CountNewer ==
    LET newer == {c \in Charges : c > scan.ends /\
                     Status(c) \in {"RECEIVED", "SETTLING", "FULFILLING", "COMPLETED"}} IN
    /\ scan.pc = "count"
    /\ scan' = [scan EXCEPT !.pc = IF newer = {} THEN "mark" ELSE "idle"]
    /\ UNCHANGED <<rows, task, queue, telegram, ghosts, bounds>>

MarkPastDue ==
    /\ scan.pc = "mark"
    /\ SetSub(IF sub.ends = scan.ends THEN Billed ELSE {}, "PAST_DUE")
    /\ scan' = [pc |-> "idle", ends |-> NoCharge]
    /\ UNCHANGED <<charge, order, task, queue, telegram, ghosts, bounds>>

-----------------------------------------------------------------------------
(* The updates and buttons the bot handles.                                *)

SuccessfulPayment(c) ==
    /\ At(Updates, "idle") /\ c \in updates
    /\ updates' = updates \ {c}
    /\ Begin(Updates, "settle", c, c = 1, FALSE)
    /\ UNCHANGED <<rows, queue, scan, taken, billing, returned, ghosts, bounds>>

(* handleRefundedPayment: Telegram tells of a refund, ours or another's.   *)
RefundedPayment(c) ==
    /\ At(Updates, "idle") /\ c \in returned
    /\ Status(c) \in {"COMPLETED", "FULFILLING", "REFUND_PENDING", "RECONCILIATION_REQUIRED"}
    /\ SetCharge(c, ChargeStatuses, "REFUNDED")
    /\ Goto(Updates, "require")
    /\ UNCHANGED <<sub, order, queue, scan, telegram, ghosts, bounds>>

(* handleSubscriptionUpdate: the user stopped or resumed in Telegram       *)
(* itself, or a payment failed there.                                      *)
SubscriptionUpdate ==
    /\ Moves
    /\ At(Updates, "idle")
    /\ \/ billing' = FALSE /\ SetSub(SubStatuses \ {"REQUIRES_ACTION"}, "CANCEL_AT_PERIOD_END")
       \/ /\ billing' = TRUE /\ sub.first # NoCharge
          /\ SetSub({"CANCEL_AT_PERIOD_END", "PAST_DUE", "PENDING_PAYMENT"},
                    "REACTIVATION_ALLOWED")
       \/ UNCHANGED billing /\ SetSub(Billed \cup {"CANCEL_AT_PERIOD_END"}, "PAST_DUE")
    /\ UNCHANGED <<charge, order, task, queue, scan, taken, updates, returned, ghosts, faults>>

(* The cancel button: Telegram first, the row when Telegram agreed.        *)
CancelBilling ==
    /\ Moves
    /\ At(Updates, "idle") /\ sub.first = 1
    /\ billing' = FALSE
    /\ Goto(Updates, "cancelled")
    /\ UNCHANGED <<rows, queue, scan, taken, updates, returned, ghosts, faults>>

CancelSubscription ==
    /\ At(Updates, "cancelled")
    /\ SetSub({"ACTIVE", "PAST_DUE", "REQUIRES_ACTION"}, "CANCEL_AT_PERIOD_END")
    /\ Leave(Updates)
    /\ UNCHANGED <<charge, order, queue, scan, telegram, ghosts, bounds>>

(* The reactivation button, refused while a charge is under review.        *)
Reactivate ==
    /\ Moves
    /\ At(Updates, "idle") /\ sub.first # NoCharge
    /\ sub.status \in {"CANCEL_AT_PERIOD_END", "PAST_DUE", "REACTIVATION_ALLOWED"}
    /\ \A c \in Charges : Status(c) \notin {"REFUND_PENDING", "RECONCILIATION_REQUIRED"}
    /\ task' = [task EXCEPT ![Updates].pc = "reactivate", ![Updates].first = sub.first]
    /\ UNCHANGED <<rows, queue, scan, telegram, ghosts, faults>>

ReactivateBilling ==
    /\ At(Updates, "reactivate")
    /\ \/ task[Updates].first = 1 /\ billing' = TRUE /\ Goto(Updates, "reactivated")
       \/ UNCHANGED billing /\ Leave(Updates)
    /\ UNCHANGED <<rows, queue, scan, taken, updates, returned, ghosts, bounds>>

ReactivateSubscription ==
    /\ At(Updates, "reactivated")
    /\ SetSub({"CANCEL_AT_PERIOD_END", "PAST_DUE", "REACTIVATION_ALLOWED"}, "REACTIVATION_ALLOWED")
    /\ Leave(Updates)
    /\ UNCHANGED <<charge, order, queue, scan, telegram, ghosts, bounds>>

-----------------------------------------------------------------------------
(* Telegram and its user.                                                  *)

Bill ==
    /\ billing /\ taken < MaxCharge
    /\ taken' = taken + 1
    /\ updates' = updates \cup {taken + 1}
    /\ UNCHANGED <<rows, task, queue, scan, billing, returned, ghosts, bounds>>

LoseUpdate(c) ==
    /\ c \in updates
    /\ updates' = updates \ {c}
    /\ UNCHANGED <<rows, task, queue, scan, taken, billing, returned, ghosts, bounds>>

(* Someone returns the Stars without the bot.                              *)
ReturnElsewhere(c) ==
    /\ c <= taken /\ c \notin returned
    /\ returned' = returned \cup {c}
    /\ UNCHANGED <<rows, task, queue, scan, taken, billing, updates, ghosts, bounds>>

-----------------------------------------------------------------------------
(* Faults.                                                                 *)

(* The settle jobs of these processes fail and are kept; a failed job of   *)
(* another kind is removed at once.                                        *)
Failing(set) == failed' = failed \cup {ChargeOf(w) : w \in {v \in set \ {Updates} :
                                                              task[v].kind = "settle"}}

(* A statement throws: the update is consumed, the job fails.              *)
Throws(w) ==
    /\ ~At(w, "idle") /\ ~At(w, "panel") /\ Fails
    /\ Leave(w) /\ Failing({w})
    /\ UNCHANGED <<rows, jobs, scan, telegram, ghosts, moves>>

(* A failed job is dropped a day later, when another job fails.            *)
DropFailed(c) ==
    /\ c \in failed
    /\ failed' = failed \ {c}
    /\ UNCHANGED <<rows, task, jobs, scan, telegram, ghosts, bounds>>

(* Jobs and updates that were under way are delivered again, a job once.   *)
BotCrash ==
    LET dead == {w \in Consumers : ~At(w, "idle")}
        lost == {w \in dead : task[w].again} IN
    /\ Fails
    /\ jobs' = jobs \cup {[kind |-> task[w].kind, charge |-> ChargeOf(w),
                           isFirst |-> task[w].isFirst, again |-> TRUE] : w \in dead \ lost}
    /\ Failing(lost)
    /\ updates' = updates \cup ({ChargeOf(Updates)} \ {NoCharge})
    /\ task' = [w \in Procs |-> IdleTask]
    /\ UNCHANGED <<rows, scan, taken, billing, returned, ghosts, moves>>

-----------------------------------------------------------------------------
Step(w) ==
    \/ CreateCharge(w) \/ ClaimCharge(w) \/ CreateChain(w) \/ SettleFails(w)
    \/ Dispatch(w) \/ Panel(w) \/ WriteOutcome(w) \/ Activate(w)
    \/ ReadRefund(w) \/ CallRefund(w) \/ CountFailure(w) \/ ConfirmRefund(w)
    \/ StopBilling(w) \/ RequireAction(w) \/ ReadStuck(w) \/ ResetCharge(w)

Button == CancelSubscription \/ ReactivateBilling \/ ReactivateSubscription

Next ==
    \/ \E w \in Procs : Step(w) \/ ChainThrows(w) \/ Throws(w)
    \/ \E w \in Consumers, j \in jobs : StartJob(w, j)
    \/ \E c \in Charges : \/ SuccessfulPayment(c) \/ RefundedPayment(c) \/ LoseUpdate(c)
                          \/ RecoverOrder(c) \/ RecoverPayment(c) \/ SelectStuck(c)
                          \/ SelectRefund(c) \/ ExhaustRefund(c) \/ ReturnElsewhere(c)
                          \/ DropFailed(c)
    \/ ReconcileRefund \/ ReadPastDue \/ CountNewer \/ MarkPastDue
    \/ SubscriptionUpdate \/ CancelBilling \/ Reactivate \/ Button
    \/ Bill \/ BotCrash

Spec == Init /\ [][Next]_vars

(* Fairness of what runs by itself: the handlers, the consumer and the     *)
(* scheduled scans of the worker.  Nothing is assumed of Telegram, its     *)
(* updates, its user or the panel.                                         *)
FairSpec ==
    /\ Spec
    /\ \A w \in Procs : WF_vars(Step(w))
    /\ WF_vars(Button)
    /\ \A c \in Charges :
          /\ WF_vars(RecoverPayment(c)) /\ WF_vars(SelectStuck(c))
          /\ WF_vars(SelectRefund(c)) /\ WF_vars(ExhaustRefund(c))
          /\ \A kind \in Kinds : SF_vars(\E w \in Consumers, j \in jobs :
                                            j.kind = kind /\ j.charge = c /\ StartJob(w, j))

-----------------------------------------------------------------------------
(* Properties.                                                             *)

(* Type invariant of the rows, the queue and the processes.                *)
TypeOK ==
    /\ sub \in [status : SubStatuses, ends : 0 .. MaxCharge, first : 0 .. MaxCharge]
    /\ charge \in [Charges -> [status : ChargeStatuses, attempts : Nat, isFirst : BOOLEAN]]
    /\ order \in [Charges -> OrderStatuses]
    /\ task \in [Procs -> [pc : Steps, charge : 0 .. MaxCharge, kind : Kinds, isFirst : BOOLEAN,
                           again : BOOLEAN, to : ChargeStatuses, attempts : Nat, first : 0 .. MaxCharge]]
    /\ jobs \subseteq [kind : Kinds, charge : Charges, isFirst : BOOLEAN, again : BOOLEAN]
    /\ failed \subseteq Charges
    /\ scan \in [pc : {"idle", "count", "mark"}, ends : 0 .. MaxCharge]
    /\ taken \in 0 .. MaxCharge /\ billing \in BOOLEAN
    /\ updates \subseteq Charges /\ returned \subseteq Charges /\ called \subseteq Charges
    /\ chains \in [Charges -> Nat] /\ moves \in Nat /\ faults \in Nat

(* An unknown outcome never yields both a renewal and a refund: a charge   *)
(* whose Stars the bot gave back has a failed order, one that counts as    *)
(* completed a renewed one, however handlers, jobs, scans, a crash and     *)
(* the recovery of orders interleave.                                      *)
RenewedOrRefunded ==
    \A c \in Charges :
        /\ c \in called => order[c] = "FAILED"
        /\ Status(c) = "COMPLETED" => order[c] = "COMPLETED"
        /\ Status(c) = "REFUND_PENDING" => order[c] = "FAILED"

(* One charge id makes at most one payment and one order, also when a      *)
(* settlement that was taken for stuck goes on beside the one that         *)
(* replaced it.                                                            *)
OneChain == \A c \in Charges : chains[c] <= 1

(* A cycle Telegram took the price of does not stay unknown, claimed or    *)
(* half fulfilled: a lost update is recovered, a dead settlement resumed,  *)
(* unless the job that was to settle an unknown one failed.                *)
Unresolved == {"NONE", "SETTLING", "FULFILLING"}
PaidIsResumed ==
    \A c \in Charges :
        (c <= taken /\ Status(c) \in Unresolved) ~>
            (Status(c) \notin Unresolved \/ (Status(c) = "NONE" /\ c \in failed))

(* A refund that is owed is not dropped: it is made, or the subscription   *)
(* is shown to an administrator.                                           *)
OwedIsPursued ==
    \A c \in Charges :
        Status(c) = "REFUND_PENDING" ~>
            (Status(c) # "REFUND_PENDING" \/ sub.status = "REQUIRES_ACTION")

(* Expected of the code by its comments and docs, and not kept by it.      *)

(* A charge counts as refunded only when its own Stars were returned.      *)
RefundedIsReturned == \A c \in Charges : Status(c) = "REFUNDED" => c \in returned

(* A failed order is refunded.                                             *)
FailedIsRefunded ==
    \A c \in Charges : order[c] = "FAILED" ~> Status(c) \in {"REFUND_PENDING", "REFUNDED"}

(* Settling a charge moves the period of the subscription forward.         *)
PeriodForward == [][sub'.ends >= sub.ends]_vars

(* The charge by which Telegram is asked to stop is the first one.         *)
FirstIsFirst == sub.first \in {NoCharge, 1}

(* "The charge id arrives again (or worker recovery replays)": not after   *)
(* the first job of the replay failed, whose id it uses again.             *)
LostIsReplayed == \A c \in Charges : c <= taken ~> Status(c) # "NONE"

(* Every cycle that was paid for gets its order.                           *)
PaidIsSettled == \A c \in Charges : c <= taken ~> HasOrder(c)
=============================================================================
