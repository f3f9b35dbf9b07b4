-------------------------- MODULE ServiceMutation --------------------------
(***************************************************************************)
(* Paid operations on one existing service: renewal, extra volume, extra   *)
(* time.  The bot's three pipelines and the shared executor of the Mini    *)
(* App read the Service row, compute an absolute target from it, write the *)
(* target to the panel and then persist it; what they leave PROVISIONING   *)
(* is settled by the startup recovery of the bot, or by a re-delivered     *)
(* Mini App job, from what the panel reports.  Opening the service's page  *)
(* copies the panel's values into the row.                                 *)
(*                                                                         *)
(* All of it runs under one Redis lock per service, so that the orders of  *)
(* different services share nothing: the module models one service.        *)
(*                                                                         *)
(* A statement that commits on its own, a $transaction, a Redis command    *)
(* and a panel request are one action each.  Volumes are finite, and the   *)
(* expiry is a day number that can pass.                                   *)
(***************************************************************************)
EXTENDS Integers, FiniteSets, FiniteSetsExt

CONSTANTS
    Orders,
    Operation,     \* Order.type of each order
    Volume, Days,  \* the order's frozen volumeGbSnapshot, durationDaysSnapshot
    Dispatchers,   \* update handlers and the sweep, which call the bot's pipelines
    Jobs,          \* slots of the Mini App follow-up worker
    Viewers,       \* opened service pages, which sync the row
    Recovery,      \* the startup recovery
    Free, Dead,    \* an unheld lock; the token of an owner that crashed
    NoOrder,
    MiniApp,       \* orders paid in the Mini App: they get a follow-up job
    Limit0, Used0, Expiry0,   \* the service when the orders are paid
    MaxDay,        \* bound: days that pass
    MaxJobs,       \* bound: follow-up jobs per order
    MaxFaults      \* bound: crashes of the bot and locks that expire under a living owner

Procs      == Dispatchers \cup Jobs \cup Viewers \cup {Recovery}
Operations == {"RENEWAL", "EXTRA_VOLUME", "EXTRA_TIME"}

ASSUME ServiceMutationAssumption ==
    /\ IsFiniteSet(Orders)
    /\ Operation \in [Orders -> Operations]
    /\ Volume \in [Orders -> Nat] /\ Days \in [Orders -> Nat]
    /\ \A o \in Orders : /\ Operation[o] # "EXTRA_TIME" => Volume[o] > 0
                         /\ Operation[o] = "EXTRA_TIME" => Days[o] > 0
    /\ Dispatchers \cap Jobs = {} /\ Dispatchers \cap Viewers = {} /\ Jobs \cap Viewers = {}
    /\ Recovery \notin Dispatchers \cup Jobs \cup Viewers
    /\ Free \notin Procs /\ Dead \notin Procs /\ Free # Dead
    /\ NoOrder \notin Orders /\ MiniApp \subseteq Orders
    /\ Limit0 \in Nat /\ Used0 \in 0 .. Limit0 /\ Expiry0 \in Nat
    /\ MaxDay \in Nat /\ MaxJobs \in Nat /\ MaxFaults \in Nat

VARIABLES
    order,        \* Order.status
    refunds,      \* REFUND_PROVISIONING_FAILED wallet transactions of the order
    row,          \* Service.volumeBytes, usedBytes, expiresAt
    intent,       \* COMMERCE_OPERATION_INTENT of the order, or NoIntent
    applied,      \* orders with a RENEWAL_APPLIED, EXTRA_..._APPLIED event of the bot
    appApplied,   \* orders with a COMMERCE_OPERATION_APPLIED event of the executor
    stale,        \* PROVISIONING orders not updated for STALE_PIPELINE_MINUTES
    panel,        \* external: the account's quota, usage and expiry
    flying,       \* external: update requests on their way, with their values
    requests,     \* update requests ever sent for the order
    lock,         \* Redis: the token under the service's key
    task,         \* process records
    batch,        \* stale orders the running recovery sweep still has to look at
    sweeps,       \* recovery sweeps the running bot process will still start
    today,
    jobs, faults,
    stray,        \* ghost: orders whose request outlived its sender's lock
    unrecorded,   \* ghost: orders refunded after their update succeeded, for want of a database
    guessed,      \* ghost: orders completed because one of two panel fields was as expected
    blurred       \* ghost: panel values were copied over the pre-state of a PROVISIONING order

rows   == <<order, refunds, row, intent, applied, appApplied>>
remote == <<panel, flying, requests>>
bounds == <<jobs, faults>>
ghosts == <<stray, unrecorded, guessed, blurred>>
vars   == <<rows, stale, remote, lock, task, batch, sweeps, today, bounds, ghosts>>

OrderStatuses == {"PAID", "PROVISIONING", "COMPLETED", "FAILED"}
Values  == [limit : Nat, used : Nat, expiry : Nat]
Initial == [limit |-> Limit0, used |-> Used0, expiry |-> Expiry0]
Flows   == {"none", "pipeline", "executor", "reconciler", "recovery", "sync"}
Steps   == {"idle", "lock", "body", "finish", "claim", "reset", "send", "answer", "persist",
            "retry", "orphan", "refund", "probe", "adopt", "release"}
NoIntent == [before |-> Initial, expected |-> Initial, written |-> FALSE]

IdleTask == [flow |-> "none", pc |-> "idle", order |-> NoOrder,
             seen |-> Initial, target |-> Initial, locked |-> FALSE, lost |-> FALSE]
TaskRecord == [flow : Flows, pc : Steps, order : Orders \cup {NoOrder},
               seen : Values,     \* the row, later the panel values, it read
               target : Values,   \* the absolute values it writes
               locked : BOOLEAN, lost : BOOLEAN]

Init ==
    /\ order      = [o \in Orders |-> "PAID"]
    /\ refunds    = [o \in Orders |-> 0]
    /\ row        = Initial
    /\ intent     = [o \in Orders |-> NoIntent]
    /\ applied    = {}
    /\ appApplied = {}
    /\ stale      = {}
    /\ panel      = Initial
    /\ flying     = {}
    /\ requests   = [o \in Orders |-> 0]
    /\ lock       = Free
    /\ task       = [w \in Procs |-> IdleTask]
    /\ batch      = {}
    /\ sweeps     = 2
    /\ today      = 0
    /\ jobs       = [o \in Orders |-> 0]
    /\ faults     = 0
    /\ stray      = {}
    /\ unrecorded = {}
    /\ guessed    = {}
    /\ blurred    = FALSE

-----------------------------------------------------------------------------
(* What an operation makes of a row; what the reconcilers infer back.      *)

Remaining(v) == IF v.used < v.limit THEN v.limit - v.used ELSE 0
SameTerms(v, u) == v.limit = u.limit /\ v.expiry = u.expiry

Extended(expiry, days, t) == (IF expiry > t THEN expiry ELSE t) + days

(* calculateRenewal, calculateExtraVolume, calculateExtraTime, expected.   *)
Target(o, v, t) ==
    CASE Operation[o] = "EXTRA_VOLUME" ->
            [limit |-> Remaining(v) + Volume[o], used |-> 0, expiry |-> v.expiry]
      [] Operation[o] = "EXTRA_TIME" ->
            [v EXCEPT !.expiry = Extended(v.expiry, Days[o], t)]
      [] OTHER ->
            [limit |-> Remaining(v) + Volume[o], used |-> 0,
             expiry |-> IF Days[o] > 0 THEN Extended(v.expiry, Days[o], t) ELSE v.expiry]

(* classifyMutationState: only the exact post-state of this order counts   *)
(* as applied, and only if it can be told from the pre-state and does not  *)
(* depend on the day of the attempt.                                       *)
Derivable(o, v, t) == Operation[o] = "EXTRA_VOLUME" \/ Days[o] = 0 \/ v.expiry > t

AppliedTo(o, v, p, t) ==
    /\ Derivable(o, v, t)
    /\ ~SameTerms(Target(o, v, t), v)
    /\ SameTerms(p, Target(o, v, t))

Indistinct(o, v, t) == Derivable(o, v, t) /\ SameTerms(Target(o, v, t), v)

NotAppliedWhenDifferent(o, v, p, t) ==   \* mutant: whatever is not the post-state is not applied
    ~AppliedTo(o, v, p, t) /\ ~Indistinct(o, v, t)
NotAppliedTo(o, v, p, t) ==
    ~Indistinct(o, v, t) /\ SameTerms(p, v)

(* reconcileCommerceOrder: one of the two fields is as expected.           *)
MatchesIntent(i, p)  == p.limit = i.expected.limit \/ p.expiry = i.expected.expiry

-----------------------------------------------------------------------------
(* Process records and the lock.                                           *)

At(w, pc)  == task[w].pc = pc
Runs(w, f) == task[w].flow = f
OrderOf(w) == task[w].order
Begin(w, f, o, pc) ==
    task' = [task EXCEPT ![w] = [IdleTask EXCEPT !.flow = f, !.order = o, !.pc = pc]]
Goto(w, pc) == task' = [task EXCEPT ![w].pc = pc]
Done(t)     == IF t.locked THEN [t EXCEPT !.pc = "release"] ELSE IdleTask
Leave(w)    == task' = [task EXCEPT ![w] = Done(@)]

Quiet == <<stale, remote, lock, batch, sweeps, today, bounds>>

Locked(w, f, o, pc) ==
    /\ lock = Free
    /\ lock' = w
    /\ task' = [task EXCEPT ![w] = [IdleTask EXCEPT !.flow = f, !.order = o, !.pc = pc,
                                                   !.locked = TRUE]]
    /\ UNCHANGED <<rows, stale, remote, batch, sweeps, today, bounds, ghosts>>

DispatchUnlocked(w, o) ==   \* mutant: the pipelines take no lock
    /\ w \in Dispatchers /\ At(w, "idle") /\ order[o] # "COMPLETED"
    /\ Begin(w, "pipeline", o, "body")
    /\ UNCHANGED <<rows, Quiet, ghosts>>

(* A button, the settlement sweep or a redelivered update dispatches the   *)
(* order to the bot's pipeline of its type, which reads immutable fields   *)
(* only before it takes the lock.  A completed order is given back as it   *)
(* is.                                                                     *)
Dispatch(w, o) ==
    /\ w \in Dispatchers /\ At(w, "idle") /\ order[o] # "COMPLETED"
    /\ Locked(w, "pipeline", o, "body")

(* fulfillOrder of the follow-up worker executes a PAID order, which the   *)
(* executor reads again under the lock.                                    *)
FollowUpPaid(w, o) ==
    /\ w \in Jobs /\ At(w, "idle")
    /\ o \in MiniApp /\ jobs[o] < MaxJobs /\ order[o] = "PAID"
    /\ lock = Free /\ lock' = w
    /\ jobs' = [jobs EXCEPT ![o] = @ + 1]
    /\ task' = [task EXCEPT ![w] = [IdleTask EXCEPT !.flow = "executor", !.order = o,
                                                   !.pc = "body", !.locked = TRUE]]
    /\ UNCHANGED <<rows, stale, remote, batch, sweeps, today, faults, ghosts>>

(* A PROVISIONING order whose intent the executor wrote is reconciled, on  *)
(* what is read before the lock.  The job was re-delivered 30 s after its  *)
(* executor stalled: the request (bounded to 10 s) is no longer under way. *)
FollowUpProvisioning(w, o) ==
    /\ w \in Jobs /\ At(w, "idle")
    /\ o \in MiniApp /\ jobs[o] < MaxJobs
    /\ order[o] = "PROVISIONING" /\ intent[o].written
    /\ \A u \in flying : u[1] # o
    /\ jobs' = [jobs EXCEPT ![o] = @ + 1]
    /\ Begin(w, "reconciler", o, "lock")
    /\ UNCHANGED <<rows, stale, remote, lock, batch, sweeps, today, faults, ghosts>>

(* syncServiceFromPanel.                                                   *)
OpenPage(w) ==
    /\ w \in Viewers /\ At(w, "idle")
    /\ Locked(w, "sync", NoOrder, "probe")

(* acquireServiceLock of the reconciler; contention and an unreachable     *)
(* Redis both give up.                                                     *)
AcquireLock(w) ==
    /\ At(w, "lock") /\ lock = Free
    /\ lock' = w
    /\ task' = [task EXCEPT ![w].locked = TRUE, ![w].pc = "probe"]
    /\ UNCHANGED <<rows, stale, remote, batch, sweeps, today, bounds, ghosts>>

GiveUpLock(w) ==
    /\ At(w, "lock")
    /\ Leave(w)
    /\ UNCHANGED <<rows, Quiet, ghosts>>

ReleaseLock(w) ==
    /\ At(w, "release")
    /\ lock' = IF lock = w THEN Free ELSE lock
    /\ task' = [task EXCEPT ![w] = IdleTask]
    /\ UNCHANGED <<rows, stale, remote, batch, sweeps, today, bounds, ghosts>>

-----------------------------------------------------------------------------
(* The transactions.                                                       *)

Flip(o, from, to) == [order EXCEPT ![o] = IF @ \in from THEN to ELSE @]

RefundUnflipped(o) ==   \* mutant: the credit is booked, the order is left as it was
    /\ refunds' = [refunds EXCEPT ![o] = IF order[o] \in {"PAID", "PROVISIONING"} THEN 1 ELSE @]
    /\ UNCHANGED <<order, row, intent, applied, appApplied>>

(* failOrderWithRefund, refundDefinite: whoever flips the order refunds it. *)
FailOrderWithRefund(o) ==
    /\ order' = Flip(o, {"PAID", "PROVISIONING"}, "FAILED")
    /\ refunds' = [refunds EXCEPT ![o] =
                     IF order[o] \in {"PAID", "PROVISIONING"} /\ @ = 0 THEN @ + 1 ELSE @]
    /\ UNCHANGED <<row, intent, applied, appApplied>>

(* The persist transactions of the bot: row, order and event together.     *)
PersistApplied(o, v) ==
    /\ row' = v
    /\ order' = Flip(o, {"PROVISIONING"}, "COMPLETED")
    /\ applied' = applied \cup {o}
    /\ UNCHANGED <<refunds, intent, appApplied>>

(* That of the executor, under an event type of its own; its reconciler    *)
(* completes the order whatever its status is by then.                     *)
PersistAppApplied(o, v, from) ==
    /\ row' = v
    /\ order' = Flip(o, from, "COMPLETED")
    /\ appApplied' = appApplied \cup {o}
    /\ UNCHANGED <<refunds, intent, applied>>

CompleteOrder(o, from) ==
    /\ order' = Flip(o, from, "COMPLETED")
    /\ UNCHANGED <<refunds, row, intent, applied, appApplied>>

-----------------------------------------------------------------------------
(* The bodies: what is read once the lock is held.                         *)

(* The executors of the three order types: an applied order is completed,  *)
(* a paid one with a usable target is claimed, an unusable target refunds. *)
PipelineBody(w) ==
    LET o == OrderOf(w) IN
    /\ At(w, "body") /\ Runs(w, "pipeline")
    /\ \/ o \in applied /\ order[o] # "COMPLETED" /\ Goto(w, "finish")
       \/ (o \in applied \/ order[o] # "PAID") /\ ~(o \in applied /\ order[o] # "COMPLETED")
          /\ Leave(w)
       \/ /\ o \notin applied /\ order[o] = "PAID"
          /\ \E pc \in {"claim", "refund"} :
                task' = [task EXCEPT ![w].pc = pc, ![w].seen = row]
    /\ UNCHANGED <<rows, Quiet, ghosts>>

(* executeServiceOperation looks for its own event only.                   *)
ExecutorBody(w) ==
    LET o == OrderOf(w) IN
    /\ At(w, "body") /\ Runs(w, "executor")
    /\ IF o \in appApplied \/ order[o] # "PAID" THEN Leave(w)
       ELSE \E pc \in {"claim", "refund"} :
               task' = [task EXCEPT ![w].pc = pc, ![w].seen = row,
                                    ![w].target = Target(o, row, today)]
    /\ UNCHANGED <<rows, Quiet, ghosts>>

(* reconcileServiceMutation checks the status and the event again.         *)
RecoveryBody(w) ==
    LET o == OrderOf(w) IN
    /\ At(w, "body") /\ Runs(w, "recovery")
    /\ IF order[o] # "PROVISIONING" THEN Leave(w)
       ELSE Goto(w, IF o \in applied THEN "finish" ELSE "probe")
    /\ UNCHANGED <<rows, Quiet, ghosts>>

(* The order of an applied operation is completed: by its id in the        *)
(* pipelines, only from PROVISIONING in the recovery.                      *)
Finish(w) ==
    /\ At(w, "finish")
    /\ CompleteOrder(OrderOf(w), IF Runs(w, "recovery") THEN {"PROVISIONING"} ELSE OrderStatuses)
    /\ Leave(w)
    /\ UNCHANGED <<Quiet, ghosts>>

(* Only one caller wins PAID -> PROVISIONING.  The bot computes the target *)
(* after its claim, the executor before it, and records it in the claim.   *)
Claim(w) ==
    LET o == OrderOf(w)
        t == IF Runs(w, "pipeline") THEN Target(o, task[w].seen, today) ELSE task[w].target IN
    /\ At(w, "claim")
    /\ order' = Flip(o, {"PAID"}, "PROVISIONING")
    /\ IF order[o] # "PAID" THEN Leave(w) /\ UNCHANGED intent
       ELSE /\ task' = [task EXCEPT ![w].target = t,
                          ![w].pc = IF Operation[o] = "EXTRA_TIME" THEN "send" ELSE "reset"]
            /\ intent' = IF Runs(w, "pipeline") THEN intent
                         ELSE [intent EXCEPT ![o] = [before |-> task[w].seen, expected |-> t,
                                                     written |-> TRUE]]
    /\ UNCHANGED <<refunds, row, applied, appApplied, Quiet, ghosts>>

-----------------------------------------------------------------------------
(* mutateGlobalClient of the 3x-ui adapter.                                *)

(* The reads before the update fail: a definite refusal.                   *)
PanelRefuses(w) ==
    /\ At(w, "reset") \/ (At(w, "send") /\ Operation[OrderOf(w)] = "EXTRA_TIME")
    /\ Goto(w, "refund")
    /\ UNCHANGED <<rows, Quiet, ghosts>>

(* Renewals and extra volume zero the usage first; a reset that fails, or  *)
(* whose answer is lost, is a refusal too.                                 *)
ResetTraffic(w) ==
    /\ At(w, "reset")
    /\ panel' = [panel EXCEPT !.used = 0]
    /\ \E pc \in {"send", "refund"} : Goto(w, pc)
    /\ UNCHANGED <<rows, stale, flying, requests, lock, batch, sweeps, today, bounds, ghosts>>

SendUpdate(w) ==
    LET o == OrderOf(w) IN
    /\ At(w, "send")
    /\ flying'   = flying \cup {<<o, task[w].target>>}
    /\ requests' = [requests EXCEPT ![o] = @ + 1]
    /\ Goto(w, "answer")
    /\ UNCHANGED <<rows, stale, panel, lock, batch, sweeps, today, bounds, ghosts>>

UpdateLands(u) ==
    /\ u \in flying
    /\ flying' = flying \ {u}
    /\ panel' = [panel EXCEPT !.limit = u[2].limit, !.expiry = u[2].expiry]
    /\ UNCHANGED <<rows, stale, requests, lock, task, batch, sweeps, today, bounds, ghosts>>

UpdateIsLost(u) ==
    /\ u \in flying
    /\ flying' = flying \ {u}
    /\ UNCHANGED <<rows, stale, panel, requests, lock, task, batch, sweeps, today, bounds, ghosts>>

(* The panel took the update, and the verification read shows the values   *)
(* that were sent.  A lock that was lost meanwhile leaves the order to the *)
(* reconcilers.                                                            *)
UpdateConfirmed(w) ==
    /\ At(w, "answer") /\ SameTerms(panel, task[w].target)
    /\ \A u \in flying : u[1] # OrderOf(w)
    /\ task' = [task EXCEPT ![w] = IF @.lost THEN Done(@)
                                   ELSE [@ EXCEPT !.pc = "persist", !.seen = panel]]
    /\ UNCHANGED <<rows, Quiet, ghosts>>

UnknownIsRefusal(w) ==   \* mutant: an unknown outcome refunds
    /\ At(w, "answer")
    /\ Goto(w, "refund")
    /\ stray' = IF \E u \in flying : u[1] = OrderOf(w) THEN stray \cup {OrderOf(w)} ELSE stray
    /\ UNCHANGED <<rows, Quiet, unrecorded, guessed, blurred>>

UnknownIsRetried(w) ==   \* mutant: the order is given back for another attempt
    /\ At(w, "answer")
    /\ order' = Flip(OrderOf(w), {"PROVISIONING"}, "PAID")
    /\ Leave(w)
    /\ UNCHANGED <<refunds, row, intent, applied, appApplied, Quiet, ghosts>>

(* Any failure of the update, or of its verification, is an unknown        *)
(* outcome; a request that timed out may still land.                       *)
UpdateUnknown(w) ==
    /\ At(w, "answer")
    /\ Leave(w)
    /\ stray' = IF \E u \in flying : u[1] = OrderOf(w) THEN stray \cup {OrderOf(w)} ELSE stray
    /\ UNCHANGED <<rows, Quiet, unrecorded, guessed, blurred>>

Persist(w) ==
    /\ At(w, "persist") \/ At(w, "retry")
    /\ IF Runs(w, "pipeline") THEN PersistApplied(OrderOf(w), task[w].seen)
       ELSE PersistAppApplied(OrderOf(w), task[w].seen, {"PROVISIONING"})
    /\ Leave(w)
    /\ UNCHANGED <<Quiet, ghosts>>

(* The transaction throws: the bot tries once more and then refunds, the   *)
(* executor lets the job fail.                                             *)
PersistFails(w) ==
    /\ At(w, "persist") \/ At(w, "retry")
    /\ IF Runs(w, "executor") THEN Leave(w)
       ELSE Goto(w, IF At(w, "persist") THEN "retry" ELSE "orphan")
    /\ UNCHANGED <<rows, Quiet, ghosts>>

Refund(w) ==
    LET o == OrderOf(w) IN
    /\ At(w, "refund") \/ At(w, "orphan")
    /\ FailOrderWithRefund(o)
    /\ unrecorded' = IF At(w, "orphan") THEN unrecorded \cup {o} ELSE unrecorded
    /\ Leave(w)
    /\ UNCHANGED <<Quiet, stray, guessed, blurred>>

-----------------------------------------------------------------------------
(* Reconciliation from panel truth, and the sync of an opened page.        *)

(* runStartupRecovery: once at start and once a quarter of an hour later;  *)
(* with the lock backend down the whole sweep is deferred.                 *)
StartRecovery ==
    /\ sweeps > 0 /\ batch = {} /\ At(Recovery, "idle")
    /\ sweeps' = sweeps - 1
    /\ batch' \in {{o \in Orders : order[o] = "PROVISIONING" /\ o \in stale}, {}}
    /\ UNCHANGED <<rows, stale, remote, lock, task, today, bounds, ghosts>>

(* An applied order is finished; for another the lock is asked for once,   *)
(* and an order whose lock is held is deferred.                            *)
RecoverNext(o) ==
    /\ At(Recovery, "idle") /\ o \in batch
    /\ batch' = batch \ {o}
    /\ IF o \in applied THEN Begin(Recovery, "recovery", o, "finish") /\ UNCHANGED lock
       ELSE IF lock # Free THEN UNCHANGED <<task, lock>>
       ELSE /\ lock' = Recovery
            /\ task' = [task EXCEPT ![Recovery] = [IdleTask EXCEPT
                           !.flow = "recovery", !.order = o, !.pc = "body", !.locked = TRUE]]
    /\ UNCHANGED <<rows, stale, remote, sweeps, today, bounds, ghosts>>

(* An unreadable panel and a state that neither verdict explains defer.    *)
ProbeRecovery(w) ==
    LET o == OrderOf(w) IN
    /\ At(w, "probe") /\ Runs(w, "recovery")
    /\ \/ Leave(w)
       \/ /\ AppliedTo(o, row, panel, today)
          /\ task' = [task EXCEPT ![w].pc = "adopt", ![w].seen = panel]
       \/ /\ ~AppliedTo(o, row, panel, today) /\ NotAppliedTo(o, row, panel, today)
          /\ Goto(w, "refund")
    /\ UNCHANGED <<rows, Quiet, ghosts>>

ProbeReconciler(w) ==
    LET i == intent[OrderOf(w)] IN
    /\ At(w, "probe") /\ Runs(w, "reconciler")
    /\ \/ Leave(w)
       \/ /\ MatchesIntent(i, panel)
          /\ task' = [task EXCEPT ![w].pc = "adopt", ![w].seen = panel]
       \/ /\ ~MatchesIntent(i, panel) /\ SameTerms(i.before, panel)
          /\ Goto(w, "refund")
    /\ UNCHANGED <<rows, Quiet, ghosts>>

(* The row is overwritten while the order of another attempt is open.      *)
Blurs(v, S) == ~SameTerms(row, v) /\ \E o \in S : order[o] = "PROVISIONING"

(* completeReconciledMutation, its counterpart, or a transaction that      *)
(* throws.                                                                 *)
Adopt(w) ==
    LET o == OrderOf(w)  v == task[w].seen IN
    /\ At(w, "adopt") /\ ~Runs(w, "sync")
    /\ \/ /\ Runs(w, "recovery") /\ PersistApplied(o, v)
          /\ UNCHANGED <<guessed, blurred>>
       \/ /\ Runs(w, "reconciler") /\ PersistAppApplied(o, v, OrderStatuses)
          /\ guessed' = IF SameTerms(v, intent[o].expected) THEN guessed ELSE guessed \cup {o}
          /\ blurred' = (blurred \/ Blurs(v, Orders \ {o}))
       \/ UNCHANGED <<rows, guessed, blurred>>
    /\ Leave(w)
    /\ UNCHANGED <<Quiet, stray, unrecorded>>

SyncRead(w) ==
    /\ At(w, "probe") /\ Runs(w, "sync")
    /\ \/ Leave(w)
       \/ task' = [task EXCEPT ![w].pc = "adopt", ![w].seen = panel]
    /\ UNCHANGED <<rows, Quiet, ghosts>>

SyncWrite(w) ==
    /\ At(w, "adopt") /\ Runs(w, "sync")
    /\ row' = task[w].seen
    /\ blurred' = (blurred \/ Blurs(task[w].seen, Orders))
    /\ Leave(w)
    /\ UNCHANGED <<order, refunds, intent, applied, appApplied, Quiet, stray, unrecorded, guessed>>

-----------------------------------------------------------------------------
(* Time, Redis and crashes.                                                *)

(* An order left PROVISIONING for ten minutes.  By then its claimant has   *)
(* sent the request, the request (bounded to 10 s) has arrived or is lost, *)
(* and a process whose lock expired (90 s) is through with the order.      *)
GrowsStale(o) ==
    /\ order[o] = "PROVISIONING" /\ o \notin stale
    /\ \A u \in flying : u[1] # o
    /\ \A w \in Procs : OrderOf(w) = o =>
          ~At(w, "reset") /\ ~At(w, "send") /\ (task[w].locked => lock = w)
    /\ stale' = stale \cup {o}
    /\ UNCHANGED <<rows, remote, lock, task, batch, sweeps, today, bounds, ghosts>>

NextDay ==
    /\ today < MaxDay
    /\ today' = today + 1
    /\ UNCHANGED <<rows, stale, remote, lock, task, batch, sweeps, bounds, ghosts>>

(* The key of a dead owner expires after 90 s, past any request of his.    *)
LockExpires ==
    /\ lock = Dead /\ \A u \in flying : u[1] \in stray
    /\ lock' = Free
    /\ UNCHANGED <<rows, stale, remote, task, batch, sweeps, today, bounds, ghosts>>

(* Renewals of the key fail long enough for it to expire under its owner:  *)
(* only the panel request lasts that long.                                 *)
LockLapses(w) ==
    /\ faults < MaxFaults /\ At(w, "answer") /\ task[w].locked /\ lock = w
    /\ OrderOf(w) \notin stale
    /\ faults' = faults + 1
    /\ lock' = Free
    /\ stray' = stray \cup {OrderOf(w)}
    /\ UNCHANGED <<rows, stale, remote, task, batch, sweeps, today, jobs,
                   unrecorded, guessed, blurred>>

Heartbeat(w) ==
    /\ task[w].locked /\ ~task[w].lost /\ lock # w
    /\ task' = [task EXCEPT ![w].lost = TRUE]
    /\ UNCHANGED <<rows, Quiet, ghosts>>

BotCrash ==
    /\ faults < MaxFaults
    /\ faults' = faults + 1
    /\ task'    = [w \in Procs |-> IdleTask]
    /\ lock'    = IF lock = Free THEN Free ELSE Dead
    /\ batch'   = {}
    /\ sweeps'  = 2
    /\ UNCHANGED <<rows, stale, remote, today, jobs, ghosts>>

-----------------------------------------------------------------------------
Step(w) ==
    \/ AcquireLock(w) \/ GiveUpLock(w) \/ ReleaseLock(w)
    \/ PipelineBody(w) \/ ExecutorBody(w) \/ RecoveryBody(w) \/ Finish(w) \/ Claim(w)
    \/ PanelRefuses(w) \/ ResetTraffic(w) \/ SendUpdate(w)
    \/ UpdateConfirmed(w) \/ UpdateUnknown(w) \/ Persist(w) \/ PersistFails(w) \/ Refund(w)
    \/ ProbeRecovery(w) \/ ProbeReconciler(w) \/ Adopt(w) \/ SyncRead(w) \/ SyncWrite(w)
    \/ LockLapses(w) \/ Heartbeat(w)

Next ==
    \/ \E w \in Procs : Step(w) \/ OpenPage(w)
    \/ \E w \in Procs, o \in Orders : 
          Dispatch(w, o) \/ FollowUpPaid(w, o) \/ FollowUpProvisioning(w, o)
    \/ StartRecovery
    \/ \E o \in Orders : RecoverNext(o) \/ GrowsStale(o)
    \/ \E u \in flying : UpdateLands(u) \/ UpdateIsLost(u)
    \/ NextDay \/ LockExpires \/ BotCrash

Spec == Init /\ [][Next]_vars

-----------------------------------------------------------------------------
(* Properties.                                                             *)

(* Type invariant of the rows, the panel, the lock and the processes.      *)
TypeOK ==
    /\ order \in [Orders -> OrderStatuses]
    /\ refunds \in [Orders -> Nat]
    /\ row \in Values
    /\ intent \in [Orders -> [before : Values, expected : Values, written : BOOLEAN]]
    /\ applied \subseteq Orders /\ appApplied \subseteq Orders /\ stale \subseteq Orders
    /\ panel \in Values
    /\ flying \subseteq Orders \X Values
    /\ requests \in [Orders -> Nat]
    /\ lock \in Procs \cup {Free, Dead}
    /\ task \in [Procs -> TaskRecord]
    /\ \A w \in Procs : task[w].pc # "idle" /\ task[w].flow # "sync" => task[w].order \in Orders
    /\ batch \subseteq Orders /\ sweeps \in 0 .. 2 /\ today \in Nat
    /\ jobs \in [Orders -> Nat] /\ faults \in Nat
    /\ stray \subseteq Orders /\ unrecorded \subseteq Orders /\ guessed \subseteq Orders
    /\ blurred \in BOOLEAN

Completed == {o \in Orders : order[o] = "COMPLETED"}
Kept      == {o \in Orders : refunds[o] = 0}
VolumeOf(S) == SumFunction(
    [o \in Orders |-> IF o \in S /\ Operation[o] # "EXTRA_TIME" THEN Volume[o] ELSE 0])
DaysOf(S) == SumFunction(
    [o \in Orders |-> IF o \in S /\ Operation[o] # "EXTRA_VOLUME" THEN Days[o] ELSE 0])

(* The account holds more than the service had and the unrefunded orders   *)
(* bought.                                                                 *)
Unearned ==
    \/ panel.limit > Limit0 + VolumeOf(Kept)
    \/ panel.expiry > (IF Expiry0 > today THEN Expiry0 ELSE today) + DaysOf(Kept)

(* Nobody gets the money back and keeps what it paid for, whatever crashes, *)
(* times out or arrives late: the two ways left open are an update whose   *)
(* persist failed twice, which is refunded for manual review, and a page   *)
(* opened between the update and the recovery of its order.                *)
NothingForFree == Unearned => blurred \/ unrecorded # {}

(* The same without the opened page.                                       *)
RefundOnlyOnProof == Unearned => unrecorded # {}

Delivered ==
    /\ panel.limit >= Limit0 - Used0 + VolumeOf(Completed)
    /\ panel.expiry >= Expiry0 + DaysOf(Completed)

(* What completed orders bought is on the panel: no later operation, and   *)
(* no reconciliation, overwrote it, as long as no request outlived the     *)
(* lock of its sender and no order was completed on one matching field.    *)
NothingLost == (stray = {} /\ guessed = {}) => Delivered

(* The same of the orders that the reconciler of the executor completes.   *)
CompletedOnlyOnProof == stray = {} => Delivered

(* However often an order is dispatched, re-delivered or recovered, its    *)
(* update is sent to the panel at most once.                               *)
RequestOnce == \A o \in Orders : requests[o] <= 1

(* No silent charge and no double outcome for an order of the bot, also    *)
(* when Mini App orders of the same service are executed and reconciled    *)
(* next to it: a completed order has an event of its application and no    *)
(* refund, a failed one exactly one refund.                                *)
OutcomeAccounted ==
    \A o \in Orders \ MiniApp :
        /\ order[o] = "COMPLETED" => o \in applied /\ refunds[o] = 0
        /\ order[o] = "FAILED"    => refunds[o] = 1

(* Once every order is settled, the terms the buyer sees on the service    *)
(* page are the terms the panel enforces.                                  *)
RowIsPanel ==
    (/\ \A o \in Orders : order[o] # "PROVISIONING"
     /\ stray = {} /\ unrecorded = {}) => SameTerms(row, panel)

(* An order of the bot goes from owed to served or refunded once, with one *)
(* credit.                                                                 *)
Outcome == INSTANCE OrderOutcome WITH
    Orders  <- Orders \ MiniApp,
    outcome <- [o \in Orders \ MiniApp |-> CASE order[o] = "COMPLETED" -> "served"
                                             [] order[o] = "FAILED"    -> "refunded"
                                             [] OTHER                  -> "owed"],
    credits <- [o \in Orders \ MiniApp |-> refunds[o]]
ImplementsOutcome == Outcome!Spec
=============================================================================
