---------------------------- MODULE Provisioning ----------------------------
(***************************************************************************)
(* From a PAID service order to a service or a refund.  Two pipelines      *)
(* create the panel account of a service order: the bot's own, and the     *)
(* shared executor that a Mini App follow-up job runs.  What they leave    *)
(* undecided is settled by two reconcilers: the startup recovery sweep of  *)
(* the bot, and the job itself when it meets a PROVISIONING order.         *)
(*                                                                         *)
(* A statement that commits on its own, a $transaction, a Redis command    *)
(* and a panel request are one action each.  A crash of the bot ends every *)
(* process here at once: they all live in it.                              *)
(*                                                                         *)
(* A site is a (panel, username) pair: the key of the distributed lock and *)
(* the place of the remote account.  "sold" is the frozen panel with the   *)
(* username that was sold, "generated" the frozen panel with the legacy    *)
(* username of the order, "moved" the panel the product was moved to.      *)
(***************************************************************************)
EXTENDS Integers, FiniteSets

CONSTANTS
    Orders,
    Dispatchers,   \* update handlers and the sweep, which call the bot's pipeline
    Jobs,          \* slots of the Mini App follow-up worker
    Recovery,      \* the startup recovery
    Free, Dead,    \* an unheld lock; the token of an owner that crashed
    NoOrder,
    MiniApp,       \* orders paid in the Mini App: they get a follow-up job
    Reserved,      \* orders that hold a username reservation
    Held,          \* orders whose reservation could not be bound at settlement
    Unnameable,    \* orders whose captured naming strategy yields no username
    Occupied,      \* orders whose username an unrelated panel account carries
    Drifting,      \* orders whose product an admin moves to another panel
    MaxJobs,       \* bound: follow-up jobs per order
    MaxCrashes,    \* bound: crashes of the bot process
    MaxLapses      \* bound: locks that expire under a living owner

Sites == {"sold", "generated", "moved"}
Procs == Dispatchers \cup Jobs \cup {Recovery}

ASSUME ProvisioningAssumption ==
    /\ Dispatchers \cap Jobs = {} /\ Recovery \notin Dispatchers \cup Jobs
    /\ Free \notin Procs /\ Dead \notin Procs /\ Free # Dead
    /\ NoOrder \notin Orders
    /\ MiniApp \subseteq Orders /\ Reserved \subseteq Orders /\ Occupied \subseteq Orders
    /\ Drifting \subseteq Orders
    /\ Held \subseteq Reserved \ MiniApp
    /\ Unnameable \subseteq Orders \ MiniApp
    /\ MaxJobs \in Nat /\ MaxCrashes \in Nat /\ MaxLapses \in Nat

VARIABLES
    order,        \* Order.status
    named,        \* orders with a namingSnapshot
    service,      \* orders with a Service row
    refunds,      \* REFUND_PROVISIONING_FAILED wallet transactions of the order
    reservation,  \* ServiceUsernameReservation.status of the order
    held,         \* orders with an open SERVICE_USERNAME_UNBOUND case
    drifted,      \* orders whose product now has another panel
    stale,        \* PROVISIONING orders not updated for STALE_PIPELINE_MINUTES
    account,      \* external: the panel account at each site of the order
    flying,       \* external: create requests on their way to a panel
    created,      \* create requests ever sent for the order
    lock,         \* Redis: the token under each site's key
    task,         \* process records
    batch,        \* stale orders the running recovery sweep still has to look at
    sweeps,       \* recovery sweeps the running bot process will still start
    jobs,         \* follow-up jobs run so far
    crashes, lapses

rows   == <<order, named, service, refunds, reservation, held, drifted>>
panel  == <<account, flying, created>>
bounds == <<jobs, crashes, lapses>>
vars   == <<rows, stale, panel, lock, task, batch, sweeps, bounds>>

OrderStatuses       == {"PAID", "PROVISIONING", "COMPLETED", "FAILED"}
ReservationStatuses == {"NONE", "BOUND", "CONSUMED", "RELEASED"}
Flows == {"none", "pipeline", "executor", "reconciler", "recovery"}
Steps == {"idle", "name", "lock", "body", "finish", "claim", "send", "answer", "persist",
          "ladder", "orphan", "refund", "probe", "adopt", "release"}

IdleTask == [flow |-> "none", pc |-> "idle", order |-> NoOrder, key |-> "sold", site |-> "sold",
             locked |-> FALSE, lost |-> FALSE]
TaskRecord == [flow : Flows, pc : Steps, order : Orders \cup {NoOrder},
               key : Sites,      \* the lock it takes
               site : Sites,     \* where it looks for the account or creates it
               locked : BOOLEAN, lost : BOOLEAN]

Init ==
    /\ order       = [o \in Orders |-> "PAID"]
    /\ named       = {}
    /\ service     = {}
    /\ refunds     = [o \in Orders |-> 0]
    /\ reservation = [o \in Orders |-> IF o \in Reserved \ Held THEN "BOUND" ELSE "NONE"]
    /\ held        = Held
    /\ drifted     = {}
    /\ stale       = {}
    /\ account     = [o \in Orders |-> [s \in Sites |->
                        IF o \in Occupied /\ s = "sold" THEN "foreign" ELSE "none"]]
    /\ flying      = {}
    /\ created     = [o \in Orders |-> 0]
    /\ lock        = [o \in Orders |-> [s \in Sites |-> Free]]
    /\ task        = [w \in Procs |-> IdleTask]
    /\ batch       = {}
    /\ sweeps      = 2
    /\ jobs        = [o \in Orders |-> 0]
    /\ crashes     = 0
    /\ lapses      = 0

-----------------------------------------------------------------------------
(* Process records.                                                        *)

At(w, pc)   == task[w].pc = pc
Runs(w, f)  == task[w].flow = f
OrderOf(w)  == task[w].order
LockOf(w)   == lock[task[w].order][task[w].key]

Begin(w, f, o, pc, s) ==
    task' = [task EXCEPT ![w] = [IdleTask EXCEPT !.flow = f, !.order = o, !.pc = pc,
                                                 !.key = s, !.site = s]]
Goto(w, pc) == task' = [task EXCEPT ![w].pc = pc]
(* Every way out of the locked part runs the release of its finally block. *)
Done(t)     == IF t.locked THEN [t EXCEPT !.pc = "release"] ELSE IdleTask
Leave(w)    == task' = [task EXCEPT ![w] = Done(@)]

(* The panel that the product has now, with the sold username.             *)
LiveSite(o) == IF o \in drifted THEN "moved" ELSE "sold"
RecoverySiteRegenerated(o) == IF o \in drifted THEN "moved" ELSE "generated"   \* mutant: the identity recomputed
(* reconciliationUsername: without a naming snapshot, the legacy name.     *)
RecoverySite(o) == IF o \in drifted THEN "moved" ELSE IF o \in named THEN "sold" ELSE "generated"

-----------------------------------------------------------------------------
(* The transactions the flows share.                                       *)

Flip(o, from, to) == [order EXCEPT ![o] = IF @ \in from THEN to ELSE @]
Consumed(o) ==
    [reservation EXCEPT ![o] = IF @ = "BOUND" THEN "CONSUMED" ELSE @]

(* failOrderWithRefund, refundDefinite: whoever flips the order refunds it *)
(* and frees its reservation.                                              *)
FailOrderWithRefund(o) ==
    LET flipped == order[o] \in {"PAID", "PROVISIONING"} IN
    /\ order' = Flip(o, {"PAID", "PROVISIONING"}, "FAILED")
    /\ IF flipped /\ refunds[o] = 0
       THEN /\ refunds' = [refunds EXCEPT ![o] = @ + 1]
            /\ reservation' = [reservation EXCEPT ![o] =
                                  IF @ = "BOUND" THEN "RELEASED" ELSE @]
       ELSE UNCHANGED <<refunds, reservation>>
    /\ UNCHANGED <<named, service, held, drifted>>

PersistUnconsumed(o) ==   \* mutant
    /\ service' = service \cup {o}
    /\ order' = Flip(o, {"PROVISIONING"}, "COMPLETED")
    /\ UNCHANGED <<named, refunds, reservation, held, drifted>>

(* The persist transaction: the Service row unless the order has one, the  *)
(* reservation consumed, and the order completed if it is still in the     *)
(* pipeline.                                                               *)
PersistService(o) ==
    /\ IF o \in service
       THEN UNCHANGED <<service, reservation, order>>
       ELSE /\ service' = service \cup {o}
            /\ reservation' = Consumed(o)
            /\ order' = Flip(o, {"PROVISIONING"}, "COMPLETED")
    /\ UNCHANGED <<named, refunds, held, drifted>>

(* adoptPanelAccount: the same, replayed over an existing row.             *)
AdoptPanelAccount(o) ==
    /\ service' = service \cup {o}
    /\ reservation' = Consumed(o)
    /\ order' = Flip(o, {"PROVISIONING"}, "COMPLETED")
    /\ UNCHANGED <<named, refunds, held, drifted>>

(* The job's reconciler completes whatever status the order has by now.    *)
AdoptUnconditionally(o) ==
    /\ IF o \in service
       THEN UNCHANGED <<service, reservation, order>>
       ELSE /\ service' = service \cup {o}
            /\ reservation' = Consumed(o)
            /\ order' = [order EXCEPT ![o] = "COMPLETED"]
    /\ UNCHANGED <<named, refunds, held, drifted>>

SetOrder(o, status) ==
    /\ order' = [order EXCEPT ![o] = status]
    /\ UNCHANGED <<named, service, refunds, reservation, held, drifted>>
MoveOrder(o, from, to) ==
    /\ order' = Flip(o, from, to)
    /\ UNCHANGED <<named, service, refunds, reservation, held, drifted>>

External == <<stale, panel, lock, batch, sweeps, bounds>>

-----------------------------------------------------------------------------
(* provisionPaidOrder of the bot, up to the lock.                          *)

ReadHeadUngated(w, o) ==   \* mutant: no gate on the open case
    /\ w \in Dispatchers /\ At(w, "idle")
    /\ order[o] = "PAID" /\ o \notin drifted
    /\ Begin(w, "pipeline", o, IF o \in named THEN "lock" ELSE "name", "sold")
    /\ UNCHANGED <<rows, External>>

ReadHead(w, o) ==
    /\ w \in Dispatchers /\ At(w, "idle")
    /\ ~(order[o] = "PAID" /\ o \in held)
    /\ IF o \in drifted
       THEN Begin(w, "pipeline", o, IF order[o] = "PAID" THEN "refund" ELSE "body", "moved")
       ELSE IF o \in named        THEN Begin(w, "pipeline", o, "lock", "sold")
       ELSE IF order[o] = "PAID"  THEN Begin(w, "pipeline", o, "name", "sold")
       ELSE Begin(w, "pipeline", o, "lock", "generated")
    /\ UNCHANGED <<rows, External>>

(* ensureOrderNamingSnapshot: the first resolution is kept for ever.       *)
EnsureNaming(w) ==
    /\ At(w, "name")
    /\ \/ /\ OrderOf(w) \notin Unnameable
          /\ named' = named \cup {OrderOf(w)}
          /\ Goto(w, "lock")
       \/ /\ OrderOf(w) \in Unnameable
          /\ Goto(w, "refund")
          /\ UNCHANGED named
    /\ UNCHANGED <<order, service, refunds, reservation, held, drifted, External>>

(* acquireServiceLock; contention and an unreachable Redis both give up.   *)
AcquireLock(w) ==
    /\ At(w, "lock") /\ LockOf(w) = Free
    /\ lock' = [lock EXCEPT ![OrderOf(w)][task[w].key] = w]
    /\ task' = [task EXCEPT ![w].locked = TRUE,
                            ![w].pc = IF Runs(w, "reconciler") THEN "probe" ELSE "body"]
    /\ UNCHANGED <<rows, stale, panel, batch, sweeps, bounds>>

GiveUpLock(w) ==
    /\ At(w, "lock")
    /\ Leave(w)
    /\ UNCHANGED <<rows, External>>

ReleaseLock(w) ==
    /\ At(w, "release")
    /\ lock' = IF LockOf(w) = w THEN [lock EXCEPT ![OrderOf(w)][task[w].key] = Free] ELSE lock
    /\ task' = [task EXCEPT ![w] = IdleTask]
    /\ UNCHANGED <<rows, stale, panel, batch, sweeps, bounds>>

-----------------------------------------------------------------------------
(* The bodies: what is read again once the lock is held.                   *)

PipelineBody(w) ==
    LET o == OrderOf(w)
        proceed == o \notin service /\ order[o] = "PAID" /\ o \notin held IN
    /\ At(w, "body") /\ Runs(w, "pipeline")
    /\ \/ /\ o \in service /\ order[o] # "COMPLETED"
          /\ Goto(w, "finish")
       \/ /\ ~proceed /\ ~(o \in service /\ order[o] # "COMPLETED")
          /\ Leave(w)
       \/ /\ proceed        \* the preflight checks pass, or the panel cannot be used
          /\ \E pc \in {"claim", "refund"} :
                task' = [task EXCEPT ![w].pc = pc, ![w].site = LiveSite(o)]
    /\ UNCHANGED <<rows, External>>

(* The shared executor looks for a Service row only.                       *)
ExecutorBody(w) ==
    /\ At(w, "body") /\ Runs(w, "executor")
    /\ IF OrderOf(w) \in service THEN Leave(w) ELSE Goto(w, "claim")
    /\ UNCHANGED <<rows, External>>

(* reconcilePurchase checks the status and the anchor again under the lock. *)
RecoveryBody(w) ==
    LET o == OrderOf(w) IN
    /\ At(w, "body") /\ Runs(w, "recovery")
    /\ IF order[o] # "PROVISIONING" THEN Leave(w)
       ELSE Goto(w, IF o \in service THEN "finish" ELSE "probe")
    /\ UNCHANGED <<rows, External>>

(* The order of an existing Service row is completed: by its id in the     *)
(* pipelines, only from PROVISIONING in the recovery.                      *)
Finish(w) ==
    /\ At(w, "finish")
    /\ IF Runs(w, "recovery") THEN MoveOrder(OrderOf(w), {"PROVISIONING"}, "COMPLETED")
       ELSE SetOrder(OrderOf(w), "COMPLETED")
    /\ Leave(w)
    /\ UNCHANGED External

ClaimUnconditionally(w) ==   \* mutant
    /\ At(w, "claim")
    /\ SetOrder(OrderOf(w), "PROVISIONING")
    /\ Goto(w, "send")
    /\ UNCHANGED External

(* Only one caller wins PAID -> PROVISIONING.  The bot's pipeline then     *)
(* refuses a username that a foreign reservation holds.                    *)
Claim(w) ==
    LET o == OrderOf(w) IN
    /\ At(w, "claim")
    /\ MoveOrder(o, {"PAID"}, "PROVISIONING")
    /\ IF order[o] # "PAID" THEN Leave(w)
       ELSE \/ Goto(w, "send")
            \/ Runs(w, "pipeline") /\ Goto(w, "refund")
    /\ UNCHANGED External

-----------------------------------------------------------------------------
(* createServiceAccount and what becomes of it.                            *)

SendCreate(w) ==
    LET o == OrderOf(w) IN
    /\ At(w, "send")
    /\ flying'  = flying \cup {<<o, task[w].site>>}
    /\ created' = [created EXCEPT ![o] = @ + 1]
    /\ Goto(w, "answer")
    /\ UNCHANGED <<rows, stale, account, lock, batch, sweeps, bounds>>

(* A request arrives, or never does; a taken username is left alone.       *)
CreateArrives(o, s) ==
    /\ <<o, s>> \in flying
    /\ flying' = flying \ {<<o, s>>}
    /\ account' = [account EXCEPT ![o][s] = IF @ = "none" THEN "own" ELSE @]
    /\ UNCHANGED <<rows, stale, created, lock, task, batch, sweeps, bounds>>

CreateIsLost(o, s) ==
    /\ <<o, s>> \in flying
    /\ flying' = flying \ {<<o, s>>}
    /\ UNCHANGED <<rows, stale, account, created, lock, task, batch, sweeps, bounds>>

CreateRefused(w) ==   \* mutant: an unknown outcome is a refusal
    /\ At(w, "answer")
    /\ Goto(w, IF account[OrderOf(w)][task[w].site] = "own" THEN "persist" ELSE "refund")
    /\ UNCHANGED <<rows, External>>

(* Unknown, present or refused for certain: an unknown outcome and a lock  *)
(* that was lost meanwhile leave the order PROVISIONING.  After a timeout  *)
(* the adapter probes the username and takes any account for its own.      *)
CreateAnswered(w) ==
    LET o == OrderOf(w)  s == task[w].site IN
    /\ At(w, "answer")
    /\ \/ Leave(w)
       \/ /\ account[o][s] # "none"
          /\ IF task[w].lost THEN Leave(w) ELSE Goto(w, "persist")
       \/ /\ account[o][s] # "own" /\ <<o, s>> \notin flying
          /\ Goto(w, "refund")
    /\ UNCHANGED <<rows, External>>

Persist(w) ==
    /\ At(w, "persist")
    /\ PersistService(OrderOf(w))
    /\ Leave(w)
    /\ UNCHANGED External

(* The transaction throws: the bot climbs its recovery ladder, the shared  *)
(* executor lets the job fail.                                             *)
PersistFails(w) ==
    /\ At(w, "persist")
    /\ IF Runs(w, "pipeline") THEN Goto(w, "ladder") ELSE Leave(w)
    /\ UNCHANGED <<rows, External>>

LadderOnlyCompletes(w) ==   \* mutant: no second persist
    /\ At(w, "ladder")
    /\ MoveOrder(OrderOf(w), {"PAID", "PROVISIONING"}, "COMPLETED")
    /\ Leave(w)
    /\ UNCHANGED External

(* recoverOrRefundAfterPanelSuccess.                                       *)
LadderCompletes(w) ==
    LET o == OrderOf(w) IN
    /\ At(w, "ladder")
    /\ IF o \in service THEN MoveOrder(o, {"PAID", "PROVISIONING"}, "COMPLETED")
       ELSE PersistService(o)
    /\ Leave(w)
    /\ UNCHANGED External

LadderFails(w) ==
    /\ At(w, "ladder")
    /\ Goto(w, "orphan")
    /\ UNCHANGED <<rows, External>>

Refund(w) ==
    /\ At(w, "refund") \/ At(w, "orphan")
    /\ FailOrderWithRefund(OrderOf(w))
    /\ Leave(w)
    /\ UNCHANGED External

-----------------------------------------------------------------------------
(* Reconciliation from panel truth.                                        *)

(* An account of that name is adopted, a positive absence refunded, an     *)
(* unreadable panel deferred.                                              *)
Probe(w) ==
    LET o == OrderOf(w) IN
    /\ At(w, "probe")
    /\ \/ Leave(w)
       \/ Goto(w, IF account[o][task[w].site] = "none" THEN "refund" ELSE "adopt")
    /\ UNCHANGED <<rows, External>>

Adopt(w) ==
    LET o == OrderOf(w) IN
    /\ At(w, "adopt")
    /\ \/ Runs(w, "recovery") /\ AdoptPanelAccount(o)
       \/ Runs(w, "reconciler") /\ AdoptUnconditionally(o)
       \/ UNCHANGED rows                                    \* the transaction throws
    /\ Leave(w)
    /\ UNCHANGED External

(* runStartupRecovery: once at start and once a quarter of an hour later;  *)
(* with the lock backend down the whole sweep is deferred.                 *)
StartRecovery ==
    /\ sweeps > 0 /\ batch = {} /\ At(Recovery, "idle")
    /\ sweeps' = sweeps - 1
    /\ batch' \in {{o \in Orders : order[o] = "PROVISIONING" /\ o \in stale}, {}}
    /\ UNCHANGED <<rows, stale, panel, lock, task, bounds>>

RecoverNext(o) ==
    /\ At(Recovery, "idle") /\ o \in batch
    /\ batch' = batch \ {o}
    /\ IF o \in service THEN Begin(Recovery, "recovery", o, "finish", "sold")
       ELSE Begin(Recovery, "recovery", o, "lock", RecoverySite(o))
    /\ UNCHANGED <<rows, stale, panel, lock, sweeps, bounds>>

(* fulfillOrder of the follow-up worker: execute a PAID order, reconcile a *)
(* PROVISIONING one, leave the others.                                     *)
FollowUp(w, o) ==
    /\ w \in Jobs /\ At(w, "idle")
    /\ o \in MiniApp /\ jobs[o] < MaxJobs
    /\ jobs' = [jobs EXCEPT ![o] = @ + 1]
    /\ \/ /\ order[o] = "PAID"
          /\ \/ Begin(w, "executor", o,
                      IF o \in service THEN "finish" ELSE IF o \in drifted THEN "refund" ELSE "lock",
                      "sold")
             \/ o \notin service /\ Begin(w, "executor", o, "refund", "sold")   \* panel not active
       \/ /\ order[o] = "PROVISIONING"
          /\ Begin(w, "reconciler", o, "lock", LiveSite(o))
    /\ UNCHANGED <<rows, stale, panel, lock, batch, sweeps, crashes, lapses>>

-----------------------------------------------------------------------------
(* Time, administrators, Redis and crashes.                                *)

(* An order left PROVISIONING for ten minutes.  By then its claimant has   *)
(* sent the request, the request (bounded to 10 s) has arrived or is lost, *)
(* and a process whose lock expired (90 s) is through with the order.      *)
GrowsStale(o) ==
    /\ order[o] = "PROVISIONING" /\ o \notin stale
    /\ \A s \in Sites : <<o, s>> \notin flying
    /\ \A w \in Procs : OrderOf(w) = o =>
          ~At(w, "send") /\ (task[w].locked => LockOf(w) = w)
    /\ stale' = stale \cup {o}
    /\ UNCHANGED <<rows, panel, lock, task, batch, sweeps, bounds>>

ReassignPanel(o) ==
    /\ o \in Drifting \ drifted
    /\ drifted' = drifted \cup {o}
    /\ UNCHANGED <<order, named, service, refunds, reservation, held, task, External>>

(* retry-bind of the OWNER: the reservation is bound and the case closed.  *)
RetryBind(o) ==
    /\ o \in held
    /\ held' = held \ {o}
    /\ reservation' = [reservation EXCEPT ![o] = "BOUND"]
    /\ UNCHANGED <<order, named, service, refunds, drifted, task, External>>

(* The key of a dead owner expires after 90 s, past any request of his.    *)
LockExpires(o, s) ==
    /\ lock[o][s] = Dead /\ <<o, s>> \notin flying
    /\ lock' = [lock EXCEPT ![o][s] = Free]
    /\ UNCHANGED <<rows, stale, panel, task, batch, sweeps, bounds>>

(* Renewals fail long enough for the key to expire under its owner: only   *)
(* the panel request lasts that long.                                      *)
LockLapses(w) ==
    /\ lapses < MaxLapses /\ At(w, "answer") /\ task[w].locked /\ LockOf(w) = w
    /\ OrderOf(w) \notin stale
    /\ lapses' = lapses + 1
    /\ lock' = [lock EXCEPT ![OrderOf(w)][task[w].key] = Free]
    /\ UNCHANGED <<rows, stale, panel, task, batch, sweeps, jobs, crashes>>

Heartbeat(w) ==
    /\ task[w].locked /\ ~task[w].lost /\ LockOf(w) # w
    /\ task' = [task EXCEPT ![w].lost = TRUE]
    /\ UNCHANGED <<rows, External>>

BotCrash ==
    /\ crashes < MaxCrashes
    /\ crashes' = crashes + 1
    /\ task'    = [w \in Procs |-> IdleTask]
    /\ lock'    = [o \in Orders |-> [s \in Sites |-> IF lock[o][s] = Free THEN Free ELSE Dead]]
    /\ batch'   = {}
    /\ sweeps'  = 2
    /\ UNCHANGED <<rows, stale, panel, jobs, lapses>>

-----------------------------------------------------------------------------
Step(w) ==
    \/ EnsureNaming(w) \/ AcquireLock(w) \/ GiveUpLock(w) \/ ReleaseLock(w)
    \/ PipelineBody(w) \/ ExecutorBody(w) \/ RecoveryBody(w) \/ Finish(w)
    \/ Claim(w) \/ SendCreate(w) \/ CreateAnswered(w)
    \/ Persist(w) \/ PersistFails(w) \/ LadderCompletes(w) \/ LadderFails(w)
    \/ Refund(w) \/ Probe(w) \/ Adopt(w) \/ LockLapses(w) \/ Heartbeat(w)

Next ==
    \/ \E w \in Procs : Step(w)
    \/ \E w \in Dispatchers, o \in Orders : ReadHead(w, o)
    \/ \E w \in Jobs, o \in Orders : FollowUp(w, o)
    \/ StartRecovery
    \/ \E o \in Orders : RecoverNext(o) \/ GrowsStale(o) \/ ReassignPanel(o) \/ RetryBind(o)
    \/ \E o \in Orders, s \in Sites : CreateArrives(o, s) \/ CreateIsLost(o, s) \/ LockExpires(o, s)
    \/ BotCrash

Spec == Init /\ [][Next]_vars

-----------------------------------------------------------------------------
(* Properties.                                                             *)

(* Type invariant of the rows, the panel, the locks and the processes.     *)
TypeOK ==
    /\ order \in [Orders -> OrderStatuses]
    /\ named \subseteq Orders /\ service \subseteq Orders
    /\ refunds \in [Orders -> Nat]
    /\ reservation \in [Orders -> ReservationStatuses]
    /\ held \subseteq Orders /\ drifted \subseteq Orders /\ stale \subseteq Orders
    /\ account \in [Orders -> [Sites -> {"none", "own", "foreign"}]]
    /\ flying \subseteq Orders \X Sites
    /\ created \in [Orders -> Nat]
    /\ lock \in [Orders -> [Sites -> Procs \cup {Free, Dead}]]
    /\ task \in [Procs -> TaskRecord]
    /\ \A w \in Procs : task[w].pc # "idle" => task[w].order \in Orders
    /\ batch \subseteq Orders /\ sweeps \in 0 .. 2
    /\ jobs \in [Orders -> Nat] /\ crashes \in Nat /\ lapses \in Nat

(* A buyer never gets both the service and the money back: whoever refunds *)
(* an order does so knowing that nobody has recorded or will record a      *)
(* Service row for it.                                                     *)
NoServiceAndRefund == \A o \in Orders : refunds[o] > 0 => o \notin service

(* However often an order is dispatched, re-delivered or recovered after   *)
(* crashes, one create request at most is sent to the panel for it.        *)
CreatedOnce == \A o \in Orders : created[o] <= 1

(* No silent charge: an order that left the pipeline has its service or    *)
(* exactly one refund.                                                     *)
OutcomeAccounted ==
    \A o \in Orders : /\ order[o] = "COMPLETED" => o \in service
                      /\ order[o] = "FAILED"    => refunds[o] = 1

(* A username stays blocked exactly as long as it should: a live service   *)
(* keeps its reservation and a refunded order gives it back.               *)
ReservationFollows ==
    \A o \in Reserved \ held :
        /\ o \in service  => reservation[o] = "CONSUMED"
        /\ refunds[o] > 0 => reservation[o] = "RELEASED"

(* A refund is paid only while the panel has no account of the order and   *)
(* no request that may still create one, except by the last rung of the    *)
(* recovery ladder; and no account appears once the refund is paid.        *)
RefundProvesAbsence ==
    [][\A o \in Orders :
        /\ refunds'[o] # refunds[o] =>
              \/ \A s \in Sites : account[o][s] # "own" /\ <<o, s>> \notin flying
              \/ \E w \in Procs : At(w, "orphan") /\ OrderOf(w) = o
        /\ \A s \in Sites : account'[o][s] # account[o][s] => refunds[o] = 0]_vars

(* While the case of an unbound username is open, its order stays PAID and *)
(* nobody touches the panel for it.                                        *)
HeldUntouched == \A o \in held : order[o] = "PAID" /\ created[o] = 0

(* The account that a Service row stands for was created for its order.    *)
ServiceOwnsAccount == \A o \in service : \E s \in Sites : account[o][s] = "own"
=============================================================================
