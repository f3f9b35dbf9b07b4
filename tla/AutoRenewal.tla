---------------------------- MODULE AutoRenewal ----------------------------
(***************************************************************************)
(* Wallet auto-renewal of one service.  The worker scans the user's        *)
(* mandate and creates one attempt per expiry cycle, with one execute job; *)
(* the bot's consumer claims the attempt, checks the mandate, the cycle    *)
(* and the plan, charges the wallet under a key of the cycle and has the   *)
(* order fulfilled; a reconcile enqueues attempts again whose job was      *)
(* lost.  Meanwhile the user pauses, resumes, cancels, renews by hand, and *)
(* both processes crash.                                                   *)
(*                                                                         *)
(* Everything is keyed by mandate and cycle, and a service has one mandate *)
(* for ever: the module models one.  A cycle is the expiry the service     *)
(* has; every applied renewal begins the next one.  How an order is        *)
(* executed is the subject of ServiceMutation: here it is PAID, then       *)
(* COMPLETED with the cycle moved, FAILED with a refund, or left           *)
(* PROVISIONING.                                                           *)
(***************************************************************************)
EXTENDS Integers

CONSTANTS
    Executors,    \* slots of the bot's consumer
    MaxCycle,     \* bound: cycles with an attempt
    MaxTries,     \* wallet_auto_renewal_max_attempts_per_cycle
    MaxBalance,   \* bound: renewals the wallet is topped up for
    MaxCrashes    \* bound: crashes of the bot process

ASSUME AutoRenewalAssumption ==
    MaxCycle \in Nat /\ MaxTries \in Nat /\ MaxBalance \in Nat /\ MaxCrashes \in Nat

Cycles == 0 .. MaxCycle

VARIABLES
    mandate,    \* ServiceAutoRenewalMandate.status, NONE without a row
    attempt,    \* the ServiceAutoRenewalAttempt of each cycle
    order,      \* status of the order created by the charge of the cycle
    debits, refunds,   \* wallet transactions of that order
    balance,    \* User.balanceToman in prices of the plan
    cycle,      \* expiry cycle of the Service row
    enabled,    \* wallet_auto_renewal_enabled
    job,        \* the execute job of each attempt
    task,       \* process records of the consumer
    scan,       \* process record of the worker's scan
    cancelling, \* a cancelMandate that has updated the mandate only
    crashes,
    late        \* ghost: cycles claimed after the mandate was cancelled

rows  == <<mandate, attempt, order, debits, refunds, balance>>
procs == <<job, task, scan, cancelling>>
vars  == <<rows, cycle, enabled, procs, crashes, late>>

MandateStatuses == {"NONE", "ACTIVE", "PAUSED", "CANCELLED"}
AttemptStatuses == {"NONE", "SCHEDULED", "CLAIMED", "PAYMENT_CREATED", "FULFILLING", "COMPLETED",
                    "FAILED", "CANCELLED", "INSUFFICIENT_BALANCE", "REQUIRES_ACTION"}
OrderStatuses   == {"NONE", "PAID", "PROVISIONING", "COMPLETED", "FAILED"}
(* The job of an attempt has its id.  One whose executor is taken for      *)
(* stalled is delivered a second time and never a third; one that failed   *)
(* stays in the queue.                                                     *)
Waiting   == {"queued", "redelivered"}
Running   == {"active", "lastActive"}
JobStates == Waiting \cup Running \cup {"none", "failed"}
Steps == {"idle", "claim", "check", "charge", "pause", "mark", "fulfil", "pauseAfter"}

NoAttempt == [status |-> "NONE", number |-> 1, waits |-> FALSE]
IdleTask  == [pc |-> "idle", cycle |-> 0, to |-> "NONE"]
IdleScan  == [pc |-> "idle", cycle |-> 0]

Init ==
    /\ mandate    = "NONE"
    /\ attempt    = [c \in Cycles |-> NoAttempt]
    /\ order      = [c \in Cycles |-> "NONE"]
    /\ debits     = [c \in Cycles |-> 0]
    /\ refunds    = [c \in Cycles |-> 0]
    /\ balance    = 0
    /\ cycle      = 0
    /\ enabled    = TRUE
    /\ job        = [c \in Cycles |-> "none"]
    /\ task       = [w \in Executors |-> IdleTask]
    /\ scan       = IdleScan
    /\ cancelling = FALSE
    /\ crashes    = 0
    /\ late       = {}

-----------------------------------------------------------------------------
(* The user, the administrator and the rest of the shop.                   *)

(* createMandate: serviceId is unique, so that a paused or cancelled       *)
(* mandate is never replaced.                                              *)
CreateMandate ==
    /\ enabled /\ mandate = "NONE"
    /\ mandate' = "ACTIVE"
    /\ UNCHANGED <<attempt, order, debits, refunds, balance, cycle, enabled, procs, crashes, late>>

PauseIfActive == mandate' = IF mandate = "ACTIVE" THEN "PAUSED" ELSE mandate

(* pauseMandateByUser, and adminStopMandate without its cancel flag.       *)
Pause ==
    /\ mandate = "ACTIVE"
    /\ PauseIfActive
    /\ UNCHANGED <<attempt, order, debits, refunds, balance, cycle, enabled, procs, crashes, late>>

Resume ==
    /\ enabled /\ mandate = "PAUSED"
    /\ mandate' = "ACTIVE"
    /\ UNCHANGED <<attempt, order, debits, refunds, balance, cycle, enabled, procs, crashes, late>>

(* cancelMandate updates the mandate and then the attempts that are not    *)
(* committed; adminStopMandate leaves the attempts alone.                  *)
CancelMandate ==
    /\ mandate \in {"ACTIVE", "PAUSED"}
    /\ mandate' = "CANCELLED"
    /\ cancelling' \in BOOLEAN
    /\ UNCHANGED <<attempt, order, debits, refunds, balance, cycle, enabled, job, task, scan,
                   crashes, late>>

CancelAttempts ==
    /\ cancelling
    /\ cancelling' = FALSE
    /\ attempt' = [c \in Cycles |-> IF attempt[c].status \in {"SCHEDULED", "CLAIMED"}
                                    THEN [attempt[c] EXCEPT !.status = "CANCELLED"]
                                    ELSE attempt[c]]
    /\ UNCHANGED <<mandate, order, debits, refunds, balance, cycle, enabled, job, task, scan,
                   crashes, late>>

SwitchSystem ==
    /\ enabled' = ~enabled
    /\ UNCHANGED <<rows, cycle, procs, crashes, late>>

TopUp ==
    /\ balance < MaxBalance
    /\ balance' = balance + 1
    /\ UNCHANGED <<mandate, attempt, order, debits, refunds, cycle, enabled, procs, crashes, late>>

Spend ==
    /\ balance > 0
    /\ balance' = balance - 1
    /\ UNCHANGED <<mandate, attempt, order, debits, refunds, cycle, enabled, procs, crashes, late>>

(* Another order of the service is applied.                                *)
ManualRenewal ==
    /\ cycle <= MaxCycle
    /\ cycle' = cycle + 1
    /\ UNCHANGED <<rows, enabled, procs, crashes, late>>

-----------------------------------------------------------------------------
(* The worker.                                                             *)

(* No job is added beside one of the same id, a failed one included.       *)
Enqueued(c) == [job EXCEPT ![c] = IF @ = "none" THEN "queued" ELSE @]

(* evaluateMandate of a mandate in its charge-lead window: a service or    *)
(* plan that does not qualify pauses it.  A mandate that is not due, whose *)
(* notice is not delivered, or whose service row is not fresh is deferred. *)
ScanMandate ==
    /\ scan.pc = "idle" /\ enabled /\ mandate = "ACTIVE" /\ cycle <= MaxCycle
    /\ \/ PauseIfActive /\ UNCHANGED scan
       \/ scan' = [pc |-> "create", cycle |-> cycle] /\ UNCHANGED mandate
    /\ UNCHANGED <<attempt, order, debits, refunds, balance, cycle, enabled, job, task, cancelling,
                   crashes, late>>

(* The attempt is unique for mandate and cycle; one that has not ended is  *)
(* enqueued again.                                                         *)
CreateAttempt ==
    LET c == scan.cycle IN
    /\ scan.pc = "create"
    /\ attempt' = [attempt EXCEPT ![c].status = IF @ = "NONE" THEN "SCHEDULED" ELSE @]
    /\ scan' = IF attempt[c].status \in {"NONE", "SCHEDULED", "CLAIMED", "PAYMENT_CREATED",
                                         "FULFILLING"}
               THEN [scan EXCEPT !.pc = "enqueue"] ELSE IdleScan
    /\ UNCHANGED <<mandate, order, debits, refunds, balance, cycle, enabled, job, task, cancelling,
                   crashes, late>>

EnqueueAttempt ==
    /\ scan.pc = "enqueue"
    /\ job' = Enqueued(scan.cycle)
    /\ scan' = IdleScan
    /\ UNCHANGED <<rows, cycle, enabled, task, cancelling, crashes, late>>

WorkerCrash ==
    /\ scan.pc # "idle"
    /\ scan' = IdleScan
    /\ UNCHANGED <<rows, cycle, enabled, job, task, cancelling, crashes, late>>

Busy(c) == \E w \in Executors : task[w].pc # "idle" /\ task[w].cycle = c

(* The reconcile of attempts that nobody touched for a quarter of an hour. *)
ReconcileCancelsOnly(c) ==   \* mutant: a lost job is not replaced
    /\ enabled /\ attempt[c].status \in {"SCHEDULED", "CLAIMED"} /\ ~Busy(c) /\ cycle # c
    /\ attempt' = [attempt EXCEPT ![c].status = "CANCELLED"]
    /\ UNCHANGED <<mandate, order, debits, refunds, balance, cycle, enabled, procs, crashes, late>>

Reconcile(c) ==
    /\ enabled /\ attempt[c].status \in {"SCHEDULED", "CLAIMED"} /\ ~Busy(c)
    /\ \/ /\ cycle # c
          /\ attempt' = [attempt EXCEPT ![c].status = "CANCELLED"]
          /\ UNCHANGED job
       \/ /\ cycle = c /\ job[c] = "none"
          /\ job' = Enqueued(c)
          /\ UNCHANGED attempt
    /\ UNCHANGED <<mandate, order, debits, refunds, balance, cycle, enabled, task, scan, cancelling,
                   crashes, late>>

(* The interval of a bounded retry elapses.                                *)
RetryIsDue(c) ==
    /\ attempt[c].waits
    /\ attempt' = [attempt EXCEPT ![c].waits = FALSE]
    /\ UNCHANGED <<mandate, order, debits, refunds, balance, cycle, enabled, procs, crashes, late>>

-----------------------------------------------------------------------------
(* executeAutoRenewalAttempt in the bot's consumer.                        *)

CycleOf(w)  == task[w].cycle
Goto(w, pc) == task' = [task EXCEPT ![w].pc = pc]
Continue(w, pc, status) == task' = [task EXCEPT ![w].pc = pc, ![w].to = status]
Finish(w) ==
    /\ task' = [task EXCEPT ![w] = IdleTask]
    /\ job'  = [job EXCEPT ![CycleOf(w)] = IF @ \in Running THEN "none" ELSE @]

(* Only a SCHEDULED attempt that is due is executed.                       *)
StartJob(w, c) ==
    /\ task[w].pc = "idle" /\ job[c] \in Waiting
    /\ IF attempt[c].status = "SCHEDULED" /\ ~attempt[c].waits /\ enabled
       THEN /\ task' = [task EXCEPT ![w] = [pc |-> "claim", cycle |-> c, to |-> "NONE"]]
            /\ job'  = [job EXCEPT ![c] = IF @ = "queued" THEN "active" ELSE "lastActive"]
       ELSE /\ job'  = [job EXCEPT ![c] = "none"]
            /\ UNCHANGED task
    /\ UNCHANGED <<rows, cycle, enabled, scan, cancelling, crashes, late>>

ClaimUnconditionally(w) ==   \* mutant
    LET c == CycleOf(w) IN
    /\ task[w].pc = "claim"
    /\ attempt' = [attempt EXCEPT ![c].status = "CLAIMED"]
    /\ Goto(w, "check")
    /\ UNCHANGED <<mandate, order, debits, refunds, balance, cycle, enabled, job, scan, cancelling,
                   crashes, late>>

ClaimAttempt(w) ==
    LET c == CycleOf(w) IN
    /\ task[w].pc = "claim"
    /\ IF attempt[c].status = "SCHEDULED"
       THEN /\ attempt' = [attempt EXCEPT ![c].status = "CLAIMED"]
            /\ late' = IF mandate = "CANCELLED" THEN late \cup {c} ELSE late
            /\ Goto(w, "check")
            /\ UNCHANGED job
       ELSE Finish(w) /\ UNCHANGED <<attempt, late>>
    /\ UNCHANGED <<mandate, order, debits, refunds, balance, cycle, enabled, scan, cancelling,
                   crashes>>

CheckPlanOnly(w) ==   \* mutant: the mandate is not read again
    LET c == CycleOf(w) IN
    /\ task[w].pc = "check"
    /\ IF cycle # c THEN Continue(w, "mark", "CANCELLED") ELSE Goto(w, "charge")
    /\ UNCHANGED <<rows, cycle, enabled, job, scan, cancelling, crashes, late>>

(* The reads of runClaimedAttempt before the charge.  A cycle never comes  *)
(* back, so that the mandate and the service may be read as of one moment. *)
(* An unusable service or plan, or a price above the ceiling, pauses.      *)
CheckAttempt(w) ==
    LET c == CycleOf(w) IN
    /\ task[w].pc = "check"
    /\ \/ mandate # "ACTIVE" /\ Continue(w, "mark", "CANCELLED")
       \/ mandate = "ACTIVE" /\ Continue(w, "pause", "CANCELLED")
       \/ mandate = "ACTIVE" /\ cycle # c /\ Continue(w, "mark", "CANCELLED")
       \/ mandate = "ACTIVE" /\ cycle = c /\ Continue(w, "pause", "FAILED")
       \/ mandate = "ACTIVE" /\ cycle = c /\ Goto(w, "charge")
    /\ UNCHANGED <<rows, cycle, enabled, job, scan, cancelling, crashes, late>>

CanRetry(a)        == a.number < MaxTries

(* payAutoRenewalWithWallet: plan, ceiling and wallet switch once more,    *)
(* then the wallet settlement, which finds the order of the same key.      *)
(* Insufficient balance is retried MaxTries times in all.                  *)
Charge(w) ==
    LET c == CycleOf(w) IN
    /\ task[w].pc = "charge"
    /\ \/ Continue(w, "pause", "FAILED") /\ UNCHANGED <<order, debits, balance>>
       \/ Continue(w, "mark", "SCHEDULED") /\ UNCHANGED <<order, debits, balance>>
       \/ /\ order[c] # "NONE"
          /\ Continue(w, "mark", "PAYMENT_CREATED")
          /\ UNCHANGED <<order, debits, balance>>
       \/ /\ order[c] = "NONE" /\ balance > 0
          /\ order'   = [order EXCEPT ![c] = "PAID"]
          /\ debits'  = [debits EXCEPT ![c] = @ + 1]
          /\ balance' = balance - 1
          /\ Continue(w, "mark", "PAYMENT_CREATED")
       \/ /\ order[c] = "NONE" /\ balance = 0
          /\ IF CanRetry(attempt[c]) THEN Continue(w, "mark", "RETRY")
             ELSE Continue(w, "pause", "INSUFFICIENT_BALANCE")
          /\ UNCHANGED <<order, debits, balance>>
    /\ UNCHANGED <<mandate, attempt, refunds, cycle, enabled, job, scan, cancelling, crashes, late>>

(* pauseMandateForAttempt: only an ACTIVE mandate.                         *)
PauseMandate(w) ==
    /\ task[w].pc \in {"pause", "pauseAfter"}
    /\ PauseIfActive
    /\ IF task[w].pc = "pause" THEN Goto(w, "mark") /\ UNCHANGED job ELSE Finish(w)
    /\ UNCHANGED <<attempt, order, debits, refunds, balance, cycle, enabled, scan, cancelling,
                   crashes, late>>

Marked(a, to) ==
    CASE to = "RETRY"     -> [status |-> "SCHEDULED", number |-> a.number + 1, waits |-> TRUE]
      [] to = "SCHEDULED" -> [a EXCEPT !.status = "SCHEDULED", !.waits = TRUE]
      [] OTHER            -> [a EXCEPT !.status = to]

(* transitionAttempt, by id.  A charged attempt goes on to its order; one  *)
(* whose order failed or is uncertain (order exists) pauses the mandate.   *)
MarkAttempt(w) ==
    LET c == CycleOf(w)  to == task[w].to IN
    /\ task[w].pc = "mark"
    /\ attempt' = [attempt EXCEPT ![c] = Marked(@, to)]
    /\ CASE to = "PAYMENT_CREATED" -> Continue(w, "mark", "FULFILLING") /\ UNCHANGED job
         [] to = "FULFILLING"      -> Goto(w, "fulfil") /\ UNCHANGED job
         [] to = "REQUIRES_ACTION" \/ (to = "FAILED" /\ order[c] # "NONE") ->
                Goto(w, "pauseAfter") /\ UNCHANGED job
         [] OTHER -> Finish(w)
    /\ UNCHANGED <<mandate, order, debits, refunds, balance, cycle, enabled, scan, cancelling,
                   crashes, late>>

-----------------------------------------------------------------------------
(* Fulfilment of the charged order.                                        *)

Renewed(c) ==
    /\ order' = [order EXCEPT ![c] = "COMPLETED"]
    /\ cycle' = cycle + 1
    /\ UNCHANGED <<refunds, balance>>
Refunded(c) ==
    /\ order'   = [order EXCEPT ![c] = "FAILED"]
    /\ refunds' = [refunds EXCEPT ![c] = @ + 1]
    /\ balance' = balance + 1
    /\ UNCHANGED cycle
Unsettled(c) ==
    /\ order' = [order EXCEPT ![c] = "PROVISIONING"]
    /\ UNCHANGED <<refunds, balance, cycle>>

UncertainFails(w) ==   \* mutant: whatever is not renewed counts as refunded
    LET c == CycleOf(w) IN
    /\ task[w].pc = "fulfil"
    /\ \/ order[c] = "PAID" /\ Renewed(c) /\ Continue(w, "mark", "COMPLETED")
       \/ order[c] = "PAID" /\ Refunded(c) /\ Continue(w, "mark", "FAILED")
       \/ order[c] = "PAID" /\ Unsettled(c) /\ Continue(w, "mark", "FAILED")
    /\ UNCHANGED <<mandate, attempt, debits, enabled, job, scan, cancelling, crashes, late>>

(* dispatchPaidOrderFulfillment and finishFulfillment.  A contended lock,  *)
(* an unknown panel outcome and an order that another dispatcher failed or *)
(* is executing are uncertain.                                             *)
Fulfil(w) ==
    LET c == CycleOf(w) IN
    /\ task[w].pc = "fulfil"
    /\ \/ order[c] = "PAID" /\ Renewed(c) /\ Continue(w, "mark", "COMPLETED")
       \/ order[c] = "PAID" /\ Refunded(c) /\ Continue(w, "mark", "FAILED")
       \/ order[c] = "PAID" /\ Unsettled(c) /\ Continue(w, "mark", "REQUIRES_ACTION")
       \/ /\ order[c] = "COMPLETED" /\ Continue(w, "mark", "COMPLETED")
          /\ UNCHANGED <<order, refunds, balance, cycle>>
       \/ /\ Continue(w, "mark", "REQUIRES_ACTION")
          /\ UNCHANGED <<order, refunds, balance, cycle>>
    /\ UNCHANGED <<mandate, attempt, debits, enabled, job, scan, cancelling, crashes, late>>

(* The settlement sweep dispatches a wallet order that is still PAID, the  *)
(* startup recovery settles one that was left PROVISIONING.                *)
OthersFulfil(c) ==
    /\ \/ order[c] \in {"PAID", "PROVISIONING"} /\ (Renewed(c) \/ Refunded(c))
       \/ order[c] = "PAID" /\ Unsettled(c)
    /\ UNCHANGED <<mandate, attempt, debits, enabled, procs, crashes, late>>

-----------------------------------------------------------------------------
(* Faults.                                                                 *)

(* A statement throws after the claim: the job ends, the attempt stays.    *)
ExecutorThrows(w) ==
    /\ task[w].pc \notin {"idle", "claim"}
    /\ Finish(w)
    /\ UNCHANGED <<rows, cycle, enabled, scan, cancelling, crashes, late>>

(* The claim and the reads before it are outside the try: the job fails.   *)
ClaimThrows(w) ==
    /\ task[w].pc = "claim"
    /\ task' = [task EXCEPT ![w] = IdleTask]
    /\ job'  = [job EXCEPT ![CycleOf(w)] = IF @ \in Running THEN "failed" ELSE @]
    /\ UNCHANGED <<rows, cycle, enabled, scan, cancelling, crashes, late>>

StartThrows(c) ==
    /\ job[c] \in Waiting /\ \E w \in Executors : task[w].pc = "idle"
    /\ job' = [job EXCEPT ![c] = "failed"]
    /\ UNCHANGED <<rows, cycle, enabled, task, scan, cancelling, crashes, late>>

(* A failed job is dropped a day later, when another job fails.            *)
DropFailed(c) ==
    /\ job[c] = "failed"
    /\ job' = [job EXCEPT ![c] = "none"]
    /\ UNCHANGED <<rows, cycle, enabled, task, scan, cancelling, crashes, late>>

(* BullMQ takes the job of a slow or dead executor for stalled.            *)
Stalled(s) == IF s = "active" THEN "redelivered" ELSE IF s = "lastActive" THEN "failed" ELSE s

JobStalls(c) ==
    /\ job[c] \in Running
    /\ job' = [job EXCEPT ![c] = Stalled(@)]
    /\ UNCHANGED <<rows, cycle, enabled, task, scan, cancelling, crashes, late>>

BotCrash ==
    /\ crashes < MaxCrashes
    /\ crashes' = crashes + 1
    /\ task' = [w \in Executors |-> IdleTask]
    /\ job'  = [c \in Cycles |-> Stalled(job[c])]
    /\ cancelling' = FALSE
    /\ UNCHANGED <<rows, cycle, enabled, scan, late>>

-----------------------------------------------------------------------------
Execute(w) ==
    \/ ClaimAttempt(w) \/ CheckAttempt(w) \/ Charge(w) \/ PauseMandate(w) \/ MarkAttempt(w)
    \/ Fulfil(w)

Next ==
    \/ CreateMandate \/ Pause \/ Resume \/ CancelMandate \/ CancelAttempts
    \/ SwitchSystem \/ TopUp \/ Spend \/ ManualRenewal
    \/ ScanMandate \/ CreateAttempt \/ EnqueueAttempt \/ WorkerCrash
    \/ \E c \in Cycles : Reconcile(c) \/ RetryIsDue(c) \/ OthersFulfil(c)
    \/ \E c \in Cycles : JobStalls(c) \/ StartThrows(c) \/ DropFailed(c)
    \/ \E w \in Executors : Execute(w) \/ ExecutorThrows(w) \/ ClaimThrows(w)
    \/ \E w \in Executors, c \in Cycles : StartJob(w, c)
    \/ BotCrash

Spec == Init /\ [][Next]_vars

(* Fairness of what runs by itself: the consumer, the reconcile scheduler  *)
(* of the worker and the clock.  Nothing is assumed of users and panels.   *)
FairSpec ==
    /\ Spec
    /\ \A w \in Executors : WF_vars(Execute(w))
    /\ \A c \in Cycles : /\ WF_vars(Reconcile(c)) /\ WF_vars(RetryIsDue(c))
                         /\ SF_vars(\E w \in Executors : StartJob(w, c))

-----------------------------------------------------------------------------
(* Properties.                                                             *)

(* Type invariant of the rows, the queue and the processes.                *)
TypeOK ==
    /\ mandate \in MandateStatuses
    /\ attempt \in [Cycles -> [status : AttemptStatuses, number : 1 .. MaxTries + 1,
                               waits : BOOLEAN]]
    /\ order \in [Cycles -> OrderStatuses]
    /\ debits \in [Cycles -> Nat] /\ refunds \in [Cycles -> Nat] /\ balance \in Nat
    /\ cycle \in Nat /\ enabled \in BOOLEAN
    /\ job \in [Cycles -> JobStates]
    /\ task \in [Executors -> [pc : Steps, cycle : Cycles, to : AttemptStatuses \cup {"RETRY"}]]
    /\ scan \in [pc : {"idle", "create", "enqueue"}, cycle : Cycles]
    /\ cancelling \in BOOLEAN /\ crashes \in Nat /\ late \subseteq Cycles

(* What the attempt tells the user and the statistics agrees with the      *)
(* money, however executor, sweep, recovery and redelivered jobs           *)
(* interleave: a completed attempt was charged once and its order renewed  *)
(* the service, a failed or insufficient one left no charge behind.        *)
AttemptAgrees ==
    \A c \in Cycles :
        /\ attempt[c].status = "COMPLETED" =>
              order[c] = "COMPLETED" /\ debits[c] = 1 /\ refunds[c] = 0
        /\ attempt[c].status \in {"FAILED", "INSUFFICIENT_BALANCE"} => debits[c] = refunds[c]
        /\ attempt[c].status = "SCHEDULED" => debits[c] = 0

(* An attempt that ended is never executed, cancelled or marked again.     *)
Ended == {"COMPLETED", "FAILED", "INSUFFICIENT_BALANCE", "REQUIRES_ACTION"}
EndedIsFinal ==
    [][\A c \in Cycles : attempt[c].status \in Ended => attempt'[c].status = attempt[c].status]_vars

(* After the user cancelled, no attempt that is still to be claimed moves  *)
(* money, also when its job is delivered later or twice.                   *)
CancelStopsLaterClaims ==
    [][\A c \in Cycles : debits'[c] > debits[c] => c \notin late]_vars

(* A scheduled attempt does not stay behind: when its job is lost with the *)
(* worker, or ended because the attempt was not due, the reconcile adds    *)
(* another, unless the system is switched off or the job failed.           *)
ScheduledIsRun ==
    \A c \in Cycles : attempt[c].status = "SCHEDULED" ~>
                         (attempt[c].status # "SCHEDULED" \/ ~enabled \/ job[c] = "failed")

-----------------------------------------------------------------------------
(* What comments and documents say and the code does not keep.             *)

(* "Reconcile safety net: re-arms attempts whose mandate is still due but  *)
(* whose execute job was lost" (scan.ts): not one whose job failed, which  *)
(* the new job of the same id cannot replace.                              *)
FailedIsReplaced ==
    \A c \in Cycles : attempt[c].status = "SCHEDULED" ~>
                         (attempt[c].status # "SCHEDULED" \/ ~enabled)

(* An attempt whose executor died is taken up again.                       *)
ClaimedIsResumed ==
    \A c \in Cycles : attempt[c].status = "CLAIMED" ~>
                         (attempt[c].status # "CLAIMED" \/ ~enabled)

(* A user who topped up and resumed after an insufficient balance is       *)
(* charged for the cycle, or renews by hand.                               *)
ResumedIsCharged ==
    \A c \in Cycles :
        (attempt[c].status = "INSUFFICIENT_BALANCE" /\ mandate = "ACTIVE" /\ balance > 0) ~>
            (debits[c] > 0 \/ cycle # c \/ mandate # "ACTIVE" \/ balance = 0 \/ ~enabled)
=============================================================================
