# ZED_BOT in TLA+

TLA+ models of the parts of ZED_BOT that move money and create services, with
TLC runs that check them on small instances and TLAPS proofs that hold for every
instance. Paths below are relative to the repository root; `apps/bot` and so on
live under `src/` here.

- `Settlement.tla`: one checkout, several independent ways to pay it.
- `CheckoutClaim.tla`: what settlement promises, in four actions.
- `Provisioning.tla`: from a PAID service order to a service or a refund.
- `ServiceMutation.tla`: renewals, extra volume and extra time of one service.
- `OrderOutcome.tla`: what a paid order promises, in two actions.
- `AutoRenewal.tla`: the wallet auto-renewal of one service.
- `StockDelivery.tla`: delivery of an other-product's orders, from stock or by hand.
- `FreeTrial.tla`: free trials, their allowance and a panel's capacity.
- `StarsSubscription.tla`: one Telegram Stars subscription and its refunds.
- `AdminOperation.tla`: the administrator's operations on one service.
- `MC*.tla`, `*.cfg`: the instances TLC checks (`AutoRenewal`, `StockDelivery` and
  `StarsSubscription` need no MC module: their constants are numbers and model
  values).
- `*_proofs.tla`: the theorems.

`tlc -config X.cfg M`, with the module that `PROJECT.json` names for the run,
repeats a run and `tlapm M_proofs.tla` a proof. `PROJECT.json` names for every
definition the lines of code it stands for.

## 1. Inventory of the system

Four processes share one PostgreSQL database and one Redis:

| process | what runs concurrently in it |
|---|---|
| `apps/bot` | Telegram updates by long polling, one at a time; the settlement sweep and the free-trial sweep (self-rescheduling timers); the startup recovery (at start and 15 minutes later); BullMQ consumers for Mini App orders, auto-renewal, Stars subscriptions and referral commissions |
| `apps/api` | provider callbacks and IPNs, the Mini App routes; any number of requests at a time |
| `apps/worker` | BullMQ schedulers and workers: notifications, auto-renewal scan, Stars recovery, referral scan, reservation cleanup, backups, log delivery |
| `apps/miniapp` | the browser front end |

They interact through rows (compare-and-set `updateMany`, unique indexes,
`FOR UPDATE`), through Redis locks (`service-lock.ts`) and through queue jobs.
External actors are the payment providers, Telegram, and the VPN panels.

| component | state it keeps | operations that change it | hard behaviour | what makes it correct | here |
|---|---|---|---|---|---|
| Cross-provider settlement | CheckoutSession, Payment, Order, balance, WalletTransaction, reconciliation cases | callback/IPN recording, verify button, Stars payment, receipt approval and rejection, wallet order, sweep | callbacks, buttons, admins and sweep at once; crash between statements; revived invoices | one settlement per checkout; money and order with the claim; every recorded success ends settled or under review | `Settlement` |
| Username reservations | ServiceUsernameReservation | hold, claim at checkout, attach at settlement, consume, release, expiry sweep | sweep against a late settlement | a paid username is bound or its order is held | parts in both modules |
| Discount codes | DiscountCodeUsage | claim under the row lock of the code | several checkouts, last use | never over the limit | part of `Settlement` |
| Service provisioning | Order.status, Service, naming snapshot, lock, panel account | claim, panel create, persist, recovery ladder, refund | four dispatchers; lost answers; lock that lapses; crash anywhere | one create request; a service or one refund, never both | `Provisioning` |
| Startup recovery | PROVISIONING orders | look up the account, adopt or refund | runs next to live dispatchers; trusts a not-found | refunds only what provably does not exist | parts of `Provisioning`, `ServiceMutation` |
| Service operations | Service limits and expiry, intent and applied events | renewal, extra volume, extra time; attribution after a crash | remote effect without anchor; two operations on one service | each paid operation applied once or refunded | `ServiceMutation`, `OrderOutcome` |
| Wallet auto-renewal | mandate, attempt | scan, claim, charge, fulfil, cancel, reconcile | cancel against an executing attempt; dead executors | one charge per cycle; none after a cancel | `AutoRenewal` |
| Stock and manual delivery | stock item, record, order | reserve, send, finalize, release, park, retry; manual queue, claim, hand over | unknown outcome of a send; two dispatches; a sold-out order in two queues | closed orders were delivered; a resumed order gets its own item | `StockDelivery` |
| Free trials | claim, entitlement | claim with capacity, provision, reconcile, expire | reconcile against a live create; two-step release | allowance used once or returned once; capacity held | `FreeTrial` |
| Stars subscriptions | subscription, charge | settle, recover, refund, past-due, cancel, reactivate | the same charge from two sources; refunds whose answer is lost | one renewal or refund per charge; nothing paid or owed is forgotten | `StarsSubscription` |
| Administrator operations | AdminServiceOperation, draft, Service | preview, confirm, execute, verify, reconcile | a lost answer; the buyer's operations in between | the record says what happened; a grant adds its amount once | `AdminOperation` |
| Referral commissions | commission, debt | credit, clawback, recovery | credit against refund | retained iff the order stands | not modelled |
| Support outbox | intent, recipient | record, claim, fan out, send, settle, stale recovery | claim that outlives its holder | every administrator told, state agrees | not modelled |
| Notification engine, low-balance alerts | notification, cycle, lease | scan, claim, send, sweep | stale eligibility; expired lease | no terminal row sent again | not modelled |
| Mini App commerce API | idempotency row | confirm, pay | execute before record | the retry converges | its orders only |
| Sync, toggle, link of the buyer | Service | one panel call under the service lock | lock contention; a sync over an unsettled order | see service operations | the sync, in `ServiceMutation`; sync and toggle, one action each, in `AdminOperation` |
| Broadcasts, log group, backups, terms, membership, catalog, settings, texts, front end, deployment | - | - | mostly I/O, wording, or one guarded update | - | not modelled |

`PROJECT.json` lists each with its files and the reason where it is left out,
and under `hazards` the places where the order of steps matters most, with the
property that covers each or the reason why none does yet.

## 2. How the models fit together, and the plan

A purchase runs through the modules in this order: `Settlement` ends where an order
is PAID; `Provisioning`, `ServiceMutation` or `StockDelivery` take it from there to a
delivery or a refund; `AutoRenewal` makes PAID renewal orders of its own, whose
execution is `ServiceMutation` again, and so does `StarsSubscription`, which also
gives the Stars of a failed one back. `FreeTrial` shares the panel and the lock with
them but no order; `AdminOperation` shares service, panel and lock, and has the
buyer's operations as actions of its own. Each module therefore starts with orders in the status its
predecessor leaves them in, and no module reads a variable of another: what they
share in the code (an order row, a wallet) only ever changes through the compare-and-set
statements that both sides model.

Two modules are abstract. `CheckoutClaim` is what settlement promises and `OrderOutcome`
what the execution of a paid order promises; `Settlement` and `ServiceMutation` are shown
to implement them, by TLC and by TLAPS.

The order of work was: money in (`Settlement`), money to service (`Provisioning`),
operations on a service (`ServiceMutation`), orders made without a user
(`AutoRenewal`), what is delivered by Telegram (`StockDelivery`), what is given away
(`FreeTrial`), what Telegram bills (`StarsSubscription`), what an administrator changes
(`AdminOperation`). What is left, in order of weight: the referral commissions, the
support outbox, the notification leases.

## 3. Settlement

### What corresponds to what

A Payment row is a constant with its method, its checkout and its purpose; the
model fills in `status`, `providerStatus` and `settlementStatus`. Every database
statement that commits on its own is an action, a `$transaction` is one action,
and what a handler read before its first write waits in its process record.

| model | code |
|---|---|
| `CreateCheckout`, `MaterializeCheckout` | `createCheckoutSession`, the wallet path's own copy of it |
| `OpenPayment`, `LoadOrCreatePaymentRow`, `ProviderCreates`, `ProviderCreateFails` | `getOrCreateGatewayPayment` |
| `Callback`, `RecordRead`, `RecordWrite`, `RecordStatus` | `payment-routes.ts`, `recordProviderOutcome` |
| `CheckPayment`, `VerifySucceeds`, `VerifyFails`, `FailPayment`, `VerifyUncertain`, `BotRecordSuccess`, `BotMarkProcessing` | the verify button and `settleGatewayPayment` before its transaction |
| `StarsPaid`, `StarsSettle` | `stars-payment.handler.ts` |
| `SettleCommit`, `SettleAbort`, `SettleLost`, `RecordDuplicateSuccess`, `NotifyCase` | the settlement transaction, its three ways to fail, and what follows it |
| `SubmitReceipt`, `InsertReceipt`, `ApproveRead`, `ApproveCommit`, `ApproveAbort`, `RejectRead`, `RejectCommit` | `receipt-review.service.ts` |
| `SettleWalletOrder` | `settleWalletOrder` of `packages/service-renewal` |
| `SweepSelect`, `SweepNext`, `SweepExpire`, `SweepNotify` | `gateway-settlement-runner.service.ts` |
| `ExpireReservation` | `expireDeadBound` of the worker |
| `Collect`, `Tick` | the buyer pays at the provider; time passes |

### What it leaves out

- Amounts: a checkout has a price, and the provider collects it. The guards
  against a mismatching amount, currency or payload are inside single calls.
- The customer-information gate is read before the transaction; information is
  never withdrawn, so reading it inside changes nothing.
- A sweep batch holds every ready payment; the code takes the 20 oldest
  (`gateway-settlement-runner.service.ts:146`). That delays the others, and rows that
  stay ready without ever settling (missing customer information, a mismatching
  amount) could fill the batch for good, which no model shows.
- `submitReceipt` (`payment-method.service.ts:180`) is one action of the buyer; the
  upload of the file is not modelled.
- Nobody resolves a case in `Settlement`; fulfilment starts where it ends.
- Telegram updates are handled one at a time, so one `Worker`; the sweep and the
  requests of the API interleave with it at every statement.

### What is checked

| run | instance | shows |
|---|---|---|
| `wallet` (1.4 million states) | a top-up by gateway and by receipt, a Stars order and a wallet order of one buyer, one discount use for the two orders | balance never negative, explained by its ledger; order and money with the claim; discount limit |
| `revival` (237 thousand) | a gateway and a card receipt for one checkout with a reserved username, two invoices of the gateway, late callbacks of the dead one, the reservation sweep | settles only what the provider really holds; an unbindable username is filed; a linked reservation stays linked |
| `sweep` (271 thousand, liveness) | Zarinpal and Telegram Stars both paid for one checkout; reports of success and of failure; a crash of the bot or of a request | one owner; losers filed with the right primary; refinement of `CheckoutClaim`; a success recorded on an uncontested row is settled or filed; the OWNER hears of an unbound username |

Two payments of one checkout meet in different pairs of settlers in the three runs
(gateway and Stars, gateway and receipt, Stars and wallet); what a third would add is
one more loser, and the theorems of section 12 hold for any number and any methods.
Zarinpal is the gateway with an on-demand verify. Two checkouts are
needed only where a shared resource is (balance, discount, draft), which is
`wallet`. Two invoices per payment are the least with a dead one. `sweep` has one
crash, which falls between any two statements; the other runs of `Settlement` have none.
`DiscountLimit = 1` makes the last use the first.

A verify of the button awaits the provider and writes FAILED afterwards, in a second
statement (`VerifyFails`, `FailPayment`): in between the buyer may pay and the API record
SUCCESS. `SuccessAccounted` therefore speaks of rows that are not `Contested`: nobody may
still write a status or an event decided on earlier. A contested row can end FAILED
with `providerStatus` SUCCESS, which no sweep selects; `VerifiedIsSettled`, the promise of
`docs/payment-lifecycle.md:31` without the exception, is refuted on the instance of `sweep`.

`FairSpec` assumes what the code schedules itself: the sweep loop reschedules
itself for ever and works off its batch (weak fairness of the loop as a whole); a
handler or a request that has started runs on. The OWNER alert is resent by every sweep
until Telegram takes it, and a sweep may be busy in between, hence strong fairness
for `SweepNotify`. Buyers, administrators and providers owe nothing. Crashes are
bounded, which stands for "crashes stop for long enough".

Deadlock is checked in every run of `Settlement`: the sweep's timer never stops,
so no state, not even one with every checkout decided, is without a next step.

## 4. Provisioning

### What corresponds to what

An order's *site* is the pair of panel and username a process works with; it is
both the key of the Redis lock and the place of the account. Three sites tell
the three identities apart that the code may compute: the one that was sold, the
legacy generated username, and the panel the product was moved to.

| model | code |
|---|---|
| `ReadHead`, `EnsureNaming`, `AcquireLock`, `GiveUpLock`, `PipelineBody`, `Claim`, `SendCreate`, `CreateAnswered`, `Persist`, `PersistFails`, `ReleaseLock` | `provisionPaidOrder` of the bot |
| `LadderCompletes`, `LadderFails`, `Refund` | `recoverOrRefundAfterPanelSuccess`, `failOrderWithRefund` |
| `FollowUp`, `ExecutorBody`, `Finish`, `Probe` | the Mini App consumer, `provisionPaidOrder` and `reconcileCommerceOrder` of the shared executor |
| `StartRecovery`, `RecoverNext`, `RecoveryBody`, `Probe`, `Adopt` | `recoverStaleProvisioningOrders`, `reconcilePurchase`, `adoptPanelAccount` |
| `CreateArrives`, `CreateIsLost` | the request of `createServiceAccount` on its way to the panel |
| `Heartbeat`, `LockLapses`, `LockExpires` | lock renewal and Redis key expiry |
| `RetryBind` | the OWNER re-binds the username of a held order |
| `BotCrash` | every process of this model lives in the bot |

### Assumptions

- `GrowsStale`: an order is stale after ten minutes without an update. By then
  its claimant has sent its request, the request (bounded to 10 s) has arrived or
  is lost, and a process whose lock expired (90 s) has noticed.
- `LockLapses`: a lock expires under a living owner only during the panel call,
  the only step that lasts that long.
- Prices are positive: an order of price zero needs no refund.
- An unrelated panel account carries a note of its own. (With an equal or empty
  note the adapter adopts it deliberately.)
- The repair of services without an order link, and the X-UI details, are left out.
- `GiveUpLock` stands for contention and for Redis being down.

### What is checked

| run | instance | shows |
|---|---|---|
| `provision` (66 thousand states) | an ordinary order and one whose username case is open, two dispatchers, the recovery; a crash and a lapsed lock | service or refund, never both; one create request; a refund only of what does not exist; the reservation follows; held orders wait |
| `followup` (923 thousand) | a Mini App order, the bot's dispatcher, two follow-up jobs, the recovery; a crash, a lapsed lock, and the product moved to another panel | still one create request |

Two dispatchers are the least that compete and the recovery is a third; one crash
separates the work before it from the recovery after it; one lapse puts a second
owner beside the first. Orders share nothing but the processes, so a second one is
there for the held case only. `followup` checks one property only: with two jobs,
or a moved product, the code keeps neither `NoServiceAndRefund` nor
`RefundProvesAbsence` (see the hazards at `execution.ts:320`,
`provisioning.service.ts:326` and `startup-recovery.service.ts:309`).

Orders end COMPLETED or FAILED and bounds run out, so these runs allow the model
to stop (`CHECK_DEADLOCK FALSE`).

## 5. ServiceMutation

One service, its row and its panel account; every order is a paid operation on
it. Orders of different services share no row and no lock, so one service is
the whole story.

### What corresponds to what

| model | code |
|---|---|
| `Dispatch`, `PipelineBody`, `Claim`, `Persist`, `PersistFails`, `Refund`, `Finish` | `service-renewal.service.ts`, `extra-volume.service.ts`, `extra-time.service.ts` of the bot |
| `FollowUpPaid`, `ExecutorBody`, `Claim` | `executeServiceOperation` of `packages/service-renewal` |
| `FollowUpProvisioning`, `AcquireLock`, `GiveUpLock`, `ProbeReconciler`, `Adopt` | `reconcileCommerceOrder` |
| `StartRecovery`, `RecoverNext`, `RecoveryBody`, `ProbeRecovery`, `Adopt` | `reconcileServiceMutation` and `completeReconciledMutation` of the startup recovery |
| `Target`, `AppliedTo`, `NotAppliedTo`, `MatchesIntent` | `calculateRenewal` and its two siblings, `classifyMutationState`, the test of `reconcileCommerceOrder` |
| `PanelRefuses`, `ResetTraffic`, `SendUpdate`, `UpdateLands`, `UpdateIsLost`, `UpdateConfirmed`, `UpdateUnknown` | `mutateGlobalClient` of the 3x-ui adapter and the network |
| `OpenPage`, `SyncRead`, `SyncWrite` | `syncServiceFromPanel` |
| `GrowsStale`, `NextDay`, `LockExpires`, `LockLapses`, `Heartbeat`, `BotCrash` | time, Redis, crashes |

### Assumptions

- Volumes are finite and the expiry is a day number: a target depends on the
  day it is computed on only when the service has run out, which is what
  `Derivable` says. Unlimited volumes and services without expiry are left out.
- The adapter is the 3x-ui one. The Marzban adapter reports a timed-out update as
  a definite failure, which the pipelines refund; no property of this module
  that speaks of the panel would survive that.
- As in `Provisioning`, an order is stale only when its claimant is through with
  the panel, and a lock lapses only during the panel call.
- A request whose sender gave up while it was under way, or whose lock lapsed,
  may overwrite the work of the next holder. Nothing in the code can prevent it
  (the panel takes absolute values and knows no version): such orders are in the
  ghost `stray`, and `NothingLost` and `RowIsPanel` except them.
- `reconcileStaleCommerceOrders` has no caller, so it is no action.

### What is checked

`operations` (2.7 million states: a Mini App renewal and a bot order of extra volume; a dispatcher, a
follow-up job, an opened page, the recovery; a crash or a lapsed lock, a day that
passes) shows that nobody is refunded and keeps the effect (`NothingForFree`), that
no completed operation is overwritten (`NothingLost`), that no update is sent twice
(`RequestOnce`), that the row agrees with the panel once orders are settled
(`RowIsPanel`), and that the bot's order implements `OrderOutcome`. The service has two
units, one used, and expires on day 1: the least where a consumed unit, a reset of
the usage and an expiry that passes all make a difference. Two operations of
different kinds are the least that can overwrite each other. Two jobs per order let
a reconciler follow an executor. Orders end and bounds run out, so the
model may stop.

## 6. AutoRenewal

A service has one mandate for ever (`serviceId` is unique and `createMandate` never
reactivates), attempts are unique per mandate and expiry cycle, and the wallet
order's idempotency key is made from both: one mandate is the whole story.

| model | code |
|---|---|
| `CreateMandate`, `Pause`, `Resume`, `CancelMandate`, `CancelAttempts` | `createMandate`, `pauseMandateByUser`, `resumeMandate`, `cancelMandate`, `adminStopMandate` |
| `ScanMandate`, `CreateAttempt`, `EnqueueAttempt`, `Reconcile`, `RetryIsDue` | `apps/worker/src/auto-renewal/scan.ts` |
| `StartJob` | `auto-renewal-consumer.ts` and the head of `executeAutoRenewalAttempt` |
| `ClaimAttempt`, `CheckAttempt`, `Charge`, `PauseMandate`, `MarkAttempt`, `Fulfil` | `executeAutoRenewalAttempt`, `runClaimedAttempt`, `payAutoRenewalWithWallet`, `finishFulfillment`, `transitionAttempt` |
| `OthersFulfil` | settlement sweep and startup recovery, on the same order |
| `SwitchSystem`, `TopUp`, `Spend`, `ManualRenewal` | an administrator, the user, another order of the service |
| `ExecutorThrows`, `StartThrows`, `ClaimThrows` | a throw after the claim, which the executor catches, and one before it, which fails the job |
| `JobStalls`, `DropFailed` | BullMQ: a job taken for stalled is delivered a second time and fails at the third; a failed one keeps its id for a day |
| `WorkerCrash`, `BotCrash` | the processes end |

How the order is executed is `ServiceMutation`; here it is renewed, refunded or left
PROVISIONING. The threshold of consecutive failures is one by default, so that
every definite failure pauses the mandate. The pre-charge notice and the retention
job are left out: both only delay or delete what has ended.

`renewal` (670 thousand states: one cycle, two executors, two attempts at an empty wallet, one crash of
the bot, any number of the worker's) shows that an attempt tells the truth about the
money (`AttemptAgrees`), ends once (`EndedIsFinal`), charges nothing when it is
claimed after the cancellation (`CancelStopsLaterClaims`), and is never forgotten while
scheduled (`ScheduledIsRun`), unless its job failed: `executeAutoRenewalAttempt` reads and
claims outside its try, the job has one attempt, and the reconcile's job of the same
id is not added beside the failed one. It is dropped after a day, when another job
fails, which nobody guarantees; `FailedIsReplaced` states the reconcile without the exception and
is refuted. Attempts of different cycles share only the mandate and
the balance, both of which other actions change freely, so that one cycle, with
the cycle moving on, shows every interleaving of one attempt. Two executors are the
least that a stalled job needs.

`FairSpec` assumes that an executor that started runs on (weak fairness of
`Execute`), that the reconcile timer and the clock go on, and that the consumer
takes jobs: strong fairness, for a switched-off system empties the queue again and
again. That a failed job is dropped is not assumed. Users, balance and panel owe nothing.

The code does not keep three stronger promises, which the module states and no run
checks: the cancellation of a mandate an executor has already read (`docs/wallet-auto-renewal.md:76`
and the comment at `auto-renewal.service.ts:324`), `ClaimedIsResumed` (an attempt
claimed by an executor that died is enqueued again and answered "already
claimed") and `ResumedIsCharged` (an attempt that ended INSUFFICIENT_BALANCE is not
repeated in its cycle when the user tops up and resumes). For the same reason an
attempt whose executor died after the charge stays PAYMENT_CREATED or FULFILLING
although its order is completed. A manual renewal between the check and the charge
renews twice.

## 7. StockDelivery

| model | code |
|---|---|
| `Press`, `SweepSelect`, `SweepNext`, `Enter` | payment handlers, pass 2 of the settlement sweep, `dispatchPaidOrderFulfillment` |
| `FindHeld`, `FindCandidate`, `ClaimItem`, `Mark`, `DiscardItem`, `SendContent`, `SendFails`, `PutBack`, `Unmark`, `Finalize`, `FinalizeFails`, `Converge` | `other-product-stock.service.ts`, `specialized-product-fulfillment.service.ts` |
| `RunDry`, `SubmitUserInfo`, `ClaimDelivery`, `HandOver`, `HandOverFails`, `HandBack`, `RecordHanded`, `CloseHanded` | `initManualDelivery` and `deliverManualOrder` of `other-product-delivery.service.ts` |
| `AddItem`, `Retry`, `RetryNext`, `DisableItem`, `CheckReserved`, `FreeReserved` | the inventory actions and `retryAwaitingStockOrders` |

The content of an item is its number. Whether the buyer received it is external
(`sent`): a send that throws may have arrived. Orders paid by card are not selected
by the sweep and are not among `Orders`; specialized profiles that are
delivered by hand, and their customer input, are left out.

`stock` (4.2 million states: a generic and a specialized order, two items, one failure, one crash)
shows that a closed order was delivered (`CompletedIsDelivered`), that a resumed
dispatch sends the same item (`ResumedIsSame`) and that every paid order is delivered
or in somebody's queue (`PaidIsServed`, with weak fairness of the sweep only). Two
orders for two items have every competition for an item; the third order of a race
would be one more loser.

The code does not keep `OneBuyerPerItem` (`schema.prisma:1726`: an item put back after a
send that timed out goes to a second buyer) and `ServedOneWay` (the payment button
dispatches a sold-out generic order from stock although its record waits for an
administrator). A crash after the record of a specialized order was written leaves it
to the next replenishment, and one inside `deliverManualOrder` leaves its claim set.

## 8. FreeTrial

| model | code |
|---|---|
| `InsertClaim`, `DecideCapacity`, `ReleaseAllowance` | `claimFreeTrial`: `insertClaim`, the capacity transaction, `releaseClaimAllowance` |
| `StartProvisioning`, `AcquireLock`, `CreateRefused`, `SendCreate`, `CreateConfirmed`, `CreateUnknown`, `PersistTrial` | `provisionTrialClaim`, `persistTrialService` |
| `StartReconcile`, `ProbePanel`, `FailAbsent`, `Escalate`, `ForceNotCreated` | `reconcileTrialClaim`, the sweep's escalation, `forceClaimNotCreated` |
| `CancelStale`, `StartExpiry`, `ExpireClaim`, `ExpireService`, `DisableAccount`, `GrantEnds` | `runFreeTrialSweep`, `expireTrialEntitlements` |
| `Convert` | `markTrialConversion` of a paid renewal |

`trial` (5.0 million states: two claims of two users, one of whom has a grant, a panel with room for
one, two handlers and the sweep, a crash) shows that the counter of a grant is
explained by its claims (`ConsumedIsReceipts`), that a unit goes back only where no
trial was created (`ReleasedUnlessDisputed`), and that allowance and capacity hold
(`TrialsWithinAllowance`, `CapacityHeld`). Claims and handlers are interchangeable:
the run uses their symmetry, which is sound because it checks no liveness.
One user has a grant of one unit besides the default one, the other the default
alone. Two claims reach the limit of the second user and the capacity of the panel;
the limit of the first is two, which two claims cannot pass, and is left to the theorem
`AllowanceHeld`.

`ReleasedOnAbsence` (`docs/free-trial-entitlements.md:183`) is not kept: the
reconciliation takes no lock, reads "not found" while the create request is under
way and returns the unit of a trial that then exists. A crash between the
cancellation of a claim and the return of its unit loses the unit; nothing repairs it.

## 9. StarsSubscription

One subscription; a cycle is the number of its charge. Telegram takes the price by
itself and reports it once, in an update that may get lost.

| model | code |
|---|---|
| `CreateCharge`, `ClaimCharge`, `CreateChain`, `ChainThrows`, `SettleFails` | `settleTelegramStarsSubscriptionCharge`, `createPaymentOrderChain` |
| `Dispatch`, `Panel`, `WriteOutcome`, `Activate` | `finishAfterOrder`, which executes the order (`ServiceMutation`) and writes its outcome |
| `RecoverOrder` | the startup recovery settles the order; the charge is not told |
| `ReadRefund`, `CallRefund`, `CountFailure`, `ConfirmRefund`, `StopBilling`, `RequireAction` | `refundStarsSubscriptionCharge` |
| `ReadStuck`, `ResetCharge`, `StartJob` | `stars-subscription-consumer.ts`, `reconcileStarsChargeById` |
| `RecoverPayment`, `ReconcileRefund`, `SelectStuck`, `SelectRefund`, `ExhaustRefund`, `ReadPastDue`, `CountNewer`, `MarkPastDue` | the worker's `recovery.ts` and `reconcile.ts` |
| `SuccessfulPayment`, `RefundedPayment`, `SubscriptionUpdate` | the bot's update handlers |
| `CancelBilling`, `CancelSubscription`, `Reactivate`, `ReactivateBilling`, `ReactivateSubscription` | the buyer's buttons |
| `Bill`, `LoseUpdate`, `ReturnElsewhere`, `Throws`, `DropFailed`, `BotCrash` | Telegram, BullMQ and faults |

`stars` (630 thousand states: one cycle, one update handler, one consumer, a button
or subscription update, and one fault: a throwing statement, a Telegram call that
fails or whose answer is lost, or a crash) shows that no charge is both renewed
and refunded (`RenewedOrRefunded`), that a charge makes one payment and one order
(`OneChain`), and that what was paid (`PaidIsResumed`) or is owed (`OwedIsPursued`) is
taken up again. Cycles share only the row of the subscription, and the two safety
properties are proved for any number of cycles, consumers and faults, so one cycle
is enough for the liveness the run is for.

`FairSpec` assumes that a handler that started runs on, that the consumer takes a
waiting job (strong fairness per job, as a busy consumer takes others first) and that
the worker's scans repeat (weak fairness). Telegram, the buyer and the panel owe
nothing. `Enqueue` keeps the job id of BullMQ: a job is not added while one of the
same charge and kind waits or runs. The job that settles a recovered charge is kept for
a day when it fails (`recovery.ts:152-157`; the others are removed at once), so that a
charge whose first recovery throws before its row exists is not taken up again while
it is there: `PaidIsResumed` excepts it, `LostIsReplayed`
(`docs/telegram-stars-subscription-concurrency.md:26`) does not and is refuted. A crash
delivers a job a second time, and fails it at the third.

Read while modelling, and stated by no property: a new enrolment replaces an
expired pending row and deletes its charges; `telegramExtensionCanceled` is set
although the call to Telegram failed; a charge that `refunded_payment` already
marked REFUNDED is overwritten by the outcome of `finishAfterOrder`.

## 10. AdminOperation

One service, the administrator's operations on it, and its buyer.

| model | code |
|---|---|
| `Preview`, `Confirm` | the draft with its one-shot nonce, the confirm button |
| `AcquireLock`, `GiveUpLock`, `Body`, `Claim`, `Release` | `executeAdminServiceOperation` under the service lock: the draft is checked against the row, the nonce claimed with the PENDING record |
| `FreshRead`, `SendRequest`, `AdapterRefuses`, `RequestLands`, `RequestIsLost`, `Answered`, `AnsweredUncertain`, `AnsweredError`, `Verify` | the panel call: a reading, one request with the new total, a verification after an answer that says nothing |
| `Persist`, `PersistThrows`, `Finish` | the transaction of service and event, and the final verdict |
| `Escapes` | what only the outermost catch covers: `buildAdapterForPanel` of a grant, the reads of the toggle and regeneration primitives, the final update |
| `StartReconcile`, `Probe`, `SyncRow`, `Classify`, `MarkReviewed` | the OWNER's dashboard |
| `PaidOperation`, `ToggleService`, `OpenPage` | the buyer, one action each while the lock is free |
| `NextDay`, `LockLapses`, `Heartbeat`, `LockExpires`, `BotCrash` | time, Redis, crashes |

`admin` (896 thousand states: two drafts, one executor, one OWNER, one move of the
buyer or of the calendar, one fault) shows that the record of a grant says what
happened to the account (`VerdictTrue`), that a grant adds its amount to what the
account has although its request names the total (`GrantAddsExactly`), and that every
claimed operation gets its verdict, also when the transaction fails twice, unless its
executor died or threw where only its outermost catch is (`ClaimedIsClassified`).
Two drafts of different kinds are the least that can disturb each other; one budget
`MaxMoves` bounds days and purchases together. `FairSpec` assumes that an executor that
started runs on; OWNER, buyer, panel and Redis owe nothing.

Read while modelling: an executor that crashes, whose final update fails, or that
throws outside its inner tries (`VerdictBeforeRelease`, refuted) leaves PENDING for
ever, which blocks the service for every later operation, the harmless
`REGENERATE_LINK` included, appears on no dashboard and cannot be reviewed; an
inconclusive grant has no override; the buyer's paid operations are not blocked by
an unresolved one; a toggle or regeneration whose answer times out on a Marzban
panel is recorded FAILED without verification; a notification of the buyer that gets
lost is not sent again; a transaction whose commit reply is lost is repeated and
writes its event twice; the master switch is read before the wait for the lock.

## 11. Where the code and its documents disagree

One run, `misnamed`, ends with a counterexample: `RefundProvesAbsence` fails, because
the recovery looks for a Mini App order under a username it never had, finds nothing
and refunds an existing service.

Other disagreements are stated as definitions of the modules, which TLC refutes
on the instances of the runs or small variants of them; a hazard of `PROJECT.json`
names most of them.

| property | in short |
|---|---|
| `Settlement!SuccessNeverDowngraded` | two IPNs interleave between the read and the unconditional update of `recordProviderOutcome`; a SUCCESS is overwritten |
| `Settlement!CreateFailureRevived` | a row that failed at provider create has `providerStatus` NULL, which `NOT (= 'SUCCESS')` does not match; it is never revived |
| `Settlement!VerifiedIsSettled` | a verify that read "not paid" writes FAILED over a row whose success was recorded meanwhile; the sweep does not select it (`docs/payment-lifecycle.md:31`) |
| `Settlement!OwnedIsPaid` | a rejection expires, on a status it read earlier, a checkout that was settled in between |
| `Settlement!ReceiptKeepsCheckout` | a new draft cancels a checkout whose receipt is under review |
| `Provisioning!ServiceOwnsAccount` | after a timeout an unrelated account of the same name is adopted by its name (`marzban.adapter.ts:572`) |
| `ServiceMutation!CompletedOnlyOnProof` | one matching field of two counts as proof (`execution.ts:373`, against `docs/panel-database-reconciliation.md:27`) |
| `ServiceMutation!RefundOnlyOnProof` | a page opened between update and recovery hides the update (`docs/panel-database-reconciliation.md:31`) |
| `AutoRenewal!ClaimedIsResumed`, `ResumedIsCharged`, `FailedIsReplaced` | see section 6 |
| `StockDelivery!OneBuyerPerItem`, `ServedOneWay` | see section 7 |
| `FreeTrial!ReleasedOnAbsence` | see section 8 |
| `FreeTrial!ConvertedStaysEnabled` | a trial converted by a paid renewal after the sweep read its batch loses its panel account (`free-trial.service.ts:1003`) |
| `StarsSubscription!RefundedIsReturned` | one outgoing transaction confirms every pending refund of the same subscription and amount (`recovery.ts:198`; `docs/telegram-stars-subscription-refunds.md:53` speaks of the matching charge) |
| `StarsSubscription!FailedIsRefunded` | an order the startup recovery fails leaves its charge to be reconciled for ever: the dispatcher answers a failed order like an unknown one |
| `StarsSubscription!PeriodForward`, `FirstIsFirst` | the charge of an older cycle, settled late, moves the period back and may be recorded as the first charge (the comment at `stars-subscription-settlement.service.ts:279`) |
| `StarsSubscription!LostIsReplayed` | see section 9 |
| `StarsSubscription!PaidIsSettled` | a chain that always throws ends RECONCILIATION_REQUIRED |
| `AdminOperation!FailedIsNotApplied` | the account shows the state before the grant again because its buyer changed it, and the grant is recorded FAILED (`docs/admin-service-operations.md:106`) |
| `AdminOperation!VerdictBeforeRelease` | a throw outside the inner tries releases the lock with the record PENDING (`docs/admin-service-operations.md:81-82`) |

Two of the properties that the runs check hold on their instances and not on every
instance; TLC found where:

- `NothingLost` fails for two Mini App orders of one service that buy the same
  volume: the reconciler of one takes the panel for its own when it shows the equal
  target of the other. It fails without Mini App orders for a renewal that buys
  exactly the volume already used: its target then has the quota the service had,
  so that an extension of equal length, computed without it, looks like it. `NothingLostByBot`
  has hypotheses that rule out both.
- `NothingForFree` fails when the lock of a Mini App executor lapsed while a second
  delivery of the job waits for it: the reconciler refunds on a panel that the
  request has not reached yet. It takes two consumers, and is why the theorem
  has a hypothesis.

## 12. What is proved

TLAPS checks the following from the assumptions on the constants (the `ASSUME` of
each module: payments, checkouts, orders, claims, items, cycles, drafts and
processes form any sets, finite where the code counts them, and all bounds are any
numbers) and from nothing else, unless a hypothesis is named. In every module the
type invariant and the other conjuncts of the inductive invariant are proved action
by action; a temporal theorem then follows from `Init => Inv`,
`Inv /\ [Next]_vars => Inv'` and `Inv => P`.

| module | theorem | states |
|---|---|---|
| `Settlement_proofs` | `TypeCorrect`, `OneSettlement`, `OneMoneyMove` | `TypeOK`, `SettledByOwner`, `MoneyFollowsOwner` |
| | `SettlementImplementsClaim` | the refinement of `CheckoutClaim` |
| | `NoDoubleEffect` | no two payments of one checkout both have an effect |
| | `MoneyBeforeService`, `LosersFiled`, `UnboundOrdersHeld`, `LinkNeverExpires` | `CollectedBeforeSettled`, `ReviewOfLosers`, `UnboundHeld`, `LinkedIsKept` |
| | `DiscountWithinLimit`, `BalanceExplained` | `DiscountAccounted`, `LedgerExplainsBalance` |
| `Provisioning_proofs` | `ProvisioningTypeCorrect`, `OneCreateRequest`, `ChargesAccounted`, `HeldOrdersWait` | `TypeOK`, `CreatedOnce`, `OutcomeAccounted`, `HeldUntouched` |
| | `ServiceOrMoney` | no plain order has both a service and a refund, whatever other orders there are |
| | `NeverBoth`, `UsernameFollows`, `RefundKnowsAbsence` | `NoServiceAndRefund`, `ReservationFollows`, `RefundProvesAbsence`, without Mini App orders and moved products |
| `ServiceMutation_proofs` | `MutationTypeCorrect`, `SentOnce` | `TypeOK`, `RequestOnce` |
| | `OutcomeImplemented` | the refinement of `OrderOutcome` |
| | `RowFollowsPanel` | `RowIsPanel` |
| | `NothingForFreeAlways` | `NothingForFree`, as long as no lock lapsed (`stray = {}`) or without Mini App orders |
| | `NothingLostByBot` | `NothingLost`, without Mini App orders and renewals for exactly the used volume |
| `AutoRenewal_proofs` | `RenewalTypeCorrect`, `AttemptTellsTruth`, `EndedForGood`, `CancelledStops` | `TypeOK`, `AttemptAgrees`, `EndedIsFinal`, `CancelStopsLaterClaims` |
| `StockDelivery_proofs` | `StockTypeCorrect`, `ClosedIsDelivered`, `ResumedSame` | `TypeOK`, `CompletedIsDelivered`, `ResumedIsSame` |
| `FreeTrial_proofs` | `TrialTypeCorrect`, `ConsumedExplained`, `ReleasedIsVoid`, `AllowanceHeld`, `CapacityKept` | `TypeOK`, `ConsumedIsReceipts`, `ReleasedUnlessDisputed`, `TrialsWithinAllowance`, `CapacityHeld` |
| `StarsSubscription_proofs` | `StarsTypeCorrect`, `RenewalOrRefund`, `ChainOnce` | `TypeOK`, `RenewedOrRefunded`, `OneChain` |
| `AdminOperation_proofs` | `AdminTypeCorrect`, `AdminVerdictTrue`, `AdminGrantAdds` | `TypeOK`, `VerdictTrue`, `GrantAddsExactly` |
| | `AdminCarriedOutOnce`, `AdminOneUnresolved`, `AdminTransitions` | a request is carried out at most once; one operation unresolved at a time; `ALLOWED_TRANSITIONS` |

The runs of the modules whose `TypeOK` is proved do not check it again.

### Why these invariants

*Settlement.* `SettledByOwner` and `MoneyFollowsOwner` are not inductive alone. A step that
files or settles a payment must know that nobody owns its checkout, or that the
row is still undecided; that is what `Inv` adds: an owned checkout is closed
(`OwnedIsClosed`), rows exist once their process works on them (`RowsOpened`,
`TasksOpened`), wallet rows appear settled (`WalletRowsSettled`), a payment under
review and one about to be filed belong to closed checkouts (`FiledClosed`,
`FilingClosed`). With it, `DecidingSteps` says that every step is quiet (no owner,
settlement status, order or ledger moves), settles one payment, or files one. The
invariants and the refinement are then proved for these three instead of for
forty actions each. `BooksInv` adds what the money and the reservations need: what
a row, a request or a process takes for paid, the provider has collected (`PaidInv`); marker and case of a loser go together (`FileInv`); an order without its
username has a case of its own payment (`HeldInv`); uses of a code are the
discounted orders without a note (`DiscountInv`). `BalanceExplained` sums over payments
by a fold, about which the provers know no induction; its lemmas take a smallest
subset for which a claim fails, remove one element, and use the fold's defining
equation on both.

*Provisioning.* `CreatedOnce` uses no lock. The order's own compare-and-set PAID to
PROVISIONING is what lets one process send: `SendsFirst` says that a process about to
send is alone with its order, that the order is PROVISIONING and that nothing has
been sent for it. Again a step is quiet or one of seven deciding actions
(`QuietOrNoisy`). "Service or money" does need the lock. `PlainInv` says that for a plain
order (not of the Mini App, its product not moved) one process decides at a time,
holds the lock of the site that was sold, may lose it only after the claim and before
the order is stale, and knows whether the panel has or may still get the account. It
is about plain orders only, because the others break it: for them the code computes
another site (`misnamed`) or decides outside the lock.

*ServiceMutation.* Here the lock is part of the argument from the start. `LockFit` says that
the process between acquisition and panel update holds it, `FlowFit` which process runs
what for which orders, `OrderFit` that an order is never given back to PAID, so that its
one claimant sends its one request. `BotFit` is the heart of the refinement: an order of
the bot is worked on by one process, which finds it PROVISIONING until it settles it
itself, and once the order is stale that process has the lock, so that the recovery
cannot interfere. `OneOrderMoves` then says that a step moves at most one order, and
never a settled one of the bot; the refinement follows from that alone. The Mini App
orders are excepted for a reason: their reconciler completes an order whatever its
status is by then (hazard at `execution.ts:320`). `RowsInv` carries `RowIsPanel`: while
no request outlived its lock, one process at most is between the panel and the row
(`Solo`), it holds what the panel says (`Routes`), and row and panel differ only while an
order that is still open accounts for it (`RowInv`). `FreeInv` carries `NothingForFree`:
requests on their way are those of open orders (`Flights`), the row holds no more than
completed orders bought, the panel that or the target of one open order, and a
process about to refund knows that it is not this order's. The sums over orders are
treated as in `BalanceExplained`.
`LostInv` is the bound from below that `NothingLost` needs: row, panel and every
request on its way leave at least what the service had left and the completed orders
bought, a request also what its own order bought, and a process that is about to
persist has read exactly what the panel shows. The quota alone does not say what is
left, so `Allows` bounds the usage too: the panel counts no more of it than any value
about to be written over it, and the first usage is counted only under the first
quota. That is where the recovery, which compares quota and expiry only, could be
wrong about the usage; `ProvedApplied` shows that it is not, given the hypothesis on
the volumes.

*AutoRenewal.* `Exclusive`: the claim CLAIMED leaves at most one executor past it;
`TasksFit` and `RowsFit`: what that executor knows agrees with the attempt and the order,
and an executor about to charge did not claim late; `MoneyFits`: the charge and the order
exist together; `LateFits`: an attempt claimed after the cancellation finds the mandate
cancelled and ends uncharged.

*StockDelivery.* `DeliveryInv` (`ClosedReached`, `WrittenOffSent`, `ClosingReached`) follows an
item from its claim to the closing of its order: what is closed, or about to be, was
sent. `ResumeInv` (`OneItemEach`, `HeldWhileSending`, `SentIsHeld`) adds that an order holds
one item while it is sent and afterwards, so that a resumed dispatch can only find
that one.

*FreeTrial.* `PathInv` describes per claim which statuses and processes go together. In it,
`Clean` says that nothing was, is or will be created for a claim that gave its unit
back, unless the return was disputed, and `Alone` that one handler at most works on a
claim in creation. `UnitsFit` counts: a grant's counter is the number of claims it funds.
`AdmittedFit` bounds the claims admitted to the panel; both use the cardinality
theorems of the library.

*StarsSubscription.* `RefundInv` is `TasksFit` (what each process past a read knows of its
charge), `OnePanel` (one process at a time executes an order), `Counted` (chains are made
where there is no order) and `RenewedOrRefunded`. `QuietStep` covers every action but
seven, which alone move an order or the verdict on a charge.

*AdminOperation.* `OnceInv` is `Holding` (one executor works on an operation, under the lock but
for the wait for an answer, and has sent nothing before it sends), `OneRequest`,
`Reviewing`, `CarriedOutOnce` and `OneUnresolved`. `ValueInv` is about numbers: `Reading`,
what an executor read and aims at agrees with the account; `Judging`, so does what
a reviewer goes by; `Entry`, and what was recorded. `StepValues`
and `OutsideStepValues` say which of them a step of another process leaves alone, so
that each action is proved for its own process only.

### Only model-checked

The liveness properties (`SuccessAccounted`, `AlertSent`, `ScheduledIsRun`, `PaidIsServed`,
`PaidIsResumed`, `OwedIsPursued`, `ClaimedIsClassified`): liveness under fairness is out of
the prover's reach. The properties of section 11 are
counterexamples, not theorems.
