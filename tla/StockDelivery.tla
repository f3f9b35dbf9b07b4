--------------------------- MODULE StockDelivery ---------------------------
(***************************************************************************)
(* Delivery of the paid orders of one OTHER_PRODUCT, from the inventory or *)
(* by hand.  A GENERIC order takes an item, or else goes to the manual     *)
(* queue; a specialized one is parked until items arrive, and never goes   *)
(* there.  Both reserve an item for the order, send its content to the     *)
(* buyer and only then record the delivery.                                *)
(*                                                                         *)
(* Two processes of the bot work side by side: Updates handles one         *)
(* Telegram update at a time (a buyer presses the payment button again, an *)
(* administrator adds, frees or delivers), Sweep is the settlement sweep,  *)
(* which dispatches paid orders that have no record yet.                   *)
(***************************************************************************)
EXTENDS Integers, FiniteSets

CONSTANTS
    Orders,        \* paid orders, by gateway or wallet, of the product
    Generic,       \* those of kind GENERIC
    MaxItems,      \* bound: stock items ever added
    Updates, Sweep,
    NoOrder,
    ClaimRetries,  \* CLAIM_RETRIES
    ReadAttempts,  \* unreadable items in a row after which a specialized order is parked
    MaxFailures,   \* bound: unreadable items, failing sends and finalizing transactions
    MaxCrashes     \* bound: crashes of the bot

Procs == {Updates, Sweep}
Items == 1 .. MaxItems
NoItem == 0

ASSUME StockAssumption ==
    /\ Generic \subseteq Orders
    /\ NoOrder \notin Orders /\ Updates # Sweep
    /\ ClaimRetries \in Nat \ {0} /\ ReadAttempts \in Nat \ {0}
    /\ MaxItems \in Nat /\ MaxFailures \in Nat /\ MaxCrashes \in Nat

VARIABLES
    order,       \* Order.status
    record,      \* OtherProductOrder.status of the order, or "none"
    claimed,     \* records with an administrator's delivery claim
    item,        \* OtherProductStockItem rows
    torn,        \* items whose content cannot be decrypted
    batch,       \* what a process read and still has to dispatch
    task,        \* the dispatch, delivery or inventory action of a process
    sent,        \* external: contents that reached the buyer of an order
    handed,      \* external: orders delivered by hand
    freed,       \* ghost: items taken back after a failed send or by an administrator
    failures, crashes

rows  == <<order, record, claimed, item, torn>>
buyer == <<sent, handed>>
vars  == <<rows, batch, task, buyer, freed, failures, crashes>>

ItemStatus   == {"NONE", "AVAILABLE", "RESERVED", "DELIVERED", "DISABLED"}
RecordStatus == {"none", "PAID", "STOCK_RESERVED", "AWAITING_STOCK", "WAITING_USER_INFO",
                 "WAITING_ADMIN_DELIVERY", "DELIVERED"}
Parked == {"PAID", "STOCK_RESERVED", "AWAITING_STOCK"}
Steps == {"idle", "existing", "find", "claim", "mark", "send", "putBack", "unmark", "finalize",
          "refinalize", "converge", "dry", "free", "handSend", "handBack", "handed", "close"}

IdleTask == [pc |-> "idle", order |-> NoOrder, item |-> NoItem, tries |-> 0, reads |-> 0]

Init ==
    /\ order    = [o \in Orders |-> "PAID"]
    /\ record   = [o \in Orders |-> "none"]
    /\ claimed  = {}
    /\ item     = [i \in Items |-> [status |-> "NONE", order |-> NoOrder]]
    /\ torn     = {}
    /\ batch    = [w \in Procs |-> {}]
    /\ task     = [w \in Procs |-> IdleTask]
    /\ sent     = {}
    /\ handed   = {}
    /\ freed    = {}
    /\ failures = 0
    /\ crashes  = 0

-----------------------------------------------------------------------------
At(w, pc)   == task[w].pc = pc
OrderOf(w)  == task[w].order
ItemOf(w)   == task[w].item
Goto(w, pc) == task' = [task EXCEPT ![w].pc = pc]
Hold(w, pc, i) == task' = [task EXCEPT ![w].pc = pc, ![w].item = i, ![w].tries = 0]
Begin(w, pc, o) == task' = [task EXCEPT ![w] = [IdleTask EXCEPT !.pc = pc, !.order = o]]
Leave(w)    == task' = [task EXCEPT ![w] = IdleTask]

Held(o)      == {i \in Items : item[i].order = o}      \* at most one: deliveredOrderId is unique
Mine(w)      == item[ItemOf(w)] = [status |-> "RESERVED", order |-> OrderOf(w)]
Available    == {i \in Items : item[i].status = "AVAILABLE"}
Free(i, status) == item' = [item EXCEPT ![i] = [status |-> status, order |-> NoOrder]]
Close(o)     == order' = [order EXCEPT ![o] = "COMPLETED"]
SetRecord(o, from, to) == record' = [record EXCEPT ![o] = IF @ \in from THEN to ELSE @]

(* Something that may go wrong, a bounded number of times.                 *)
Fails == failures < MaxFailures /\ failures' = failures + 1

-----------------------------------------------------------------------------
(* Dispatch.                                                               *)

(* dispatchPaidOrderFulfillment up to the reservation.  A GENERIC product  *)
(* that asks for information now, a switch of its administrators, goes to  *)
(* the manual path; a specialized order gets its record first.             *)
Enter(w, o) ==
    \/ /\ o \in Generic /\ order[o] = "PAID" /\ UNCHANGED record
       /\ Begin(w, "existing", o) \/ Begin(w, "dry", o)
    \/ o \in Generic /\ order[o] # "PAID" /\ UNCHANGED record /\ Leave(w)
    \/ /\ o \notin Generic
       /\ record' = [record EXCEPT ![o] = IF @ = "none" THEN "PAID" ELSE @]
       /\ Begin(w, IF record[o] = "DELIVERED" \/ order[o] = "COMPLETED" THEN "converge"
                   ELSE "existing", o)

(* The payment button, a wallet confirmation or a replay of either.        *)
Press(o) ==
    /\ At(Updates, "idle") /\ batch[Updates] = {}
    /\ Enter(Updates, o)
    /\ UNCHANGED <<order, claimed, item, torn, batch, buyer, freed, failures, crashes>>

(* Pass 2 of the settlement sweep: paid orders without a record, read in   *)
(* one batch and dispatched one after the other.                           *)
SweepSelect ==
    /\ At(Sweep, "idle") /\ batch[Sweep] = {}
    /\ batch' = [batch EXCEPT ![Sweep] =
                   {o \in Orders : order[o] = "PAID" /\ record[o] = "none"}]
    /\ batch'[Sweep] # {}
    /\ UNCHANGED <<rows, task, buyer, freed, failures, crashes>>

SweepNext(o) ==
    /\ At(Sweep, "idle") /\ o \in batch[Sweep]
    /\ batch' = [batch EXCEPT ![Sweep] = @ \ {o}]
    /\ Enter(Sweep, o)
    /\ UNCHANGED <<order, claimed, item, torn, buyer, freed, failures, crashes>>

(* retryAwaitingStockOrders works on the records as it read them.          *)
RetryBatch == {o \in Orders \ Generic : record[o] \in Parked /\ order[o] = "PAID"}
Retry ==
    /\ At(Updates, "idle") /\ batch[Updates] = {} /\ RetryBatch # {}
    /\ batch' = [batch EXCEPT ![Updates] = RetryBatch]
    /\ UNCHANGED <<rows, task, buyer, freed, failures, crashes>>

RetryNext(o) ==
    /\ At(Updates, "idle") /\ o \in batch[Updates]
    /\ batch' = [batch EXCEPT ![Updates] = @ \ {o}]
    /\ Begin(Updates, "existing", o)
    /\ UNCHANGED <<rows, buyer, freed, failures, crashes>>

-----------------------------------------------------------------------------
(* Reservation: reserveStockItemForOrder, and the same in                  *)
(* autoDeliverStockOrder.                                                  *)

Go(o) == IF o \in Generic THEN "send" ELSE "mark"

(* An item that the order holds already is resumed.                        *)
FindHeld(w) ==
    /\ At(w, "existing")
    /\ \/ \E i \in Held(OrderOf(w)) :
             Hold(w, IF item[i].status = "DELIVERED" THEN "converge" ELSE Go(OrderOf(w)), i)
       \/ Held(OrderOf(w)) = {} /\ Goto(w, "find")
    /\ UNCHANGED <<rows, batch, buyer, freed, failures, crashes>>

FindCandidate(w) ==
    /\ At(w, "find")
    /\ \/ \E i \in Available : task' = [task EXCEPT ![w].pc = "claim", ![w].item = i]
       \/ Available = {} /\ Begin(w, "dry", OrderOf(w))
    /\ UNCHANGED <<rows, batch, buyer, freed, failures, crashes>>

ClaimAnother(w) ==   \* mutant: deliveredOrderId is not unique
    LET i == ItemOf(w)  o == OrderOf(w) IN
    /\ At(w, "claim")
    /\ IF item[i].status = "AVAILABLE"
       THEN item' = [item EXCEPT ![i] = [status |-> "RESERVED", order |-> o]] /\ Goto(w, Go(o))
       ELSE Goto(w, "dry") /\ UNCHANGED item
    /\ UNCHANGED <<order, record, claimed, torn, batch, buyer, freed, failures, crashes>>

(* The compare-and-set on the candidate, under the unique deliveredOrderId: *)
(* who finds that the order got an item meanwhile resumes that one.        *)
ClaimItem(w) ==
    LET i == ItemOf(w)  o == OrderOf(w) IN
    /\ At(w, "claim")
    /\ \/ /\ item[i].status = "AVAILABLE" /\ Held(o) = {}
          /\ item' = [item EXCEPT ![i] = [status |-> "RESERVED", order |-> o]]
          /\ Hold(w, Go(o), i)
       \/ /\ item[i].status = "AVAILABLE"
          /\ \E j \in Held(o) : Hold(w, IF o \notin Generic /\ item[j].status = "DELIVERED"
                                        THEN "converge" ELSE Go(o), j)
          /\ UNCHANGED item
       \/ /\ item[i].status # "AVAILABLE" /\ task[w].tries + 1 < ClaimRetries
          /\ task' = [task EXCEPT ![w].pc = "find", ![w].item = NoItem, ![w].tries = @ + 1]
          /\ UNCHANGED item
       \/ /\ item[i].status # "AVAILABLE" /\ task[w].tries + 1 = ClaimRetries
          /\ Begin(w, "dry", o)
          /\ UNCHANGED item
    /\ UNCHANGED <<order, record, claimed, torn, batch, buyer, freed, failures, crashes>>

Mark(w) ==
    /\ At(w, "mark")
    /\ SetRecord(OrderOf(w), {"PAID", "AWAITING_STOCK"}, "STOCK_RESERVED")
    /\ Goto(w, "send")
    /\ UNCHANGED <<order, claimed, item, torn, batch, buyer, freed, failures, crashes>>

RunDrySilently(w) ==   \* mutant: a sold-out GENERIC order waits for stock like a specialized one
    LET o == OrderOf(w) IN
    /\ At(w, "dry")
    /\ IF o \in Generic THEN UNCHANGED record
       ELSE SetRecord(o, {"PAID", "STOCK_RESERVED"}, "AWAITING_STOCK")
    /\ Leave(w)
    /\ UNCHANGED <<order, claimed, item, torn, batch, buyer, freed, failures, crashes>>

(* Nobody has an item: initManualDelivery for a GENERIC order, and         *)
(* parkOrderAwaitingStock, where a retry stops, for a specialized one.     *)
RunDry(w) ==
    LET o == OrderOf(w) IN
    /\ At(w, "dry")
    /\ \/ /\ o \in Generic /\ UNCHANGED batch
          /\ \E status \in {"WAITING_USER_INFO", "WAITING_ADMIN_DELIVERY"} :
                SetRecord(o, {"none"}, status)
       \/ /\ o \notin Generic
          /\ SetRecord(o, {"PAID", "STOCK_RESERVED"}, "AWAITING_STOCK")
          /\ batch' = [batch EXCEPT ![Updates] = IF w = Updates THEN {} ELSE @]
    /\ Leave(w)
    /\ UNCHANGED <<order, claimed, item, torn, buyer, freed, failures, crashes>>

-----------------------------------------------------------------------------
(* Sending.                                                                *)

(* An item that cannot be decrypted is disabled; only a specialized order  *)
(* tries the next one.                                                     *)
DiscardItem(w) ==
    /\ At(w, "send") /\ ItemOf(w) \in torn
    /\ IF Mine(w) THEN Free(ItemOf(w), "DISABLED") ELSE UNCHANGED item
    /\ \/ /\ OrderOf(w) \in Generic \/ task[w].reads + 1 = ReadAttempts
          /\ Begin(w, "dry", OrderOf(w))
       \/ /\ OrderOf(w) \notin Generic /\ task[w].reads + 1 < ReadAttempts
          /\ task' = [task EXCEPT ![w].pc = "existing", ![w].item = NoItem, ![w].reads = @ + 1]
    /\ UNCHANGED <<order, record, claimed, torn, batch, buyer, freed, failures, crashes>>

SendContent(w) ==
    /\ At(w, "send") /\ ItemOf(w) \notin torn
    /\ sent' = sent \cup {<<ItemOf(w), OrderOf(w)>>}
    /\ Goto(w, "finalize")
    /\ UNCHANGED <<rows, batch, handed, freed, failures, crashes>>

FinalizeFirst(w) ==   \* mutant: a failed send is finalized like a successful one
    /\ At(w, "send") /\ ItemOf(w) \notin torn
    /\ Fails
    /\ Goto(w, "finalize")
    /\ UNCHANGED <<rows, batch, buyer, freed, crashes>>

(* sendMessage throws; the content may have arrived all the same.          *)
SendFails(w) ==
    /\ At(w, "send") /\ ItemOf(w) \notin torn
    /\ Fails
    /\ sent' \in {sent, sent \cup {<<ItemOf(w), OrderOf(w)>>}}
    /\ Goto(w, "putBack")
    /\ UNCHANGED <<rows, batch, handed, freed, crashes>>

(* releaseStockClaim: only the own claim is released.                      *)
PutBack(w) ==
    /\ At(w, "putBack")
    /\ IF Mine(w) THEN Free(ItemOf(w), "AVAILABLE") /\ freed' = freed \cup {ItemOf(w)}
       ELSE UNCHANGED <<item, freed>>
    /\ Begin(w, IF OrderOf(w) \in Generic THEN "dry" ELSE "unmark", OrderOf(w))
    /\ UNCHANGED <<order, record, claimed, torn, batch, buyer, failures, crashes>>

Unmark(w) ==
    /\ At(w, "unmark")
    /\ SetRecord(OrderOf(w), {"STOCK_RESERVED"}, "PAID")
    /\ Leave(w)
    /\ UNCHANGED <<order, claimed, item, torn, batch, buyer, freed, failures, crashes>>

(* The finalizing transaction, tried twice.                                *)
Finalize(w) ==
    LET o == OrderOf(w) IN
    /\ At(w, "finalize") \/ At(w, "refinalize")
    /\ item' = IF Mine(w) THEN [item EXCEPT ![ItemOf(w)].status = "DELIVERED"] ELSE item
    /\ IF o \in Generic THEN UNCHANGED record ELSE SetRecord(o, Parked, "DELIVERED")
    /\ Close(o)
    /\ Leave(w)
    /\ UNCHANGED <<claimed, torn, batch, buyer, freed, failures, crashes>>

FinalizeFails(w) ==
    /\ Fails
    /\ \/ At(w, "finalize") /\ Goto(w, "refinalize")
       \/ At(w, "refinalize") /\ Leave(w)
    /\ UNCHANGED <<rows, batch, buyer, freed, crashes>>

(* finalizeStockRecord, and the GENERIC order whose item is DELIVERED.     *)
Converge(w) ==
    LET o == OrderOf(w) IN
    /\ At(w, "converge")
    /\ IF o \in Generic THEN UNCHANGED record ELSE SetRecord(o, Parked, "DELIVERED")
    /\ Close(o)
    /\ Leave(w)
    /\ UNCHANGED <<claimed, item, torn, batch, buyer, freed, failures, crashes>>

-----------------------------------------------------------------------------
(* The manual queue.                                                       *)

SubmitUserInfo(o) ==
    /\ At(Updates, "idle") /\ batch[Updates] = {} /\ record[o] = "WAITING_USER_INFO"
    /\ record' = [record EXCEPT ![o] = "WAITING_ADMIN_DELIVERY"]
    /\ UNCHANGED <<order, claimed, item, torn, batch, task, buyer, freed, failures, crashes>>

(* deliverManualOrder: claim, send, finalize.                              *)
ClaimDelivery(o) ==
    /\ At(Updates, "idle") /\ batch[Updates] = {}
    /\ record[o] = "WAITING_ADMIN_DELIVERY" /\ o \notin claimed
    /\ claimed' = claimed \cup {o}
    /\ Begin(Updates, "handSend", o)
    /\ UNCHANGED <<order, record, item, torn, batch, buyer, freed, failures, crashes>>

HandOver ==
    /\ At(Updates, "handSend")
    /\ handed' = handed \cup {OrderOf(Updates)}
    /\ Goto(Updates, "handed")
    /\ UNCHANGED <<rows, batch, sent, freed, failures, crashes>>

HandOverFails ==
    /\ At(Updates, "handSend")
    /\ Fails
    /\ handed' \in {handed, handed \cup {OrderOf(Updates)}}
    /\ Goto(Updates, "handBack")
    /\ UNCHANGED <<rows, batch, sent, freed, crashes>>

HandBack ==
    /\ At(Updates, "handBack")
    /\ claimed' = claimed \ {OrderOf(Updates)}
    /\ Leave(Updates)
    /\ UNCHANGED <<order, record, item, torn, batch, buyer, freed, failures, crashes>>

RecordHanded ==
    /\ At(Updates, "handed")
    /\ SetRecord(OrderOf(Updates), {"WAITING_ADMIN_DELIVERY"}, "DELIVERED")
    /\ Goto(Updates, "close")
    /\ UNCHANGED <<order, claimed, item, torn, batch, buyer, freed, failures, crashes>>

CloseHanded ==
    /\ At(Updates, "close")
    /\ Close(OrderOf(Updates))
    /\ Leave(Updates)
    /\ UNCHANGED <<record, claimed, item, torn, batch, buyer, freed, failures, crashes>>

-----------------------------------------------------------------------------
(* The inventory.                                                          *)

(* Items are added, and the parked orders retried.                         *)
AddItem(i) ==
    /\ At(Updates, "idle") /\ batch[Updates] = {}
    /\ item[i].status = "NONE" /\ \A j \in 1 .. (i - 1) : item[j].status # "NONE"
    /\ Free(i, "AVAILABLE")
    /\ batch' = [batch EXCEPT ![Updates] = RetryBatch]
    /\ \/ UNCHANGED <<torn, failures>>
       \/ torn' = torn \cup {i} /\ Fails
    /\ UNCHANGED <<order, record, claimed, task, buyer, freed, crashes>>

DisableItem(i) ==
    /\ At(Updates, "idle") /\ batch[Updates] = {} /\ item[i].status = "AVAILABLE"
    /\ Free(i, "DISABLED")
    /\ UNCHANGED <<order, record, claimed, torn, batch, task, buyer, freed, failures, crashes>>

(* checkReservedActionable, then the compare-and-set on RESERVED alone.    *)
CheckReserved(i) ==
    /\ At(Updates, "idle") /\ batch[Updates] = {} /\ item[i].status = "RESERVED"
    /\ order[item[i].order] # "COMPLETED"
    /\ Hold(Updates, "free", i)
    /\ UNCHANGED <<rows, batch, buyer, freed, failures, crashes>>

FreeReserved ==
    LET i == ItemOf(Updates) IN
    /\ At(Updates, "free")
    /\ \/ /\ item[i].status = "RESERVED"
          /\ Free(i, "AVAILABLE") \/ Free(i, "DISABLED")
          /\ freed' = freed \cup {i}
       \/ item[i].status # "RESERVED" /\ UNCHANGED <<item, freed>>
    /\ Leave(Updates)
    /\ UNCHANGED <<order, record, claimed, torn, batch, buyer, failures, crashes>>

BotCrash ==
    /\ crashes < MaxCrashes
    /\ crashes' = crashes + 1
    /\ batch' = [w \in Procs |-> {}]
    /\ task' = [w \in Procs |-> IdleTask]
    /\ UNCHANGED <<rows, buyer, freed, failures>>

-----------------------------------------------------------------------------
Step(w) ==
    \/ FindHeld(w) \/ FindCandidate(w) \/ ClaimItem(w) \/ Mark(w) \/ RunDry(w) \/ DiscardItem(w)
    \/ SendContent(w) \/ SendFails(w) \/ PutBack(w) \/ Unmark(w) \/ Finalize(w)
    \/ FinalizeFails(w) \/ Converge(w)

Deliver == HandOver \/ HandOverFails \/ HandBack \/ RecordHanded \/ CloseHanded

SweepStep == SweepSelect \/ Step(Sweep) \/ \E o \in Orders : SweepNext(o)

Next ==
    \/ SweepStep \/ Step(Updates) \/ Deliver \/ Retry \/ FreeReserved \/ BotCrash
    \/ \E o \in Orders : Press(o) \/ RetryNext(o) \/ SubmitUserInfo(o) \/ ClaimDelivery(o)
    \/ \E i \in Items : AddItem(i) \/ DisableItem(i) \/ CheckReserved(i)

Spec == Init /\ [][Next]_vars

(* The sweep reschedules itself every minute and works off its batch.      *)
FairSpec == Spec /\ WF_vars(SweepStep)

-----------------------------------------------------------------------------
(* Properties.                                                             *)

(* Type invariant of the rows and the processes.                           *)
TypeOK ==
    /\ order \in [Orders -> {"PAID", "COMPLETED"}] /\ record \in [Orders -> RecordStatus]
    /\ claimed \subseteq Orders
    /\ item \in [Items -> [status : ItemStatus, order : Orders \cup {NoOrder}]]
    /\ \A i \in Items : item[i].status \in {"RESERVED", "DELIVERED"} <=> item[i].order # NoOrder
    /\ batch \in [Procs -> SUBSET Orders]
    /\ task \in [Procs -> [pc : Steps, order : Orders \cup {NoOrder}, item : Items \cup {NoItem},
                           tries : 0 .. ClaimRetries, reads : 0 .. ReadAttempts]]
    /\ torn \subseteq Items /\ sent \subseteq Items \X Orders /\ handed \subseteq Orders /\ freed \subseteq Items
    /\ failures \in Nat /\ crashes \in Nat

(* Nobody's order is closed, and no item written off, before something     *)
(* reached the buyer: whatever fails, crashes or is dispatched twice.      *)
CompletedIsDelivered ==
    /\ \A o \in Orders : order[o] = "COMPLETED" =>
          o \in handed \/ \E i \in Items : <<i, o>> \in sent
    /\ \A i \in Items : item[i].status = "DELIVERED" => <<i, item[i].order>> \in sent

(* An item that was never taken back goes to one buyer, and an order gets  *)
(* one such item, also when a crash or a second dispatch resumes it.       *)
ResumedIsSame ==
    /\ \A i \in Items \ freed : Cardinality({o \in Orders : <<i, o>> \in sent}) <= 1
    /\ \A o \in Orders : Cardinality({i \in Items \ freed : <<i, o>> \in sent}) <= 1

(* A paid order ends delivered or with a record that administrators or a   *)
(* replenishment work from.                                                *)
PaidIsServed == <>(\A o \in Orders : order[o] = "COMPLETED" \/ record[o] # "none")

(* A buyer gets the item or the delivery by hand, not both.                *)
ServedOneWay ==
    \A o \in handed : \A i \in Items : <<i, o>> \notin sent

(* An item's content reaches the buyer of one order only.                  *)
OneBuyerPerItem ==
    \A i \in Items : Cardinality({o \in Orders : <<i, o>> \in sent}) <= 1
=============================================================================
