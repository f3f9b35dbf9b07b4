------------------------- MODULE Settlement_proofs -------------------------
(***************************************************************************)
(* Theorems about Settlement, for every set of checkouts, payments,        *)
(* handlers and requests.                                                  *)
(*                                                                         *)
(* SettledByOwner and MoneyFollowsOwner are not inductive alone: they need *)
(* that a checkout which can still be claimed has no owner, and that a     *)
(* wallet payment is never seen unsettled.  IInv is the conjunction.       *)
(* What is said of the buyer's money, of filed cases, of reservations and  *)
(* of discounts rests on it: BooksInv.                                     *)
(***************************************************************************)
EXTENDS Settlement, FiniteSetTheorems, TLAPS

(* A wallet payment is written once, settled. *)
WalletRowsSettled ==
    \A p \in Payments : Provider[p] = "WALLET" => payment[p].status \in {"NONE", "APPROVED"}

(* A checkout that a payment owns is closed to every other.                *)
OwnedIsClosed ==
    \A c \in Checkouts : checkout[c].status \in {"NONE", "PENDING"} => checkout[c].owner = NoPayment

(* A row exists only for a checkout that was created, an invoice only for  *)
(* a row, and a handler past its insertion works on an inserted row.       *)
RowsOpened ==
    \A p \in Payments :
        /\ payment[p].status # "NONE" => checkout[CheckoutOf[p]].status # "NONE"
        /\ issued[p] # 0 \/ collected[p] # {} => payment[p].status # "NONE"
TasksOpened ==
    \A w \in Procs :
        task[w].pc # "idle" =>
            /\ checkout[CheckoutOf[task[w].payment]].status # "NONE"
            /\ task[w].pc \notin {"open", "receipt"} => payment[task[w].payment].status # "NONE"

(* A payment is filed as a duplicate only against a closed checkout.       *)
Open(c) == checkout[c].status \in {"NONE", "PENDING"}
FiledClosed ==
    \A p \in Payments : payment[p].settlementStatus = "DUPLICATE_SUCCESS_REVIEW" =>
        ~Open(CheckoutOf[p]) /\ payment[p].status # "NONE"
FilingClosed ==
    \A w \in Procs : task[w].pc = "duplicate" =>
        ~Open(CheckoutOf[task[w].payment]) /\ ~Owns(task[w].payment)

Inv  == /\ TypeOK /\ WalletRowsSettled /\ OwnedIsClosed
        /\ RowsOpened /\ TasksOpened /\ FiledClosed /\ FilingClosed
IInv == Inv /\ SettledByOwner /\ MoneyFollowsOwner

-----------------------------------------------------------------------------
(* The initial states satisfy the invariant.                               *)
LEMMA InitInv == Init => IInv
  BY ConstantsAssumption
  DEF Init, IInv, Inv, TypeOK, WalletRowsSettled, OwnedIsClosed, SettledByOwner,
      MoneyFollowsOwner, RowsOpened, TasksOpened, FiledClosed, FilingClosed, Owns, Settled, NoRow, NoCase, IdleTask, IdleRequest, IsTopUp, Procs,
      PaymentRef, CheckoutRow, PaymentRow, CaseRow, RequestRecord, TaskRecord,
      CheckoutStatuses, PaymentStatuses, ProviderStatuses, Events, TaskSteps, ReservationStatuses

(* How the actions build process records.                                  *)
LEMMA TaskShapes ==
    /\ IdleTask \in TaskRecord
    /\ \A t \in TaskRecord, s \in TaskSteps :
           t.pc # "idle" => [t EXCEPT !.pc = s] \in TaskRecord
    /\ \A t \in TaskRecord, s \in TaskSteps, q \in PaymentRef :
           t.pc # "idle" => [t EXCEPT !.pc = s, !.owner = q] \in TaskRecord
    /\ \A s \in TaskSteps, p \in Payments : Provider[p] # "WALLET" =>
           /\ [IdleTask EXCEPT !.pc = s, !.payment = p] \in TaskRecord
           /\ \A k \in 0 .. MaxAttempts :
                  [IdleTask EXCEPT !.pc = s, !.payment = p, !.attempt = k] \in TaskRecord
           /\ \A b \in BOOLEAN :
                  [IdleTask EXCEPT !.pc = s, !.payment = p, !.late = b] \in TaskRecord
           /\ \A b \in BOOLEAN, cs \in CheckoutStatuses :
                  [IdleTask EXCEPT !.pc = s, !.payment = p, !.seen = cs, !.late = b]
                      \in TaskRecord
  <1>1. IdleTask \in TaskRecord
    BY ConstantsAssumption DEF TaskRecord, IdleTask, PaymentRef, TaskSteps, CheckoutStatuses
  <1>2. Payments \subseteq PaymentRef
    BY DEF PaymentRef
  <1>3. ASSUME NEW t \in TaskRecord, NEW s \in TaskSteps, t.pc # "idle"
        PROVE  /\ [t EXCEPT !.pc = s] \in TaskRecord
               /\ \A q \in PaymentRef : [t EXCEPT !.pc = s, !.owner = q] \in TaskRecord
    BY <1>3 DEF TaskRecord
  <1>4. QED
    BY <1>1, <1>2, <1>3 DEF TaskRecord, IdleTask

(* How the requests of apps/api build their process records.               *)
LEMMA RequestShapes ==
    /\ IdleRequest \in RequestRecord
    /\ \A q \in RequestRecord : q.pc # "idle" /\ q.event # "SUCCESS" =>
           [q EXCEPT !.pc = "status"] \in RequestRecord
    /\ \A q \in RequestRecord, b \in BOOLEAN :
           q.pc # "idle" => [q EXCEPT !.pc = "write", !.late = b] \in RequestRecord
    /\ \A p \in Payments, e \in Events :
           [pc |-> "read", payment |-> p, event |-> e, late |-> FALSE] \in RequestRecord
  BY DEF RequestRecord, IdleRequest, PaymentRef, Events

(* How the actions build rows.                                             *)
LEMMA RowShapes ==
    /\ \A r \in PaymentRow, s \in PaymentStatuses : [r EXCEPT !.status = s] \in PaymentRow
    /\ \A r \in PaymentRow, s \in ProviderStatuses : [r EXCEPT !.providerStatus = s] \in PaymentRow
    /\ \A r \in PaymentRow, k \in 0 .. MaxAttempts : [r EXCEPT !.authority = k] \in PaymentRow
    /\ \A r \in PaymentRow :
           /\ [r EXCEPT !.status = "PENDING", !.providerStatus = "NULL", !.authority = 0] \in PaymentRow
           /\ [r EXCEPT !.status = "APPROVED", !.settlementStatus = "SETTLED"] \in PaymentRow
           /\ [r EXCEPT !.settlementStatus = "DUPLICATE_SUCCESS_REVIEW"] \in PaymentRow
    /\ \A b \in BOOLEAN : [NoRow EXCEPT !.status = "PENDING_REVIEW", !.late = b] \in PaymentRow
    /\ \A r \in CheckoutRow, s \in CheckoutStatuses : [r EXCEPT !.status = s] \in CheckoutRow
    /\ \A p \in Payments : [status |-> "PAID", owner |-> p] \in CheckoutRow
    /\ \A r \in CaseRow, b \in BOOLEAN : [r EXCEPT !.notified = b] \in CaseRow
    /\ NoCase \in CaseRow
    /\ [NoCase EXCEPT !.type = "SERVICE_USERNAME_UNBOUND"] \in CaseRow
    /\ \A q \in PaymentRef :
           [NoCase EXCEPT !.type = "DUPLICATE_CHECKOUT_PAYMENT", !.primary = q] \in CaseRow
  <1>1. NoRow \in PaymentRow /\ "PENDING_REVIEW" \in PaymentStatuses
    BY ConstantsAssumption DEF NoRow, PaymentRow, PaymentStatuses, ProviderStatuses
  <1>2. NoCase \in CaseRow
    BY DEF NoCase, CaseRow, PaymentRef
  <1>3. \A r \in PaymentRow, s \in PaymentStatuses : [r EXCEPT !.status = s] \in PaymentRow
    BY DEF PaymentRow
  <1>4. \A r \in PaymentRow, s \in ProviderStatuses : [r EXCEPT !.providerStatus = s] \in PaymentRow
    BY DEF PaymentRow
  <1>5. \A r \in PaymentRow, k \in 0 .. MaxAttempts : [r EXCEPT !.authority = k] \in PaymentRow
    BY DEF PaymentRow
  <1>6. \A r \in PaymentRow :
           /\ [r EXCEPT !.status = "PENDING", !.providerStatus = "NULL", !.authority = 0] \in PaymentRow
           /\ [r EXCEPT !.status = "APPROVED", !.settlementStatus = "SETTLED"] \in PaymentRow
           /\ [r EXCEPT !.settlementStatus = "DUPLICATE_SUCCESS_REVIEW"] \in PaymentRow
    <2>1. /\ "PENDING" \in PaymentStatuses /\ "APPROVED" \in PaymentStatuses
          /\ "NULL" \in ProviderStatuses /\ 0 \in 0 .. MaxAttempts
      BY ConstantsAssumption DEF PaymentStatuses, ProviderStatuses
    <2>2. QED
      BY <2>1 DEF PaymentRow
  <1>7. \A b \in BOOLEAN : [NoRow EXCEPT !.status = "PENDING_REVIEW", !.late = b] \in PaymentRow
    BY <1>1 DEF PaymentRow, NoRow
  <1>8. /\ \A r \in CheckoutRow, s \in CheckoutStatuses : [r EXCEPT !.status = s] \in CheckoutRow
        /\ \A p \in Payments : [status |-> "PAID", owner |-> p] \in CheckoutRow
    BY DEF CheckoutRow, PaymentRef, CheckoutStatuses
  <1>9. /\ \A r \in CaseRow, b \in BOOLEAN : [r EXCEPT !.notified = b] \in CaseRow
        /\ [NoCase EXCEPT !.type = "SERVICE_USERNAME_UNBOUND"] \in CaseRow
        /\ \A q \in PaymentRef :
               [NoCase EXCEPT !.type = "DUPLICATE_CHECKOUT_PAYMENT", !.primary = q] \in CaseRow
    BY <1>2 DEF CaseRow, NoCase
  <1>10. QED
    BY <1>2, <1>3, <1>4, <1>5, <1>6, <1>7, <1>8, <1>9

(* How the helpers of the actions move a process.                          *)
LEMMA TaskMoves ==
    ASSUME task \in [Procs -> TaskRecord], NEW w \in Procs
    PROVE  /\ Finish(w) => task' \in [Procs -> TaskRecord]
           /\ task[w].pc # "idle" =>
                  \A s \in TaskSteps : Step(w, s) => task' \in [Procs -> TaskRecord]
           /\ \A s \in TaskSteps, p \in Payments :
                  Provider[p] # "WALLET" /\ Start(w, s, p) => task' \in [Procs -> TaskRecord]
           /\ \A t \in TaskRecord : Goto(w, t) => task' \in [Procs -> TaskRecord]
  <1>1. ASSUME NEW t \in TaskRecord, Goto(w, t) PROVE task' \in [Procs -> TaskRecord]
    BY <1>1 DEF Goto
  <1>2. ASSUME NEW s \in TaskSteps, Step(w, s), task[w].pc # "idle"
        PROVE  task' \in [Procs -> TaskRecord]
    BY <1>2, TaskShapes DEF Step
  <1>3. QED
    BY <1>1, <1>2, TaskShapes DEF Finish, Start

(* What a running handler or request works on.                             *)
LEMMA Working ==
    ASSUME TypeOK, NEW w \in Procs, task[w].pc # "idle"
    PROVE  /\ task[w] \in TaskRecord
           /\ task[w].payment \in Payments
           /\ Provider[task[w].payment] # "WALLET"
           /\ CheckoutOf[task[w].payment] \in Checkouts
           /\ payment[task[w].payment] \in PaymentRow
  BY ConstantsAssumption DEF TypeOK, TaskRecord

(* A request that runs holds a payment, and the payment has a row.         *)
LEMMA Calling ==
    ASSUME TypeOK, NEW r \in Recorders, request[r].pc # "idle"
    PROVE  /\ request[r] \in RequestRecord
           /\ request[r].payment \in Payments
           /\ payment[request[r].payment] \in PaymentRow
  BY ConstantsAssumption DEF TypeOK, RequestRecord

(* The read of settleGatewayPayment leaves a well-formed handler.          *)
LEMMA SettleReadTyped ==
    ASSUME TypeOK, NEW w \in Procs, NEW p \in Payments,
           WalletRowsSettled \/ Provider[p] # "WALLET", SettleRead(w, p)
    PROVE  task' \in [Procs -> TaskRecord]
  <1>1. CASE Ready(p) /\ Start(w, "settle", p)
    BY <1>1, TaskMoves DEF Ready, Unsettled, Live, WalletRowsSettled, TypeOK, TaskSteps
  <1>2. CASE Verifiable(p) /\ Goto(w, [IdleTask EXCEPT !.pc = "verify", !.payment = p,
                                                       !.attempt = payment[p].authority])
    <2>1. payment[p].authority \in 0 .. MaxAttempts /\ Provider[p] # "WALLET"
      BY <1>2 DEF TypeOK, PaymentRow, Verifiable
    <2>2. QED
      BY <1>2, <2>1, TaskMoves, TaskShapes DEF TypeOK, TaskSteps
  <1>3. CASE Finish(w)
    BY <1>3, TaskMoves DEF TypeOK
  <1>4. QED
    BY <1>1, <1>2, <1>3 DEF SettleRead

(* The start of recordProviderSuccessFromBot leaves a well-formed handler. *)
LEMMA RecordingTyped ==
    ASSUME TypeOK, NEW w \in Procs, NEW p \in Payments, Provider[p] # "WALLET",
           StartRecording(w, p)
    PROVE  task' \in [Procs -> TaskRecord]
  <1>1. Expired(CheckoutOf[p]) \in BOOLEAN
    BY DEF Expired
  <1>2. QED
    BY <1>1, TaskMoves, TaskShapes DEF StartRecording, TypeOK, TaskSteps

-----------------------------------------------------------------------------
(* Every step of the system keeps the types.                               *)
LEMMA TypeStep ==
    ASSUME Inv, [Next]_vars
    PROVE  TypeOK'
  <1> USE ConstantsAssumption
  <1>0. TypeOK /\ WalletRowsSettled
    BY DEF Inv
  <1>1. ASSUME NEW c \in Checkouts, CreateCheckout(c)
        PROVE  TypeOK'
    <2>1. checkout' \in [Checkouts -> CheckoutRow]
      BY <1>0, <1>1, RowShapes
      DEF CreateCheckout, TypeOK, Supersede, SameDraft, CheckoutStatuses
    <2>2. reservation' \in [Checkouts -> ReservationStatuses]
      BY <1>0, <1>1 DEF CreateCheckout, TypeOK, ReservationStatuses
    <2>3. UNCHANGED <<payment, order, balance, ledger, review, redeemed, flagged,
        clock, info, issued, collected, request, task, batch, crashes>>
      BY <1>1 DEF CreateCheckout, rows, external, Supersede
    <2>4. QED
      BY <1>0, <2>1, <2>2, <2>3 DEF TypeOK
  <1>2. ASSUME NEW c \in Checkouts, MaterializeCheckout(c)
        PROVE  TypeOK'
    <2>1. checkout' \in [Checkouts -> CheckoutRow]
      BY <1>0, <1>2, RowShapes
      DEF MaterializeCheckout, TypeOK, Supersede, SameDraft, CheckoutStatuses
    <2>2. UNCHANGED <<payment, order, balance, ledger, review, reservation,
        redeemed, flagged, clock, info, issued, collected, request, task, batch,
        crashes>>
      BY <1>2 DEF MaterializeCheckout, rows, external, Supersede
    <2>3. QED
      BY <1>0, <2>1, <2>2 DEF TypeOK
  <1>3. ASSUME NEW c \in Checkouts, Tick(c)
        PROVE  TypeOK'
    <2>1. clock' \in [Checkouts -> 0 .. 2]
      BY <1>0, <1>3 DEF Tick, TypeOK
    <2>2. UNCHANGED <<checkout, payment, order, balance, ledger, review,
        reservation, redeemed, flagged, info, issued, collected, request, task,
        batch, crashes>>
      BY <1>3 DEF Tick, rows, external
    <2>3. QED
      BY <1>0, <2>1, <2>2 DEF TypeOK
  <1>4. ASSUME NEW c \in Checkouts, SubmitCustomerInfo(c)
        PROVE  TypeOK'
    <2>1. info' \subseteq InfoRequired
      BY <1>0, <1>4 DEF SubmitCustomerInfo, TypeOK
    <2>2. UNCHANGED <<checkout, payment, order, balance, ledger, review,
        reservation, redeemed, flagged, clock, issued, collected, request, task,
        batch, crashes>>
      BY <1>4 DEF SubmitCustomerInfo, rows, external
    <2>3. QED
      BY <1>0, <2>1, <2>2 DEF TypeOK
  <1>5. ASSUME NEW c \in Checkouts, ExpireReservation(c)
        PROVE  TypeOK'
    <2>1. reservation' \in [Checkouts -> ReservationStatuses]
      BY <1>0, <1>5 DEF ExpireReservation, TypeOK, ReservationStatuses
    <2>2. UNCHANGED <<checkout, payment, order, balance, ledger, review, redeemed,
        flagged, clock, info, issued, collected, request, task, batch, crashes>>
      BY <1>5 DEF ExpireReservation, rows, external
    <2>3. QED
      BY <1>0, <2>1, <2>2 DEF TypeOK
  <1>6. ASSUME NEW w \in Workers, NEW p \in Payments, OpenPayment(w, p)
        PROVE  TypeOK'
    <2>1. task' \in [Procs -> TaskRecord]
      BY <1>0, <1>6, TaskMoves DEF OpenPayment, TypeOK, Procs, TaskSteps, Online
    <2>2. UNCHANGED <<checkout, payment, order, balance, ledger, review,
        reservation, redeemed, flagged, clock, info, issued, collected, request,
        batch, crashes>>
      BY <1>6 DEF OpenPayment, rows, external
    <2>3. QED
      BY <1>0, <2>1, <2>2 DEF TypeOK
  <1>7. ASSUME NEW w \in Workers, NEW p \in Payments, CheckPayment(w, p)
        PROVE  TypeOK'
    <2>1. task' \in [Procs -> TaskRecord]
      BY <1>0, <1>7, TaskMoves, SettleReadTyped
      DEF CheckPayment, TypeOK, Procs, Online
    <2>2. UNCHANGED <<checkout, payment, order, balance, ledger, review,
        reservation, redeemed, flagged, clock, info, issued, collected, request,
        batch, crashes>>
      BY <1>7 DEF CheckPayment, rows, external
    <2>3. QED
      BY <1>0, <2>1, <2>2 DEF TypeOK
  <1>8. ASSUME NEW w \in Workers, NEW p \in Payments, StarsPaid(w, p)
        PROVE  TypeOK'
    <2>1. task' \in [Procs -> TaskRecord]
      BY <1>0, <1>8, RecordingTyped DEF StarsPaid, TypeOK, Procs
    <2>2. UNCHANGED <<checkout, payment, order, balance, ledger, review,
        reservation, redeemed, flagged, clock, info, issued, collected, request,
        batch, crashes>>
      BY <1>8 DEF StarsPaid, rows, external
    <2>3. QED
      BY <1>0, <2>1, <2>2 DEF TypeOK
  <1>9. ASSUME NEW w \in Workers, NEW p \in Payments, SubmitReceipt(w, p)
        PROVE  TypeOK'
    <2>1. task' \in [Procs -> TaskRecord]
      BY <1>0, <1>9, TaskMoves DEF SubmitReceipt, TypeOK, Procs, TaskSteps
    <2>2. UNCHANGED <<checkout, payment, order, balance, ledger, review,
        reservation, redeemed, flagged, clock, info, issued, collected, request,
        batch, crashes>>
      BY <1>9 DEF SubmitReceipt, rows, external
    <2>3. QED
      BY <1>0, <2>1, <2>2 DEF TypeOK
  <1>10. ASSUME NEW w \in Workers, NEW p \in Payments, ApproveRead(w, p)
        PROVE  TypeOK'
    <2>1. task' \in [Procs -> TaskRecord]
      BY <1>0, <1>10, TaskMoves
      DEF ApproveRead, TypeOK, Procs, TaskSteps, WalletRowsSettled
    <2>2. UNCHANGED <<checkout, payment, order, balance, ledger, review,
        reservation, redeemed, flagged, clock, info, issued, collected, request,
        batch, crashes>>
      BY <1>10 DEF ApproveRead, rows, external
    <2>3. QED
      BY <1>0, <2>1, <2>2 DEF TypeOK
  <1>11. ASSUME NEW w \in Workers, NEW p \in Payments, RejectRead(w, p)
        PROVE  TypeOK'
    <2>1. task' \in [Procs -> TaskRecord]
      <3> DEFINE c == CheckoutOf[p]
      <3>1. Provider[p] # "WALLET" /\ checkout[c].status \in CheckoutStatuses
            /\ Expired(c) \in BOOLEAN /\ "reject" \in TaskSteps
        BY <1>0, <1>11 DEF RejectRead, WalletRowsSettled, TypeOK, CheckoutRow, Expired, TaskSteps
      <3>2. [IdleTask EXCEPT !.pc = "reject", !.payment = p, !.seen = checkout[c].status,
                             !.late = Expired(c)] \in TaskRecord
        BY <3>1, TaskShapes
      <3>3. QED
        BY <1>0, <1>11, <3>2, TaskMoves DEF RejectRead, Procs, TypeOK
    <2>2. UNCHANGED <<checkout, payment, order, balance, ledger, review,
        reservation, redeemed, flagged, clock, info, issued, collected, request,
        batch, crashes>>
      BY <1>11 DEF RejectRead, rows, external
    <2>3. QED
      BY <1>0, <2>1, <2>2 DEF TypeOK
  <1>12. ASSUME NEW p \in Payments, SettleWalletOrder(p)
        PROVE  TypeOK'
    <2>1. checkout' \in [Checkouts -> CheckoutRow]
      BY <1>0, <1>12, RowShapes DEF SettleWalletOrder, TypeOK
    <2>2. payment' \in [Payments -> PaymentRow]
      BY <1>0, <1>12, RowShapes DEF SettleWalletOrder, TypeOK, Approved
    <2>3. order' \in [Checkouts -> PaymentRef]
      BY <1>0, <1>12 DEF SettleWalletOrder, TypeOK, PaymentRef
    <2>4. balance' \in [Users -> Nat]
      BY <1>0, <1>12 DEF SettleWalletOrder, TypeOK, Affordable
    <2>5. ledger' \in [Payments -> 0 .. 1]
      BY <1>0, <1>12 DEF SettleWalletOrder, TypeOK
    <2>6. reservation' \in [Checkouts -> ReservationStatuses]
      BY <1>0, <1>12 DEF SettleWalletOrder, TypeOK, ReservationStatuses
    <2>7. redeemed' \subseteq Discounted
      BY <1>0, <1>12 DEF SettleWalletOrder, TypeOK, RedeemDiscount
    <2>8. UNCHANGED <<review, flagged, clock, info, issued, collected, request,
        task, batch, crashes>>
      BY <1>12 DEF SettleWalletOrder, rows, external
    <2>9. QED
      BY <1>0, <2>1, <2>2, <2>3, <2>4, <2>5, <2>6, <2>7, <2>8 DEF TypeOK
  <1>13. ASSUME NEW p \in Payments, NEW k \in 1 .. MaxAttempts, Collect(p, k)
        PROVE  TypeOK'
    <2>1. collected' \in [Payments -> SUBSET (1 .. MaxAttempts)]
      BY <1>0, <1>13 DEF Collect, TypeOK
    <2>2. UNCHANGED <<checkout, payment, order, balance, ledger, review,
        reservation, redeemed, flagged, clock, info, issued, request, task, batch,
        crashes>>
      BY <1>13 DEF Collect, rows, external
    <2>3. QED
      BY <1>0, <2>1, <2>2 DEF TypeOK
  <1>14. ASSUME NEW r \in Recorders, NEW p \in Payments, NEW k \in 1 ..
      MaxAttempts, NEW e \in Reports, Callback(r, p, k, e)
        PROVE  TypeOK'
    <2>1. request' \in [Recorders -> RequestRecord]
      BY <1>0, <1>14, RequestShapes DEF Callback, TypeOK, Reported, Events
    <2>2. UNCHANGED <<checkout, payment, order, balance, ledger, review,
        reservation, redeemed, flagged, clock, info, issued, collected, task,
        batch, crashes>>
      BY <1>14 DEF Callback, rows, external
    <2>3. QED
      BY <1>0, <2>1, <2>2 DEF TypeOK
  <1>15. ASSUME NEW r \in Recorders, RecordRead(r)
        PROVE  TypeOK'
    <2>1. request' \in [Recorders -> RequestRecord]
      <3>1. request[r].pc # "idle" /\ Expired(CheckoutOf[request[r].payment]) \in BOOLEAN
        BY <1>15 DEF RecordRead, Expired
      <3>2. QED
        BY <1>0, <1>15, <3>1, Calling, RequestShapes DEF RecordRead, TypeOK
    <2>2. UNCHANGED <<checkout, payment, order, balance, ledger, review,
        reservation, redeemed, flagged, clock, info, issued, collected, task,
        batch, crashes>>
      BY <1>15 DEF RecordRead, rows, external
    <2>3. QED
      BY <1>0, <2>1, <2>2 DEF TypeOK
  <1>16. ASSUME NEW r \in Recorders, RecordWrite(r)
        PROVE  TypeOK'
    <2>1. payment' \in [Payments -> PaymentRow]
      BY <1>0, <1>16, Calling, RowShapes
      DEF RecordWrite, TypeOK, RequestRecord, ProviderStatuses
    <2>2. request' \in [Recorders -> RequestRecord]
      BY <1>0, <1>16, Calling, RequestShapes DEF RecordWrite, TypeOK
    <2>3. UNCHANGED <<checkout, order, balance, ledger, review, reservation,
        redeemed, flagged, clock, info, issued, collected, task, batch, crashes>>
      BY <1>16 DEF RecordWrite, rows, external
    <2>4. QED
      BY <1>0, <2>1, <2>2, <2>3 DEF TypeOK
  <1>17. ASSUME NEW r \in Recorders, RecordStatus(r)
        PROVE  TypeOK'
    <2>1. payment' \in [Payments -> PaymentRow]
      <3> DEFINE p == request[r].payment
                 s == IF payment[p].status \in Live THEN request[r].event ELSE payment[p].status
      <3>1. request[r].pc # "idle"
        BY <1>17 DEF RecordStatus
      <3>2. p \in Payments /\ payment[p] \in PaymentRow /\ request[r].event \in Events \ {"SUCCESS"}
        BY <1>0, <1>17, <3>1, Calling DEF RecordStatus, RequestRecord
      <3>3. s \in PaymentStatuses
        BY <3>2 DEF PaymentRow, PaymentStatuses, Events
      <3>4. payment' = [payment EXCEPT ![p].status = s]
        BY <1>17 DEF RecordStatus
      <3>5. QED
        BY <1>0, <3>2, <3>3, <3>4, RowShapes DEF TypeOK
    <2>2. request' \in [Recorders -> RequestRecord]
      BY <1>0, <1>17, Calling, RequestShapes DEF RecordStatus, TypeOK
    <2>3. UNCHANGED <<checkout, order, balance, ledger, review, reservation,
        redeemed, flagged, clock, info, issued, collected, task, batch, crashes>>
      BY <1>17 DEF RecordStatus, rows, external
    <2>4. QED
      BY <1>0, <2>1, <2>2, <2>3 DEF TypeOK
  <1>18. ASSUME NEW r \in Recorders, RequestDies(r)
        PROVE  TypeOK'
    <2>1. request' \in [Recorders -> RequestRecord]
      BY <1>0, <1>18, RequestShapes DEF RequestDies, TypeOK
    <2>2. crashes' \in 0 .. MaxCrashes
      BY <1>0, <1>18 DEF RequestDies, TypeOK
    <2>3. UNCHANGED <<checkout, payment, order, balance, ledger, review,
        reservation, redeemed, flagged, clock, info, issued, collected, task,
        batch>>
      BY <1>18 DEF RequestDies, rows, external
    <2>4. QED
      BY <1>0, <2>1, <2>2, <2>3 DEF TypeOK
  <1>19. ASSUME NEW w \in Procs, LoadOrCreatePaymentRow(w)
        PROVE  TypeOK'
    <2>0. task[w].pc # "idle"
      BY <1>19 DEF LoadOrCreatePaymentRow
    <2>1. task' \in [Procs -> TaskRecord]
      BY <1>0, <1>19, <2>0, Working, TaskMoves
      DEF LoadOrCreatePaymentRow, TypeOK, TaskSteps
    <2>2. payment' \in [Payments -> PaymentRow]
      <3> DEFINE p == task[w].payment
      <3>1. [payment[p] EXCEPT !.status = "PENDING", !.providerStatus = "NULL", !.authority = 0]
                \in PaymentRow
        BY <1>0, <2>0, Working, RowShapes
      <3>2. [payment EXCEPT ![p].status = "PENDING", ![p].providerStatus = "NULL",
                            ![p].authority = 0]
            = [payment EXCEPT ![p] = [payment[p] EXCEPT
                   !.status = "PENDING", !.providerStatus = "NULL", !.authority = 0]]
        BY <1>0, <2>0, Working DEF TypeOK
      <3>3. payment' = payment \/ payment' = [payment EXCEPT ![p].status = "PENDING", ![p].providerStatus = "NULL",
                            ![p].authority = 0]
        BY <1>19 DEF LoadOrCreatePaymentRow
      <3>4. CASE payment' = payment
        BY <1>0, <3>4 DEF TypeOK
      <3>5. CASE payment' = [payment EXCEPT ![p].status = "PENDING", ![p].providerStatus = "NULL",
                            ![p].authority = 0]
        BY <1>0, <2>0, <3>1, <3>2, <3>5, Working DEF TypeOK
      <3>6. QED
        BY <3>3, <3>4, <3>5
    <2>3. UNCHANGED <<checkout, order, balance, ledger, review, reservation,
        redeemed, flagged, clock, info, issued, collected, request, batch,
        crashes>>
      BY <1>19 DEF LoadOrCreatePaymentRow, rows, external
    <2>4. QED
      BY <1>0, <2>1, <2>2, <2>3 DEF TypeOK
  <1>20. ASSUME NEW w \in Procs, ProviderCreates(w)
        PROVE  TypeOK'
    <2>0. task[w].pc # "idle"
      BY <1>20 DEF ProviderCreates
    <2>1. task' \in [Procs -> TaskRecord]
      BY <1>0, <1>20, <2>0, Working, TaskMoves DEF ProviderCreates, TypeOK
    <2>2. payment' \in [Payments -> PaymentRow]
      <3> DEFINE p == task[w].payment
      <3>1. issued[p] + 1 \in 0 .. MaxAttempts
        BY <1>0, <1>20, <2>0, Working DEF ProviderCreates, TypeOK
      <3>2. QED
        BY <1>0, <1>20, <2>0, <3>1, Working, RowShapes DEF ProviderCreates, TypeOK
    <2>3. issued' \in [Payments -> 0 .. MaxAttempts]
      BY <1>0, <1>20, <2>0, Working DEF ProviderCreates, TypeOK
    <2>4. UNCHANGED <<checkout, order, balance, ledger, review, reservation,
        redeemed, flagged, clock, info, collected, request, batch, crashes>>
      BY <1>20 DEF ProviderCreates, rows, external
    <2>5. QED
      BY <1>0, <2>1, <2>2, <2>3, <2>4 DEF TypeOK
  <1>21. ASSUME NEW w \in Procs, ProviderCreateFails(w)
        PROVE  TypeOK'
    <2>0. task[w].pc # "idle"
      BY <1>21 DEF ProviderCreateFails
    <2>1. task' \in [Procs -> TaskRecord]
      BY <1>0, <1>21, <2>0, Working, TaskMoves DEF ProviderCreateFails, TypeOK
    <2>2. payment' \in [Payments -> PaymentRow]
      <3> DEFINE p == task[w].payment
                 s == IF payment[p].status = "PENDING" THEN "FAILED" ELSE payment[p].status
      <3>1. s \in PaymentStatuses
        BY <2>0, <1>0, Working DEF PaymentRow, PaymentStatuses
      <3>2. payment' = [payment EXCEPT ![p].status = s]
        BY <1>21 DEF ProviderCreateFails
      <3>3. QED
        BY <1>0, <2>0, <3>1, <3>2, Working, RowShapes DEF TypeOK
    <2>3. UNCHANGED <<checkout, order, balance, ledger, review, reservation,
        redeemed, flagged, clock, info, issued, collected, request, batch,
        crashes>>
      BY <1>21 DEF ProviderCreateFails, rows, external
    <2>4. QED
      BY <1>0, <2>1, <2>2, <2>3 DEF TypeOK
  <1>22. ASSUME NEW w \in Procs, VerifySucceeds(w)
        PROVE  TypeOK'
    <2>0. task[w].pc # "idle"
      BY <1>22 DEF VerifySucceeds
    <2>1. task' \in [Procs -> TaskRecord]
      BY <1>0, <1>22, <2>0, Working, RecordingTyped DEF VerifySucceeds, TypeOK
    <2>2. UNCHANGED <<checkout, payment, order, balance, ledger, review,
        reservation, redeemed, flagged, clock, info, issued, collected, request,
        batch, crashes>>
      BY <1>22 DEF VerifySucceeds, rows, external
    <2>3. QED
      BY <1>0, <2>1, <2>2 DEF TypeOK
  <1>23. ASSUME NEW w \in Procs, FailPayment(w)
        PROVE  TypeOK'
    <2>0. task[w].pc # "idle"
      BY <1>23 DEF FailPayment
    <2>1. task' \in [Procs -> TaskRecord]
      BY <1>0, <1>23, <2>0, Working, TaskMoves DEF FailPayment, TypeOK
    <2>2. payment' \in [Payments -> PaymentRow]
      <3> DEFINE p == task[w].payment
                 s == IF payment[p].status \in Live THEN "FAILED" ELSE payment[p].status
      <3>1. s \in PaymentStatuses
        BY <2>0, <1>0, Working DEF PaymentRow, PaymentStatuses
      <3>2. payment' = [payment EXCEPT ![p].status = s]
        BY <1>23 DEF FailPayment
      <3>3. QED
        BY <1>0, <2>0, <3>1, <3>2, Working, RowShapes DEF TypeOK
    <2>3. UNCHANGED <<checkout, order, balance, ledger, review, reservation,
        redeemed, flagged, clock, info, issued, collected, request, batch,
        crashes>>
      BY <1>23 DEF FailPayment, rows, external
    <2>4. QED
      BY <1>0, <2>1, <2>2, <2>3 DEF TypeOK
  <1>23a. ASSUME NEW w \in Procs, VerifyFails(w)
        PROVE  TypeOK'
    <2>1. task' \in [Procs -> TaskRecord]
      BY <1>0, <1>23a, TaskMoves DEF VerifyFails, TypeOK, TaskSteps
    <2>2. QED
      BY <1>0, <1>23a, <2>1 DEF VerifyFails, TypeOK, rows, external
  <1>24. ASSUME NEW w \in Procs, VerifyUncertain(w)
        PROVE  TypeOK'
    <2>0. task[w].pc # "idle"
      BY <1>24 DEF VerifyUncertain
    <2>1. task' \in [Procs -> TaskRecord]
      BY <1>0, <1>24, <2>0, Working, TaskMoves DEF VerifyUncertain, TypeOK
    <2>2. UNCHANGED <<checkout, payment, order, balance, ledger, review,
        reservation, redeemed, flagged, clock, info, issued, collected, request,
        batch, crashes>>
      BY <1>24 DEF VerifyUncertain, rows, external
    <2>3. QED
      BY <1>0, <2>1, <2>2 DEF TypeOK
  <1>25. ASSUME NEW w \in Procs, BotRecordSuccess(w)
        PROVE  TypeOK'
    <2>0. task[w].pc # "idle"
      BY <1>25 DEF BotRecordSuccess
    <2>1. task' \in [Procs -> TaskRecord]
      BY <1>0, <1>25, <2>0, Working, TaskMoves
      DEF BotRecordSuccess, TypeOK, TaskSteps, AfterRecording
    <2>2. payment' \in [Payments -> PaymentRow]
      BY <1>0, <1>25, <2>0, Working, RowShapes
      DEF BotRecordSuccess, TypeOK, ProviderStatuses, Events
    <2>3. UNCHANGED <<checkout, order, balance, ledger, review, reservation,
        redeemed, flagged, clock, info, issued, collected, request, batch,
        crashes>>
      BY <1>25 DEF BotRecordSuccess, rows, external
    <2>4. QED
      BY <1>0, <2>1, <2>2, <2>3 DEF TypeOK
  <1>26. ASSUME NEW w \in Procs, BotMarkProcessing(w)
        PROVE  TypeOK'
    <2>0. task[w].pc # "idle"
      BY <1>26 DEF BotMarkProcessing
    <2>1. task' \in [Procs -> TaskRecord]
      BY <1>0, <1>26, <2>0, Working, TaskMoves
      DEF BotMarkProcessing, TypeOK, TaskSteps, AfterRecording
    <2>2. payment' \in [Payments -> PaymentRow]
      <3> DEFINE p == task[w].payment
                 s == IF payment[p].status \in Live THEN "PROCESSING" ELSE payment[p].status
      <3>1. s \in PaymentStatuses
        BY <2>0, <1>0, Working DEF PaymentRow, PaymentStatuses
      <3>2. payment' = [payment EXCEPT ![p].status = s]
        BY <1>26 DEF BotMarkProcessing
      <3>3. QED
        BY <1>0, <2>0, <3>1, <3>2, Working, RowShapes DEF TypeOK
    <2>3. UNCHANGED <<checkout, order, balance, ledger, review, reservation,
        redeemed, flagged, clock, info, issued, collected, request, batch,
        crashes>>
      BY <1>26 DEF BotMarkProcessing, rows, external
    <2>4. QED
      BY <1>0, <2>1, <2>2, <2>3 DEF TypeOK
  <1>27. ASSUME NEW w \in Procs, StarsSettle(w)
        PROVE  TypeOK'
    <2>0. task[w].pc # "idle"
      BY <1>27 DEF StarsSettle
    <2>1. task' \in [Procs -> TaskRecord]
      BY <1>0, <1>27, <2>0, Working, SettleReadTyped DEF StarsSettle, TypeOK
    <2>2. UNCHANGED <<checkout, payment, order, balance, ledger, review,
        reservation, redeemed, flagged, clock, info, issued, collected, request,
        batch, crashes>>
      BY <1>27 DEF StarsSettle, rows, external
    <2>3. QED
      BY <1>0, <2>1, <2>2 DEF TypeOK
  <1>28. ASSUME NEW w \in Procs, SettleCommit(w)
        PROVE  TypeOK'
    <2>0. task[w].pc # "idle"
      BY <1>28 DEF SettleCommit
    <2>1. task' \in [Procs -> TaskRecord]
      BY <1>0, <1>28, <2>0, Working, TaskMoves DEF SettleCommit, TypeOK, TaskSteps
    <2>2. checkout' \in [Checkouts -> CheckoutRow]
      BY <1>0, <1>28, <2>0, Working, RowShapes DEF SettleCommit, TypeOK
    <2>3. payment' \in [Payments -> PaymentRow]
      BY <1>0, <1>28, <2>0, Working, RowShapes DEF SettleCommit, TypeOK, Approved
    <2>4. order' \in [Checkouts -> PaymentRef]
      BY <1>0, <1>28, <2>0, Working
      DEF SettleCommit, TypeOK, GatewayOrder, TopUp, CreateOrder, CreditWallet,
          RedeemDiscount, PaymentRef
    <2>5. balance' \in [Users -> Nat]
      BY <1>0, <1>28, <2>0, Working
      DEF SettleCommit, TypeOK, GatewayOrder, TopUp, CreateOrder, CreditWallet,
          RedeemDiscount
    <2>6. ledger' \in [Payments -> 0 .. 1]
      BY <1>0, <1>28, <2>0, Working
      DEF SettleCommit, TypeOK, GatewayOrder, TopUp, CreateOrder, CreditWallet,
          RedeemDiscount
    <2>7. review' \in [Payments -> CaseRow]
      <3> DEFINE p == task[w].payment
      <3>1. review' = review \/ \E r \in CaseRow : review' = [review EXCEPT ![p] = r]
        <4>1. CASE IsTopUp(p)
          BY <1>28, <4>1 DEF SettleCommit, TopUp
        <4>2. CASE ~IsTopUp(p)
          BY <1>0, <1>28, <2>0, <4>2, Working, RowShapes DEF SettleCommit, GatewayOrder, TypeOK
        <4>3. QED
          BY <4>1, <4>2
      <3>2. QED
        BY <1>0, <2>0, <3>1, Working DEF TypeOK
    <2>8. reservation' \in [Checkouts -> ReservationStatuses]
      BY <1>0, <1>28, <2>0, Working
      DEF SettleCommit, TypeOK, GatewayOrder, TopUp, CreateOrder, CreditWallet,
          RedeemDiscount, ReservationStatuses
    <2>9. redeemed' \subseteq Discounted
      BY <1>0, <1>28, <2>0, Working
      DEF SettleCommit, TypeOK, GatewayOrder, TopUp, CreateOrder, CreditWallet,
          RedeemDiscount
    <2>10. flagged' \subseteq Discounted
      BY <1>0, <1>28, <2>0, Working
      DEF SettleCommit, TypeOK, GatewayOrder, TopUp, CreateOrder, CreditWallet,
          RedeemDiscount, DiscountClaimable
    <2>11. UNCHANGED <<clock, info, issued, collected, request, batch, crashes>>
      BY <1>28 DEF SettleCommit, rows, external
    <2>12. QED
      BY <1>0, <2>1, <2>2, <2>3, <2>4, <2>5, <2>6, <2>7, <2>8, <2>9, <2>10, <2>11
      DEF TypeOK
  <1>29. ASSUME NEW w \in Procs, NotifyCase(w)
        PROVE  TypeOK'
    <2>0. task[w].pc # "idle"
      BY <1>29 DEF NotifyCase
    <2>1. task' \in [Procs -> TaskRecord]
      BY <1>0, <1>29, <2>0, Working, TaskMoves DEF NotifyCase, TypeOK
    <2>2. review' \in [Payments -> CaseRow]
      <3> DEFINE p == task[w].payment
      <3>1. PICK sent \in BOOLEAN : review' = [review EXCEPT ![p].notified = @ \/ sent]
        BY <1>29 DEF NotifyCase
      <3>2. (review[p].notified \/ sent) \in BOOLEAN
        OBVIOUS
      <3>3. QED
        BY <1>0, <2>0, <3>1, <3>2, Working, RowShapes DEF TypeOK
    <2>3. UNCHANGED <<checkout, payment, order, balance, ledger, reservation,
        redeemed, flagged, clock, info, issued, collected, request, batch,
        crashes>>
      BY <1>29 DEF NotifyCase, rows, external
    <2>4. QED
      BY <1>0, <2>1, <2>2, <2>3 DEF TypeOK
  <1>30. ASSUME NEW w \in Procs, SettleAbort(w)
        PROVE  TypeOK'
    <2>0. task[w].pc # "idle"
      BY <1>30 DEF SettleAbort
    <2>1. task' \in [Procs -> TaskRecord]
      BY <1>0, <1>30, <2>0, Working, TaskMoves DEF SettleAbort, TypeOK
    <2>2. UNCHANGED <<checkout, payment, order, balance, ledger, review,
        reservation, redeemed, flagged, clock, info, issued, collected, request,
        batch, crashes>>
      BY <1>30 DEF SettleAbort, rows, external
    <2>3. QED
      BY <1>0, <2>1, <2>2 DEF TypeOK
  <1>31. ASSUME NEW w \in Procs, SettleLost(w)
        PROVE  TypeOK'
    <2>0. task[w].pc # "idle"
      BY <1>31 DEF SettleLost
    <2>1. task' \in [Procs -> TaskRecord]
      BY <1>0, <1>31, <2>0, Working, TaskShapes
      DEF SettleLost, TypeOK, TaskSteps, CheckoutRow
    <2>2. UNCHANGED <<checkout, payment, order, balance, ledger, review,
        reservation, redeemed, flagged, clock, info, issued, collected, request,
        batch, crashes>>
      BY <1>31 DEF SettleLost, rows, external
    <2>3. QED
      BY <1>0, <2>1, <2>2 DEF TypeOK
  <1>32. ASSUME NEW w \in Procs, RecordDuplicateSuccess(w)
        PROVE  TypeOK'
    <2>0. task[w].pc # "idle"
      BY <1>32 DEF RecordDuplicateSuccess
    <2>1. task' \in [Procs -> TaskRecord]
      BY <1>0, <1>32, <2>0, Working, TaskMoves DEF RecordDuplicateSuccess, TypeOK
    <2>2. payment' \in [Payments -> PaymentRow]
      <3> DEFINE p == task[w].payment
                 s == IF payment[p].settlementStatus = "UNSETTLED" THEN "DUPLICATE_SUCCESS_REVIEW"
                      ELSE payment[p].settlementStatus
      <3>1. [payment[p] EXCEPT !.settlementStatus = s] \in PaymentRow
        BY <1>0, <2>0, Working DEF PaymentRow
      <3>2. payment' = [payment EXCEPT ![p].settlementStatus = s]
        BY <1>32 DEF RecordDuplicateSuccess
      <3>3. QED
        BY <1>0, <2>0, <3>1, <3>2, Working DEF TypeOK
    <2>3. review' \in [Payments -> CaseRow]
      BY <1>0, <1>32, <2>0, Working, RowShapes
      DEF RecordDuplicateSuccess, TypeOK, TaskRecord
    <2>4. UNCHANGED <<checkout, order, balance, ledger, reservation, redeemed,
        flagged, clock, info, issued, collected, request, batch, crashes>>
      BY <1>32 DEF RecordDuplicateSuccess, rows, external
    <2>5. QED
      BY <1>0, <2>1, <2>2, <2>3, <2>4 DEF TypeOK
  <1>33. ASSUME NEW w \in Procs, InsertReceipt(w)
        PROVE  TypeOK'
    <2>0. task[w].pc # "idle"
      BY <1>33 DEF InsertReceipt
    <2>1. task' \in [Procs -> TaskRecord]
      BY <1>0, <1>33, <2>0, Working, TaskMoves DEF InsertReceipt, TypeOK
    <2>2. payment' \in [Payments -> PaymentRow]
      <3> DEFINE p == task[w].payment
      <3>1. Expired(CheckoutOf[p]) \in BOOLEAN
        BY DEF Expired
      <3>2. [NoRow EXCEPT !.status = "PENDING_REVIEW", !.late = Expired(CheckoutOf[p])] \in PaymentRow
        BY <3>1, RowShapes
      <3>3. QED
        BY <1>0, <1>33, <2>0, <3>2, Working DEF InsertReceipt, TypeOK
    <2>3. UNCHANGED <<checkout, order, balance, ledger, review, reservation,
        redeemed, flagged, clock, info, issued, collected, request, batch,
        crashes>>
      BY <1>33 DEF InsertReceipt, rows, external
    <2>4. QED
      BY <1>0, <2>1, <2>2, <2>3 DEF TypeOK
  <1>34. ASSUME NEW w \in Procs, ApproveCommit(w)
        PROVE  TypeOK'
    <2>0. task[w].pc # "idle"
      BY <1>34 DEF ApproveCommit
    <2>1. task' \in [Procs -> TaskRecord]
      BY <1>0, <1>34, <2>0, Working, TaskMoves DEF ApproveCommit, TypeOK
    <2>2. checkout' \in [Checkouts -> CheckoutRow]
      BY <1>0, <1>34, <2>0, Working, RowShapes DEF ApproveCommit, TypeOK
    <2>3. payment' \in [Payments -> PaymentRow]
      BY <1>0, <1>34, <2>0, Working, RowShapes DEF ApproveCommit, TypeOK, Approved
    <2>4. order' \in [Checkouts -> PaymentRef]
      BY <1>0, <1>34, <2>0, Working
      DEF ApproveCommit, TypeOK, TopUp, CreateOrder, CreditWallet, RedeemDiscount,
          PaymentRef
    <2>5. balance' \in [Users -> Nat]
      BY <1>0, <1>34, <2>0, Working
      DEF ApproveCommit, TypeOK, TopUp, CreateOrder, CreditWallet, RedeemDiscount
    <2>6. ledger' \in [Payments -> 0 .. 1]
      BY <1>0, <1>34, <2>0, Working
      DEF ApproveCommit, TypeOK, TopUp, CreateOrder, CreditWallet, RedeemDiscount
    <2>7. reservation' \in [Checkouts -> ReservationStatuses]
      BY <1>0, <1>34, <2>0, Working
      DEF ApproveCommit, TypeOK, TopUp, CreateOrder, CreditWallet, RedeemDiscount,
          ReservationStatuses
    <2>8. redeemed' \subseteq Discounted
      BY <1>0, <1>34, <2>0, Working
      DEF ApproveCommit, TypeOK, TopUp, CreateOrder, CreditWallet, RedeemDiscount
    <2>9. review' \in [Payments -> CaseRow]
      BY <1>0, <1>34, <2>0, Working DEF ApproveCommit, TypeOK, TopUp
    <2>10. flagged' \subseteq Discounted
      BY <1>0, <1>34, <2>0, Working DEF ApproveCommit, TypeOK, TopUp
    <2>11. UNCHANGED <<clock, info, issued, collected, request, batch, crashes>>
      BY <1>34 DEF ApproveCommit, rows, external
    <2>12. QED
      BY <1>0, <2>1, <2>2, <2>3, <2>4, <2>5, <2>6, <2>7, <2>8, <2>9, <2>10, <2>11
      DEF TypeOK
  <1>35. ASSUME NEW w \in Procs, ApproveAbort(w)
        PROVE  TypeOK'
    <2>0. task[w].pc # "idle"
      BY <1>35 DEF ApproveAbort
    <2>1. task' \in [Procs -> TaskRecord]
      BY <1>0, <1>35, <2>0, Working, TaskMoves DEF ApproveAbort, TypeOK
    <2>2. UNCHANGED <<checkout, payment, order, balance, ledger, review,
        reservation, redeemed, flagged, clock, info, issued, collected, request,
        batch, crashes>>
      BY <1>35 DEF ApproveAbort, rows, external
    <2>3. QED
      BY <1>0, <2>1, <2>2 DEF TypeOK
  <1>36. ASSUME NEW w \in Procs, RejectCommit(w)
        PROVE  TypeOK'
    <2>0. task[w].pc # "idle"
      BY <1>36 DEF RejectCommit
    <2>1. task' \in [Procs -> TaskRecord]
      BY <1>0, <1>36, <2>0, Working, TaskMoves DEF RejectCommit, TypeOK
    <2>2. checkout' \in [Checkouts -> CheckoutRow]
      <3> DEFINE c == CheckoutOf[task[w].payment]
                 s == IF task[w].seen = "PENDING" /\ task[w].late THEN "EXPIRED"
                      ELSE checkout[c].status
      <3>1. s \in CheckoutStatuses
        BY <1>0, <2>0, Working DEF TypeOK, CheckoutRow, CheckoutStatuses
      <3>2. checkout' = checkout \/ checkout' = [checkout EXCEPT ![c].status = s]
        BY <1>36 DEF RejectCommit
      <3>3. CASE checkout' = checkout
        BY <1>0, <3>3 DEF TypeOK
      <3>4. CASE checkout' = [checkout EXCEPT ![c].status = s]
        <4>1. c \in Checkouts /\ [checkout[c] EXCEPT !.status = s] \in CheckoutRow
          BY <1>0, <2>0, <3>1, Working, RowShapes DEF TypeOK
        <4>2. QED
          BY <1>0, <3>4, <4>1 DEF TypeOK
      <3>5. QED
        BY <3>2, <3>3, <3>4
    <2>3. payment' \in [Payments -> PaymentRow]
      <3> DEFINE p == task[w].payment
      <3>1. "REJECTED" \in PaymentStatuses
        BY DEF PaymentStatuses
      <3>2. payment' = payment \/ payment' = [payment EXCEPT ![p].status = "REJECTED"]
        BY <1>36 DEF RejectCommit
      <3>3. CASE payment' = payment
        BY <1>0, <3>3 DEF TypeOK
      <3>4. CASE payment' = [payment EXCEPT ![p].status = "REJECTED"]
        BY <1>0, <2>0, <3>1, <3>4, Working, RowShapes DEF TypeOK
      <3>5. QED
        BY <3>2, <3>3, <3>4
    <2>4. UNCHANGED <<order, balance, ledger, review, reservation, redeemed,
        flagged, clock, info, issued, collected, request, batch, crashes>>
      BY <1>36 DEF RejectCommit, rows, external
    <2>5. QED
      BY <1>0, <2>1, <2>2, <2>3, <2>4 DEF TypeOK
  <1>37. CASE SweepSelect
    <2>1. batch' \subseteq Payments
      BY <1>0, <1>37 DEF SweepSelect, TypeOK
    <2>2. UNCHANGED <<checkout, payment, order, balance, ledger, review,
        reservation, redeemed, flagged, clock, info, issued, collected, request,
        task, crashes>>
      BY <1>37 DEF SweepSelect, rows, external
    <2>3. QED
      BY <1>0, <2>1, <2>2 DEF TypeOK
  <1>38. ASSUME NEW p \in Payments, SweepNext(p)
        PROVE  TypeOK'
    <2>1. task' \in [Procs -> TaskRecord]
      BY <1>0, <1>38, SettleReadTyped DEF SweepNext, TypeOK, Procs
    <2>2. batch' \subseteq Payments
      BY <1>0, <1>38 DEF SweepNext, TypeOK
    <2>3. UNCHANGED <<checkout, payment, order, balance, ledger, review,
        reservation, redeemed, flagged, clock, info, issued, collected, request,
        crashes>>
      BY <1>38 DEF SweepNext, rows, external
    <2>4. QED
      BY <1>0, <2>1, <2>2, <2>3 DEF TypeOK
  <1>39. CASE SweepExpire
    <2>1. payment' \in [Payments -> PaymentRow]
      BY <1>0, <1>39, RowShapes DEF SweepExpire, TypeOK, PaymentStatuses
    <2>2. UNCHANGED <<checkout, order, balance, ledger, review, reservation,
        redeemed, flagged, clock, info, issued, collected, request, task, batch,
        crashes>>
      BY <1>39 DEF SweepExpire, rows, external
    <2>3. QED
      BY <1>0, <2>1, <2>2 DEF TypeOK
  <1>40. ASSUME NEW p \in Payments, SweepNotify(p)
        PROVE  TypeOK'
    <2>1. review' \in [Payments -> CaseRow]
      BY <1>0, <1>40, RowShapes DEF SweepNotify, TypeOK
    <2>2. UNCHANGED <<checkout, payment, order, balance, ledger, reservation,
        redeemed, flagged, clock, info, issued, collected, request, task, batch,
        crashes>>
      BY <1>40 DEF SweepNotify, rows, external
    <2>3. QED
      BY <1>0, <2>1, <2>2 DEF TypeOK
  <1>41. CASE BotCrash
    <2>1. task' \in [Procs -> TaskRecord]
      BY <1>0, <1>41, TaskShapes DEF BotCrash, TypeOK
    <2>2. batch' \subseteq Payments
      BY <1>0, <1>41 DEF BotCrash, TypeOK
    <2>3. crashes' \in 0 .. MaxCrashes
      BY <1>0, <1>41 DEF BotCrash, TypeOK
    <2>4. UNCHANGED <<checkout, payment, order, balance, ledger, review,
        reservation, redeemed, flagged, clock, info, issued, collected, request>>
      BY <1>41 DEF BotCrash, rows, external
    <2>5. QED
      BY <1>0, <2>1, <2>2, <2>3, <2>4 DEF TypeOK
  <1>42. CASE UNCHANGED vars
    BY <1>0, <1>42 DEF vars, rows, external, TypeOK
  <1>43. QED
    BY <1>1, <1>2, <1>3, <1>4, <1>5, <1>6, <1>7, <1>8, <1>9, <1>10, <1>11, <1>12,
        <1>13, <1>14, <1>15, <1>16, <1>17, <1>18, <1>19, <1>20, <1>21, <1>22,
        <1>23, <1>23a, <1>24, <1>25, <1>26, <1>27, <1>28, <1>29, <1>30, <1>31, <1>32,
        <1>33, <1>34, <1>35, <1>36, <1>37, <1>38, <1>39, <1>40, <1>41, <1>42
    DEF Next, BotStep, SweepStep

-----------------------------------------------------------------------------
(* The steps that decide, and all the others.                              *)

(* A payment claims an open checkout, with its order or its wallet money.  *)
Settles(p) ==
    LET c == CheckoutOf[p] IN
    /\ checkout[c].status \in {"NONE", "PENDING"} /\ payment[p].status # "APPROVED"
    /\ checkout' = [checkout EXCEPT ![c] = [status |-> "PAID", owner |-> p]]
    /\ payment'  = [payment EXCEPT ![p] = Approved(p)]
    /\ order'    = [order EXCEPT ![c] = IF IsTopUp(p) THEN NoPayment ELSE p]
    /\ ledger'   = [ledger EXCEPT ![p] = IF IsTopUp(p) \/ Provider[p] = "WALLET" THEN 1 ELSE 0]

(* Nothing is decided: owners, settled payments, orders and wallet money   *)
(* stay, no closed checkout opens, no wallet payment is written.           *)
OwnersStay ==
    \A c \in Checkouts :
        /\ checkout'[c].owner = checkout[c].owner
        /\ checkout'[c].status \in {"NONE", "PENDING"} => checkout[c].status \in {"NONE", "PENDING"}
        /\ checkout'[c].status = "NONE" => checkout[c].status = "NONE"
DecidedStay ==
    \A p \in Payments :
        /\ Provider[p] = "WALLET" => payment'[p].status = payment[p].status
        /\ payment'[p].status = "APPROVED" <=> payment[p].status = "APPROVED"
        /\ payment'[p].settlementStatus = payment[p].settlementStatus
        /\ payment'[p].status = "NONE" => payment[p].status = "NONE"
        /\ payment[p].status = "NONE" /\ payment'[p].status # "NONE" =>
               checkout[CheckoutOf[p]].status # "NONE"
Quiet == OwnersStay /\ DecidedStay /\ UNCHANGED <<order, ledger>>

(* A payment that came too late is filed.                                  *)
Files(p) ==
    /\ payment[p].settlementStatus = "UNSETTLED" /\ payment[p].status # "NONE"
    /\ ~Open(CheckoutOf[p]) /\ ~Owns(p)
    /\ payment' = [payment EXCEPT ![p].settlementStatus = "DUPLICATE_SUCCESS_REVIEW"]
    /\ \E w \in Procs : task[w].payment = p /\ RecordDuplicateSuccess(w)
    /\ UNCHANGED <<checkout, order, ledger>>

(* Every step is a settlement, a filing, or decides nothing.               *)
LEMMA DecidingSteps ==
    ASSUME IInv, [Next]_vars
    PROVE  Quiet \/ \E p \in Payments : Settles(p) \/ Files(p)
  <1> USE ConstantsAssumption
  <1>0. /\ TypeOK /\ WalletRowsSettled /\ SettledByOwner /\ MoneyFollowsOwner /\ OwnedIsClosed
        /\ RowsOpened /\ TasksOpened /\ FiledClosed /\ FilingClosed
    BY DEF IInv, Inv
  <1>1. ASSUME NEW c \in Checkouts, CreateCheckout(c)
        PROVE  Quiet
    BY <1>0, <1>1
    DEF CreateCheckout, Supersede, SameDraft, Quiet, OwnersStay, DecidedStay,
        TypeOK, CheckoutRow
  <1>2. ASSUME NEW c \in Checkouts, MaterializeCheckout(c)
        PROVE  Quiet
    BY <1>0, <1>2
    DEF MaterializeCheckout, Supersede, SameDraft, Quiet, OwnersStay, DecidedStay,
        TypeOK, CheckoutRow
  <1>3. ASSUME NEW c \in Checkouts, Tick(c)
        PROVE  Quiet
    BY <1>3 DEF Tick, Quiet, OwnersStay, DecidedStay, rows
  <1>4. ASSUME NEW c \in Checkouts, SubmitCustomerInfo(c)
        PROVE  Quiet
    BY <1>4 DEF SubmitCustomerInfo, Quiet, OwnersStay, DecidedStay, rows
  <1>5. ASSUME NEW c \in Checkouts, ExpireReservation(c)
        PROVE  Quiet
    BY <1>5 DEF ExpireReservation, Quiet, OwnersStay, DecidedStay, rows
  <1>6. ASSUME NEW w \in Workers, NEW p \in Payments, OpenPayment(w, p)
        PROVE  Quiet
    BY <1>6 DEF OpenPayment, Quiet, OwnersStay, DecidedStay, rows
  <1>7. ASSUME NEW w \in Workers, NEW p \in Payments, CheckPayment(w, p)
        PROVE  Quiet
    BY <1>7 DEF CheckPayment, Quiet, OwnersStay, DecidedStay, rows
  <1>8. ASSUME NEW w \in Workers, NEW p \in Payments, StarsPaid(w, p)
        PROVE  Quiet
    BY <1>8 DEF StarsPaid, Quiet, OwnersStay, DecidedStay, rows
  <1>9. ASSUME NEW w \in Workers, NEW p \in Payments, SubmitReceipt(w, p)
        PROVE  Quiet
    BY <1>9 DEF SubmitReceipt, Quiet, OwnersStay, DecidedStay, rows
  <1>10. ASSUME NEW w \in Workers, NEW p \in Payments, ApproveRead(w, p)
        PROVE  Quiet
    BY <1>10 DEF ApproveRead, Quiet, OwnersStay, DecidedStay, rows
  <1>11. ASSUME NEW w \in Workers, NEW p \in Payments, RejectRead(w, p)
        PROVE  Quiet
    BY <1>11 DEF RejectRead, Quiet, OwnersStay, DecidedStay, rows
  <1>12. ASSUME NEW p \in Payments, SettleWalletOrder(p)
        PROVE  \E q \in Payments : Settles(q)
    <2>1. ledger[p] = 0 /\ ~IsTopUp(p) /\ checkout[CheckoutOf[p]].status \in {"NONE", "PENDING"}
      BY <1>0, <1>12 DEF SettleWalletOrder, MoneyFollowsOwner, SettledByOwner, Settled, Owns, TypeOK,
                        Claimable
    <2>2. Settles(p)
      BY <1>12, <2>1 DEF SettleWalletOrder, Settles
    <2>3. QED
      BY <2>2
  <1>13. ASSUME NEW p \in Payments, NEW k \in 1 .. MaxAttempts, Collect(p, k)
        PROVE  Quiet
    BY <1>13 DEF Collect, Quiet, OwnersStay, DecidedStay, rows
  <1>14. ASSUME NEW r \in Recorders, NEW p \in Payments, NEW k \in 1 ..
      MaxAttempts, NEW e \in Reports, Callback(r, p, k, e)
        PROVE  Quiet
    BY <1>14 DEF Callback, Quiet, OwnersStay, DecidedStay, rows
  <1>15. ASSUME NEW r \in Recorders, RecordRead(r)
        PROVE  Quiet
    BY <1>15 DEF RecordRead, Quiet, OwnersStay, DecidedStay, rows
  <1>16. ASSUME NEW r \in Recorders, RecordWrite(r)
        PROVE  Quiet
    <2>0. request[r].pc # "idle"
      BY <1>16 DEF RecordWrite
    <2>1. DecidedStay
      BY <1>0, <1>16, <2>0, Calling DEF RecordWrite, DecidedStay, TypeOK, PaymentRow
    <2>2. OwnersStay
      BY <1>16 DEF RecordWrite, OwnersStay
    <2>3. QED
      BY <1>16, <2>1, <2>2 DEF RecordWrite, Quiet
  <1>17. ASSUME NEW r \in Recorders, RecordStatus(r)
        PROVE  Quiet
    <2>0. request[r].pc # "idle"
      BY <1>17 DEF RecordStatus
    <2>1. DecidedStay
      <3> DEFINE p == request[r].payment
      <3>1. p \in Payments /\ request[r].event \notin {"APPROVED", "NONE"}
        BY <1>0, <2>0, Calling DEF RequestRecord, Events
      <3>2. payment' = [payment EXCEPT ![p].status =
                            IF payment[p].status \in Live THEN request[r].event ELSE payment[p].status]
        BY <1>17 DEF RecordStatus
      <3>3. payment[p].status \in Live => Provider[p] # "WALLET" /\ payment[p].status \notin {"APPROVED", "NONE"}
        BY <1>0, <3>1 DEF Live, WalletRowsSettled
      <3>4. QED
        BY <1>0, <3>1, <3>2, <3>3 DEF DecidedStay, TypeOK, PaymentRow
    <2>2. OwnersStay
      BY <1>17 DEF RecordStatus, OwnersStay
    <2>3. QED
      BY <1>17, <2>1, <2>2 DEF RecordStatus, Quiet
  <1>18. ASSUME NEW r \in Recorders, RequestDies(r)
        PROVE  Quiet
    BY <1>18 DEF RequestDies, Quiet, OwnersStay, DecidedStay, rows
  <1>19. ASSUME NEW w \in Procs, LoadOrCreatePaymentRow(w)
        PROVE  Quiet
    <2>0. task[w].pc # "idle"
      BY <1>19 DEF LoadOrCreatePaymentRow
    <2>1. DecidedStay
      BY <1>0, <1>19, <2>0, Working
      DEF LoadOrCreatePaymentRow, DecidedStay, TypeOK, PaymentRow, Revivable,
          TasksOpened
    <2>2. OwnersStay
      BY <1>19 DEF LoadOrCreatePaymentRow, OwnersStay
    <2>3. QED
      BY <1>19, <2>1, <2>2 DEF LoadOrCreatePaymentRow, Quiet
  <1>20. ASSUME NEW w \in Procs, ProviderCreates(w)
        PROVE  Quiet
    <2>0. task[w].pc # "idle"
      BY <1>20 DEF ProviderCreates
    <2>1. DecidedStay
      BY <1>0, <1>20, <2>0, Working
      DEF ProviderCreates, DecidedStay, TypeOK, PaymentRow
    <2>2. OwnersStay
      BY <1>20 DEF ProviderCreates, OwnersStay
    <2>3. QED
      BY <1>20, <2>1, <2>2 DEF ProviderCreates, Quiet
  <1>21. ASSUME NEW w \in Procs, ProviderCreateFails(w)
        PROVE  Quiet
    <2>0. task[w].pc # "idle"
      BY <1>21 DEF ProviderCreateFails
    <2>1. DecidedStay
      BY <1>0, <1>21, <2>0, Working
      DEF ProviderCreateFails, DecidedStay, TypeOK, PaymentRow
    <2>2. OwnersStay
      BY <1>21 DEF ProviderCreateFails, OwnersStay
    <2>3. QED
      BY <1>21, <2>1, <2>2 DEF ProviderCreateFails, Quiet
  <1>22. ASSUME NEW w \in Procs, VerifySucceeds(w)
        PROVE  Quiet
    BY <1>22 DEF VerifySucceeds, Quiet, OwnersStay, DecidedStay, rows
  <1>23. ASSUME NEW w \in Procs, FailPayment(w)
        PROVE  Quiet
    <2>0. task[w].pc # "idle"
      BY <1>23 DEF FailPayment
    <2>1. DecidedStay
      BY <1>0, <1>23, <2>0, Working
      DEF FailPayment, DecidedStay, TypeOK, PaymentRow, Live
    <2>2. OwnersStay
      BY <1>23 DEF FailPayment, OwnersStay
    <2>3. QED
      BY <1>23, <2>1, <2>2 DEF FailPayment, Quiet
  <1>23a. ASSUME NEW w \in Procs, VerifyFails(w)
        PROVE  Quiet
    BY <1>23a DEF VerifyFails, Quiet, OwnersStay, DecidedStay, rows
  <1>24. ASSUME NEW w \in Procs, VerifyUncertain(w)
        PROVE  Quiet
    BY <1>24 DEF VerifyUncertain, Quiet, OwnersStay, DecidedStay, rows
  <1>25. ASSUME NEW w \in Procs, BotRecordSuccess(w)
        PROVE  Quiet
    <2>0. task[w].pc # "idle"
      BY <1>25 DEF BotRecordSuccess
    <2>1. DecidedStay
      BY <1>0, <1>25, <2>0, Working
      DEF BotRecordSuccess, DecidedStay, TypeOK, PaymentRow
    <2>2. OwnersStay
      BY <1>25 DEF BotRecordSuccess, OwnersStay
    <2>3. QED
      BY <1>25, <2>1, <2>2 DEF BotRecordSuccess, Quiet
  <1>26. ASSUME NEW w \in Procs, BotMarkProcessing(w)
        PROVE  Quiet
    <2>0. task[w].pc # "idle"
      BY <1>26 DEF BotMarkProcessing
    <2>1. DecidedStay
      BY <1>0, <1>26, <2>0, Working
      DEF BotMarkProcessing, DecidedStay, TypeOK, PaymentRow, Live
    <2>2. OwnersStay
      BY <1>26 DEF BotMarkProcessing, OwnersStay
    <2>3. QED
      BY <1>26, <2>1, <2>2 DEF BotMarkProcessing, Quiet
  <1>27. ASSUME NEW w \in Procs, StarsSettle(w)
        PROVE  Quiet
    BY <1>27 DEF StarsSettle, Quiet, OwnersStay, DecidedStay, rows
  <1>28. ASSUME NEW w \in Procs, SettleCommit(w)
        PROVE  \E q \in Payments : Settles(q)
    <2> DEFINE p == task[w].payment
               c == CheckoutOf[p]
    <2>0. task[w].pc # "idle"
      BY <1>28 DEF SettleCommit
    <2>1. p \in Payments /\ c \in Checkouts /\ Provider[p] # "WALLET" /\ payment[p].status # "APPROVED"
      BY <1>0, <1>28, <2>0, Working DEF SettleCommit, Live
    <2>2. ~Owns(p)
      BY <1>0, <2>1 DEF SettledByOwner
    <2>3. Claimable(c)
      BY <1>28, <2>2 DEF SettleCommit, Owns
    <2>4. ledger[p] = 0 /\ order[c] = NoPayment
      BY <1>0, <2>1, <2>2, <2>3 DEF MoneyFollowsOwner, TypeOK, Claimable
    <2>5. /\ order' = [order EXCEPT ![c] = IF IsTopUp(p) THEN NoPayment ELSE p]
          /\ ledger' = [ledger EXCEPT ![p] = IF IsTopUp(p) \/ Provider[p] = "WALLET" THEN 1 ELSE 0]
      <3>1. CASE IsTopUp(p)
        BY <1>0, <1>28, <2>1, <2>4, <3>1 DEF SettleCommit, TopUp, CreditWallet, TypeOK
      <3>2. CASE ~IsTopUp(p)
        BY <1>0, <1>28, <2>1, <2>4, <3>2 DEF SettleCommit, GatewayOrder, CreateOrder, TypeOK
      <3>3. QED
        BY <3>1, <3>2
    <2>6. Settles(p)
      BY <1>28, <2>1, <2>3, <2>5 DEF SettleCommit, Settles, Claimable
    <2>7. QED
      BY <2>1, <2>6
  <1>29. ASSUME NEW w \in Procs, NotifyCase(w)
        PROVE  Quiet
    BY <1>29 DEF NotifyCase, Quiet, OwnersStay, DecidedStay, rows
  <1>30. ASSUME NEW w \in Procs, SettleAbort(w)
        PROVE  Quiet
    BY <1>30 DEF SettleAbort, Quiet, OwnersStay, DecidedStay, rows
  <1>31. ASSUME NEW w \in Procs, SettleLost(w)
        PROVE  Quiet
    BY <1>31 DEF SettleLost, Quiet, OwnersStay, DecidedStay, rows
  <1>32. ASSUME NEW w \in Procs, RecordDuplicateSuccess(w)
        PROVE  Quiet \/ \E p \in Payments : Files(p)
    <2> DEFINE p == task[w].payment
    <2>0. task[w].pc # "idle"
      BY <1>32 DEF RecordDuplicateSuccess
    <2>1. p \in Payments /\ payment[p] \in PaymentRow /\ ~Owns(p) /\ ~Open(CheckoutOf[p])
          /\ payment[p].status # "NONE"
      BY <1>0, <1>32, <2>0, Working DEF RecordDuplicateSuccess, FilingClosed, TasksOpened
    <2>2. CASE payment[p].settlementStatus = "UNSETTLED"
      <3>1. Files(p)
        BY <1>32, <2>1, <2>2 DEF RecordDuplicateSuccess, Files
      <3>2. QED
        BY <2>1, <3>1
    <2>3. CASE payment[p].settlementStatus # "UNSETTLED"
      <3>1. DecidedStay
        BY <1>0, <1>32, <2>1, <2>3 DEF RecordDuplicateSuccess, DecidedStay, TypeOK, PaymentRow
      <3>2. QED
        BY <1>32, <3>1 DEF RecordDuplicateSuccess, Quiet, OwnersStay
    <2>4. QED
      BY <2>2, <2>3
  <1>33. ASSUME NEW w \in Procs, InsertReceipt(w)
        PROVE  Quiet
    <2>0. task[w].pc # "idle"
      BY <1>33 DEF InsertReceipt
    <2>1. DecidedStay
      BY <1>0, <1>33, <2>0, Working
      DEF InsertReceipt, DecidedStay, TypeOK, PaymentRow, NoRow, SettledByOwner,
          Settled, FiledClosed, TasksOpened
    <2>2. OwnersStay
      BY <1>33 DEF InsertReceipt, OwnersStay
    <2>3. QED
      BY <1>33, <2>1, <2>2 DEF InsertReceipt, Quiet
  <1>34. ASSUME NEW w \in Procs, ApproveCommit(w)
        PROVE  \E q \in Payments : Settles(q)
    <2> DEFINE p == task[w].payment
               c == CheckoutOf[p]
    <2>0. task[w].pc # "idle"
      BY <1>34 DEF ApproveCommit
    <2>1. p \in Payments /\ c \in Checkouts /\ Provider[p] # "WALLET" /\ payment[p].status # "APPROVED"
      BY <1>0, <1>34, <2>0, Working DEF ApproveCommit, Live
    <2>2. ~Owns(p)
      BY <1>0, <2>1 DEF SettledByOwner
    <2>3. Claimable(c)
      BY <1>34, <2>2 DEF ApproveCommit, Owns
    <2>4. ledger[p] = 0 /\ order[c] = NoPayment
      BY <1>0, <2>1, <2>2, <2>3 DEF MoneyFollowsOwner, TypeOK, Claimable
    <2>5. /\ order' = [order EXCEPT ![c] = IF IsTopUp(p) THEN NoPayment ELSE p]
          /\ ledger' = [ledger EXCEPT ![p] = IF IsTopUp(p) \/ Provider[p] = "WALLET" THEN 1 ELSE 0]
      <3>1. CASE IsTopUp(p)
        BY <1>0, <1>34, <2>1, <2>4, <3>1 DEF ApproveCommit, TopUp, CreditWallet, TypeOK
      <3>2. CASE ~IsTopUp(p)
        BY <1>0, <1>34, <2>1, <2>4, <3>2 DEF ApproveCommit, CreateOrder, TypeOK
      <3>3. QED
        BY <3>1, <3>2
    <2>6. Settles(p)
      BY <1>34, <2>1, <2>3, <2>5 DEF ApproveCommit, Settles, Claimable
    <2>7. QED
      BY <2>1, <2>6
  <1>35. ASSUME NEW w \in Procs, ApproveAbort(w)
        PROVE  Quiet
    BY <1>35 DEF ApproveAbort, Quiet, OwnersStay, DecidedStay, rows
  <1>36. ASSUME NEW w \in Procs, RejectCommit(w)
        PROVE  Quiet
    <2>0. task[w].pc # "idle"
      BY <1>36 DEF RejectCommit
    <2>1. DecidedStay
      <3> DEFINE p == task[w].payment
      <3>1. \/ payment' = payment
            \/ /\ payment[p].status = "PENDING_REVIEW"
               /\ payment' = [payment EXCEPT ![p].status = "REJECTED"]
        BY <1>36 DEF RejectCommit
      <3>2. CASE payment' = payment
        BY <3>2 DEF DecidedStay
      <3>3. CASE /\ payment[p].status = "PENDING_REVIEW"
                 /\ payment' = [payment EXCEPT ![p].status = "REJECTED"]
        BY <1>0, <2>0, <3>3, Working DEF DecidedStay, TypeOK, PaymentRow
      <3>4. QED
        BY <3>1, <3>2, <3>3
    <2>2. OwnersStay
      <3> DEFINE c == CheckoutOf[task[w].payment]
                 s == IF task[w].seen = "PENDING" /\ task[w].late THEN "EXPIRED"
                      ELSE checkout[c].status
      <3>1. checkout' = checkout \/ checkout' = [checkout EXCEPT ![c].status = s]
        BY <1>36 DEF RejectCommit
      <3>2. CASE checkout' = checkout
        BY <3>2 DEF OwnersStay
      <3>3. CASE checkout' = [checkout EXCEPT ![c].status = s]
        BY <1>0, <2>0, <3>3, Working DEF OwnersStay, TypeOK, CheckoutRow
      <3>4. QED
        BY <3>1, <3>2, <3>3
    <2>3. QED
      BY <1>36, <2>1, <2>2 DEF RejectCommit, Quiet
  <1>37. CASE SweepSelect
    BY <1>37 DEF SweepSelect, Quiet, OwnersStay, DecidedStay, rows
  <1>38. ASSUME NEW p \in Payments, SweepNext(p)
        PROVE  Quiet
    BY <1>38 DEF SweepNext, Quiet, OwnersStay, DecidedStay, rows
  <1>39. CASE SweepExpire
    <2>1. DecidedStay
      BY <1>0, <1>39
      DEF SweepExpire, DecidedStay, TypeOK, PaymentRow, Online, WalletRowsSettled
    <2>2. OwnersStay
      BY <1>39 DEF SweepExpire, OwnersStay
    <2>3. QED
      BY <1>39, <2>1, <2>2 DEF SweepExpire, Quiet
  <1>40. ASSUME NEW p \in Payments, SweepNotify(p)
        PROVE  Quiet
    BY <1>40 DEF SweepNotify, Quiet, OwnersStay, DecidedStay, rows
  <1>41. CASE BotCrash
    BY <1>41 DEF BotCrash, Quiet, OwnersStay, DecidedStay, rows
  <1>42. CASE UNCHANGED vars
    BY <1>42 DEF vars, rows, Quiet, OwnersStay, DecidedStay
  <1>43. QED
    BY <1>1, <1>2, <1>3, <1>4, <1>5, <1>6, <1>7, <1>8, <1>9, <1>10, <1>11, <1>12,
        <1>13, <1>14, <1>15, <1>16, <1>17, <1>18, <1>19, <1>20, <1>21, <1>22,
        <1>23, <1>23a, <1>24, <1>25, <1>26, <1>27, <1>28, <1>29, <1>30, <1>31, <1>32,
        <1>33, <1>34, <1>35, <1>36, <1>37, <1>38, <1>39, <1>40, <1>41, <1>42
    DEF Next, BotStep, SweepStep

-----------------------------------------------------------------------------
(* Rows are never deleted and closed checkouts never open again.           *)
RowsStay ==
    /\ \A c \in Checkouts :
           /\ checkout[c].status # "NONE" => checkout'[c].status # "NONE"
           /\ ~Open(c) => ~Open(c)' /\ checkout'[c].owner = checkout[c].owner
    /\ \A p \in Payments : payment[p].status # "NONE" => payment'[p].status # "NONE"

(* Every step keeps what RowsStay says.                                    *)
LEMMA RowsKept ==
    ASSUME IInv, [Next]_vars
    PROVE  RowsStay
  <1> USE ConstantsAssumption
  <1>0. TypeOK
    BY DEF IInv, Inv
  <1>1. CASE Quiet
    BY <1>1 DEF Quiet, OwnersStay, DecidedStay, RowsStay, Open
  <1>2. ASSUME NEW p \in Payments, Settles(p) PROVE RowsStay
    <2>1. payment'[p].status # "NONE" /\ \A q \in Payments \ {p} : payment'[q] = payment[q]
      BY <1>0, <1>2 DEF Settles, TypeOK, Approved, PaymentRow
    <2>2. ASSUME NEW c \in Checkouts
          PROVE  /\ checkout[c].status # "NONE" => checkout'[c].status # "NONE"
                 /\ ~Open(c) => ~Open(c)' /\ checkout'[c].owner = checkout[c].owner
      <3>1. CASE c # CheckoutOf[p]
        BY <1>0, <1>2, <3>1 DEF Settles, TypeOK, Open
      <3>2. CASE c = CheckoutOf[p]
        BY <1>0, <1>2, <3>2 DEF Settles, TypeOK, Open
      <3>3. QED
        BY <3>1, <3>2
    <2>3. QED
      BY <2>1, <2>2 DEF RowsStay
  <1>3. ASSUME NEW p \in Payments, Files(p) PROVE RowsStay
    <2>1. \A q \in Payments : payment'[q].status = payment[q].status
      BY <1>0, <1>3 DEF Files, TypeOK, PaymentRow
    <2>2. QED
      BY <1>3, <2>1 DEF Files, RowsStay, Open
  <1>4. QED
    BY <1>1, <1>2, <1>3, DecidingSteps

(* A handler moves on with the row it has, or starts on one that exists.   *)
LEMMA OpenedMoves ==
    ASSUME TypeOK, TasksOpened, FilingClosed, RowsStay, NEW w \in Procs
    PROVE  /\ UNCHANGED task => TasksOpened' /\ FilingClosed'
           /\ Finish(w) => TasksOpened' /\ FilingClosed'
           /\ \A s \in TaskSteps \ {"duplicate"} :
                  task[w].pc # "idle" /\ payment'[task[w].payment].status # "NONE" /\ Step(w, s)
                      => TasksOpened' /\ FilingClosed'
           /\ \A t \in TaskRecord :
                  /\ Goto(w, t) /\ t.payment \in Payments /\ t.pc # "duplicate"
                  /\ checkout[CheckoutOf[t.payment]].status # "NONE"
                  /\ t.pc \in {"open", "receipt"} \/ payment[t.payment].status # "NONE"
                  => TasksOpened' /\ FilingClosed'
  <1> USE ConstantsAssumption
  <1>1. ASSUME NEW v \in Procs, task[v].pc # "idle"
        PROVE  /\ checkout'[CheckoutOf[task[v].payment]].status # "NONE"
               /\ task[v].pc \notin {"open", "receipt"} => payment'[task[v].payment].status # "NONE"
               /\ task[v].pc = "duplicate" =>
                      /\ checkout'[CheckoutOf[task[v].payment]].status \notin {"NONE", "PENDING"}
                      /\ checkout'[CheckoutOf[task[v].payment]].owner # task[v].payment
    BY <1>1, Working DEF TasksOpened, FilingClosed, RowsStay, Owns, Open
  <1>2. CASE UNCHANGED task
    BY <1>1, <1>2 DEF TasksOpened, FilingClosed, Owns, Open
  <1>3. ASSUME NEW t \in TaskRecord, Goto(w, t), t.pc # "duplicate",
               t.pc # "idle" => /\ t.payment \in Payments
                                /\ checkout'[CheckoutOf[t.payment]].status # "NONE"
                                /\ t.pc \in {"open", "receipt"} \/ payment'[t.payment].status # "NONE"
        PROVE  TasksOpened' /\ FilingClosed'
    <2>1. task'[w] = t /\ \A v \in Procs \ {w} : task'[v] = task[v]
      BY <1>3 DEF Goto, TypeOK
    <2>2. QED
      BY <1>1, <1>3, <2>1 DEF TasksOpened, FilingClosed, Owns, Open
  <1>4. CASE Finish(w)
    BY <1>3, <1>4, TaskShapes DEF Finish, IdleTask
  <1>5. ASSUME NEW s \in TaskSteps \ {"duplicate"}, task[w].pc # "idle",
               payment'[task[w].payment].status # "NONE", Step(w, s)
        PROVE  TasksOpened' /\ FilingClosed'
    <2>1. task' = [task EXCEPT ![w] = [task[w] EXCEPT !.pc = s]]
      BY <1>5 DEF Step, TypeOK
    <2>2. /\ [task[w] EXCEPT !.pc = s] \in TaskRecord
          /\ [task[w] EXCEPT !.pc = s].pc = s
          /\ [task[w] EXCEPT !.pc = s].payment = task[w].payment
      <3>1. \A r \in TaskRecord : [r EXCEPT !.pc = s].pc = s /\ [r EXCEPT !.pc = s].payment = r.payment
        BY DEF TaskRecord
      <3>2. QED
        BY <1>5, <3>1, Working, TaskShapes
    <2>3. /\ task[w].payment \in Payments /\ payment'[task[w].payment].status # "NONE"
          /\ checkout'[CheckoutOf[task[w].payment]].status # "NONE"
      BY <1>1, <1>5, Working
    <2> DEFINE t == [task[w] EXCEPT !.pc = s]
    <2>4. Goto(w, t)
      BY <2>1 DEF Goto
    <2>5. t \in TaskRecord /\ t.pc # "duplicate" /\ t.payment = task[w].payment
      BY <1>5, <2>2
    <2> HIDE DEF t
    <2>6. QED
      BY <1>3, <2>3, <2>4, <2>5
  <1>6. ASSUME NEW t \in TaskRecord, Goto(w, t), t.payment \in Payments, t.pc # "duplicate",
               checkout[CheckoutOf[t.payment]].status # "NONE",
               t.pc \in {"open", "receipt"} \/ payment[t.payment].status # "NONE"
        PROVE  TasksOpened' /\ FilingClosed'
    BY <1>3, <1>6 DEF RowsStay
  <1>7. QED
    BY <1>2, <1>4, <1>5, <1>6

(* A handler that starts on an inserted row, or reads it to settle it.     *)
LEMMA StartOpened ==
    ASSUME TypeOK, WalletRowsSettled, TasksOpened, FilingClosed, RowsOpened, RowsStay,
           NEW w \in Procs, NEW p \in Payments, payment[p].status # "NONE"
    PROVE  /\ \A s \in TaskSteps \ {"duplicate"} :
                  Provider[p] # "WALLET" /\ Start(w, s, p) => TasksOpened' /\ FilingClosed'
           /\ SettleRead(w, p) => TasksOpened' /\ FilingClosed'
           /\ Provider[p] # "WALLET" /\ StartRecording(w, p) => TasksOpened' /\ FilingClosed'
  <1> USE ConstantsAssumption
  <1>1. ASSUME NEW s \in TaskSteps \ {"duplicate"}, Provider[p] # "WALLET", Start(w, s, p)
        PROVE  TasksOpened' /\ FilingClosed'
    <2> DEFINE t == [IdleTask EXCEPT !.pc = s, !.payment = p]
    <2>1. t \in TaskRecord /\ t.pc = s /\ t.payment = p
      BY <1>1, TaskShapes DEF IdleTask
    <2>2. QED
      BY <1>1, <2>1, OpenedMoves DEF Start, RowsOpened
  <1>2. CASE SettleRead(w, p)
    <2>1. CASE Ready(p) /\ Start(w, "settle", p)
      BY <1>1, <2>1 DEF Ready, Unsettled, Live, WalletRowsSettled, TaskSteps
    <2>2. CASE Verifiable(p) /\ Goto(w, [IdleTask EXCEPT !.pc = "verify", !.payment = p,
                                                         !.attempt = payment[p].authority])
      <3> DEFINE t == [IdleTask EXCEPT !.pc = "verify", !.payment = p,
                                       !.attempt = payment[p].authority]
      <3>1. payment[p].authority \in 0 .. MaxAttempts /\ Provider[p] # "WALLET"
        BY <2>2 DEF TypeOK, PaymentRow, Verifiable
      <3>2. t \in TaskRecord /\ t.pc = "verify" /\ t.payment = p
        BY <3>1, TaskShapes DEF IdleTask, TaskSteps
      <3>3. QED
        BY <2>2, <3>2, OpenedMoves DEF RowsOpened
    <2>3. CASE Finish(w)
      BY <2>3, OpenedMoves
    <2>4. QED
      BY <1>2, <2>1, <2>2, <2>3 DEF SettleRead
  <1>3. CASE Provider[p] # "WALLET" /\ StartRecording(w, p)
    <2> DEFINE t == [IdleTask EXCEPT !.pc = "record", !.payment = p, !.late = Expired(CheckoutOf[p])]
    <2>1. Expired(CheckoutOf[p]) \in BOOLEAN /\ "record" \in TaskSteps
      BY DEF Expired, TaskSteps
    <2>2. t \in TaskRecord /\ t.pc = "record" /\ t.payment = p
      BY <1>3, <2>1, TaskShapes DEF IdleTask
    <2>3. QED
      BY <1>3, <2>2, OpenedMoves DEF StartRecording, RowsOpened
  <1>4. QED
    BY <1>1, <1>2, <1>3

(* Every step keeps handlers on inserted rows and filings on closed        *)
(* checkouts.                                                              *)
LEMMA TasksStep ==
    ASSUME IInv, TypeOK', [Next]_vars
    PROVE  TasksOpened' /\ FilingClosed'
  <1> USE ConstantsAssumption
  <1>0. /\ TypeOK /\ WalletRowsSettled /\ OwnedIsClosed
        /\ RowsOpened /\ TasksOpened /\ FilingClosed /\ RowsStay
    BY RowsKept DEF IInv, Inv
  <1>1. ASSUME NEW w \in Workers, NEW p \in Payments, OpenPayment(w, p)
        PROVE  TasksOpened' /\ FilingClosed'
    <2> DEFINE t == [IdleTask EXCEPT !.pc = "open", !.payment = p]
    <2>1. w \in Procs /\ Provider[p] # "WALLET" /\ checkout[CheckoutOf[p]].status # "NONE"
      BY <1>1 DEF OpenPayment, Payable, Online, Procs
    <2>2. t \in TaskRecord /\ t.pc = "open" /\ t.payment = p
      BY <2>1, TaskShapes DEF IdleTask, TaskSteps
    <2>3. QED
      BY <1>0, <1>1, <2>1, <2>2, OpenedMoves DEF OpenPayment, Start
  <1>2. ASSUME NEW w \in Workers, NEW p \in Payments, CheckPayment(w, p)
        PROVE  TasksOpened' /\ FilingClosed'
    <2>1. w \in Procs /\ SettleRead(w, p)
      BY <1>2 DEF CheckPayment, Procs
    <2>2. CASE payment[p].status # "NONE"
      BY <1>0, <2>1, <2>2, StartOpened
    <2>3. CASE payment[p].status = "NONE"
      <3>1. Finish(w)
        BY <2>1, <2>3 DEF SettleRead, Ready, Verifiable, Unsettled, Live
      <3>2. QED
        BY <1>0, <2>1, <3>1, OpenedMoves
    <2>4. QED
      BY <2>2, <2>3
  <1>3. ASSUME NEW w \in Workers, NEW p \in Payments, StarsPaid(w, p)
        PROVE  TasksOpened' /\ FilingClosed'
    <2>1. w \in Procs /\ Provider[p] # "WALLET" /\ payment[p].status # "NONE"
      BY <1>0, <1>3 DEF StarsPaid, Procs, RowsOpened
    <2>2. QED
      BY <1>0, <1>3, <2>1, StartOpened DEF StarsPaid
  <1>4. ASSUME NEW w \in Workers, NEW p \in Payments, SubmitReceipt(w, p)
        PROVE  TasksOpened' /\ FilingClosed'
    <2> DEFINE t == [IdleTask EXCEPT !.pc = "receipt", !.payment = p]
    <2>1. w \in Procs /\ Provider[p] # "WALLET" /\ checkout[CheckoutOf[p]].status # "NONE"
      BY <1>4 DEF SubmitReceipt, Payable, Online, Procs
    <2>2. t \in TaskRecord /\ t.pc = "receipt" /\ t.payment = p
      BY <2>1, TaskShapes DEF IdleTask, TaskSteps
    <2>3. QED
      BY <1>0, <1>4, <2>1, <2>2, OpenedMoves DEF SubmitReceipt, Start
  <1>5. ASSUME NEW w \in Workers, NEW p \in Payments, ApproveRead(w, p)
        PROVE  TasksOpened' /\ FilingClosed'
    <2>1. w \in Procs /\ Provider[p] # "WALLET" /\ payment[p].status # "NONE"
      BY <1>0, <1>5 DEF ApproveRead, Procs, WalletRowsSettled
    <2>2. QED
      BY <1>0, <1>5, <2>1, StartOpened DEF ApproveRead, TaskSteps
  <1>6. ASSUME NEW w \in Workers, NEW p \in Payments, RejectRead(w, p)
        PROVE  TasksOpened' /\ FilingClosed'
    <2> DEFINE c == CheckoutOf[p]
               t == [IdleTask EXCEPT !.pc = "reject", !.payment = p, !.seen = checkout[c].status,
                                     !.late = Expired(c)]
    <2>1. /\ w \in Procs /\ Provider[p] # "WALLET" /\ payment[p].status # "NONE"
          /\ checkout[c].status \in CheckoutStatuses
      BY <1>0, <1>6 DEF RejectRead, Procs, WalletRowsSettled, TypeOK, CheckoutRow
    <2>2. t \in TaskRecord /\ t.pc = "reject" /\ t.payment = p
      <3>1. Expired(c) \in BOOLEAN /\ "reject" \in TaskSteps
        BY DEF Expired, TaskSteps
      <3>2. QED
        BY <2>1, <3>1, TaskShapes DEF IdleTask
    <2>3. QED
      BY <1>0, <1>6, <2>1, <2>2, OpenedMoves DEF RejectRead, RowsOpened
  <1>7. ASSUME NEW w \in Procs, LoadOrCreatePaymentRow(w)
        PROVE  TasksOpened' /\ FilingClosed'
    <2> DEFINE p == task[w].payment
    <2>1. task[w].pc # "idle"
      BY <1>7 DEF LoadOrCreatePaymentRow
    <2>2. Finish(w) \/ (Step(w, "create") /\ payment'[p].status # "NONE")
      BY <1>0, <1>7, <2>1, Working DEF LoadOrCreatePaymentRow, TypeOK, PaymentRow
    <2>3. QED
      BY <1>0, <2>1, <2>2, OpenedMoves DEF TaskSteps
  <1>8. ASSUME NEW w \in Procs, ProviderCreates(w)
        PROVE  TasksOpened' /\ FilingClosed'
    BY <1>0, <1>8, OpenedMoves DEF ProviderCreates
  <1>9. ASSUME NEW w \in Procs, ProviderCreateFails(w)
        PROVE  TasksOpened' /\ FilingClosed'
    BY <1>0, <1>9, OpenedMoves DEF ProviderCreateFails
  <1>10. ASSUME NEW w \in Procs, VerifySucceeds(w)
        PROVE  TasksOpened' /\ FilingClosed'
    <2> DEFINE p == task[w].payment
    <2>1. p \in Payments /\ Provider[p] # "WALLET" /\ payment[p].status # "NONE"
      BY <1>0, <1>10, Working DEF VerifySucceeds, TasksOpened
    <2>2. QED
      BY <1>0, <1>10, <2>1, StartOpened DEF VerifySucceeds
  <1>11. ASSUME NEW w \in Procs, FailPayment(w)
        PROVE  TasksOpened' /\ FilingClosed'
    BY <1>0, <1>11, OpenedMoves DEF FailPayment
  <1>11a. ASSUME NEW w \in Procs, VerifyFails(w)
        PROVE  TasksOpened' /\ FilingClosed'
    <2> DEFINE p == task[w].payment
    <2>1. payment'[p].status # "NONE"
      BY <1>0, <1>11a, Working DEF VerifyFails, TasksOpened, RowsStay
    <2>2. QED
      BY <1>0, <1>11a, <2>1, OpenedMoves DEF VerifyFails, TaskSteps
  <1>12. ASSUME NEW w \in Procs, VerifyUncertain(w)
        PROVE  TasksOpened' /\ FilingClosed'
    BY <1>0, <1>12, OpenedMoves DEF VerifyUncertain
  <1>13. ASSUME NEW w \in Procs, BotRecordSuccess(w)
        PROVE  TasksOpened' /\ FilingClosed'
    <2>1. task[w].pc # "idle" /\ payment'[task[w].payment].status # "NONE"
      BY <1>0, <1>13, Working DEF BotRecordSuccess, TasksOpened, RowsStay
    <2>2. QED
      BY <1>0, <1>13, <2>1, OpenedMoves DEF BotRecordSuccess, AfterRecording, TaskSteps
  <1>14. ASSUME NEW w \in Procs, BotMarkProcessing(w)
        PROVE  TasksOpened' /\ FilingClosed'
    <2>1. task[w].pc # "idle" /\ payment'[task[w].payment].status # "NONE"
      BY <1>0, <1>14, Working DEF BotMarkProcessing, TasksOpened, RowsStay
    <2>2. QED
      BY <1>0, <1>14, <2>1, OpenedMoves DEF BotMarkProcessing, AfterRecording, TaskSteps
  <1>15. ASSUME NEW w \in Procs, StarsSettle(w)
        PROVE  TasksOpened' /\ FilingClosed'
    <2> DEFINE p == task[w].payment
    <2>1. p \in Payments /\ Provider[p] # "WALLET" /\ payment[p].status # "NONE"
      BY <1>0, <1>15, Working DEF StarsSettle, TasksOpened
    <2>2. QED
      BY <1>0, <1>15, <2>1, StartOpened DEF StarsSettle
  <1>16. ASSUME NEW w \in Procs, SettleCommit(w)
        PROVE  TasksOpened' /\ FilingClosed'
    <2>1. task[w].pc # "idle" /\ payment'[task[w].payment].status # "NONE"
      BY <1>0, <1>16, Working DEF SettleCommit, TasksOpened, RowsStay
    <2>2. Finish(w) \/ Step(w, "notify")
      BY <1>16 DEF SettleCommit
    <2>3. QED
      BY <1>0, <2>1, <2>2, OpenedMoves DEF TaskSteps
  <1>17. ASSUME NEW w \in Procs, NotifyCase(w)
        PROVE  TasksOpened' /\ FilingClosed'
    BY <1>0, <1>17, OpenedMoves DEF NotifyCase
  <1>18. ASSUME NEW w \in Procs, SettleAbort(w)
        PROVE  TasksOpened' /\ FilingClosed'
    BY <1>0, <1>18, OpenedMoves DEF SettleAbort
  <1>19. ASSUME NEW w \in Procs, SettleLost(w)
        PROVE  TasksOpened' /\ FilingClosed'
    <2> DEFINE p == task[w].payment
               c == CheckoutOf[p]
    <2>1. task[w].pc # "idle" /\ p \in Payments /\ c \in Checkouts
      BY <1>0, <1>19, Working DEF SettleLost
    <2>2. ~Open(c) /\ ~Owns(p)
      BY <1>0, <1>19, <2>1 DEF SettleLost, Loses, Claimable, Open, Owns, OwnedIsClosed, TasksOpened
    <2>3. UNCHANGED <<checkout, payment>>
      BY <1>19 DEF SettleLost, rows
    <2>4. /\ task'[w].payment = p /\ task'[w].pc = "duplicate"
          /\ \A v \in Procs \ {w} : task'[v] = task[v]
      BY <1>0, <1>19, <2>1, Working DEF SettleLost, TypeOK, TaskRecord
    <2>5. checkout[c].status # "NONE" /\ payment[p].status # "NONE"
      BY <1>0, <1>19, <2>1 DEF SettleLost, TasksOpened
    <2>6. TasksOpened'
      BY <1>0, <2>3, <2>4, <2>5 DEF TasksOpened
    <2>7. FilingClosed'
      BY <1>0, <2>2, <2>3, <2>4 DEF FilingClosed, Owns, Open
    <2>8. QED
      BY <2>6, <2>7
  <1>20. ASSUME NEW w \in Procs, RecordDuplicateSuccess(w)
        PROVE  TasksOpened' /\ FilingClosed'
    BY <1>0, <1>20, OpenedMoves DEF RecordDuplicateSuccess
  <1>21. ASSUME NEW w \in Procs, InsertReceipt(w)
        PROVE  TasksOpened' /\ FilingClosed'
    BY <1>0, <1>21, OpenedMoves DEF InsertReceipt
  <1>22. ASSUME NEW w \in Procs, ApproveCommit(w)
        PROVE  TasksOpened' /\ FilingClosed'
    BY <1>0, <1>22, OpenedMoves DEF ApproveCommit
  <1>23. ASSUME NEW w \in Procs, ApproveAbort(w)
        PROVE  TasksOpened' /\ FilingClosed'
    BY <1>0, <1>23, OpenedMoves DEF ApproveAbort
  <1>24. ASSUME NEW w \in Procs, RejectCommit(w)
        PROVE  TasksOpened' /\ FilingClosed'
    BY <1>0, <1>24, OpenedMoves DEF RejectCommit
  <1>25. ASSUME NEW p \in Payments, SweepNext(p)
        PROVE  TasksOpened' /\ FilingClosed'
    <2>1. Sweep \in Procs /\ SettleRead(Sweep, p)
      BY <1>25 DEF SweepNext, Procs
    <2>2. CASE payment[p].status # "NONE"
      BY <1>0, <2>1, <2>2, StartOpened
    <2>3. CASE payment[p].status = "NONE"
      <3>1. Finish(Sweep)
        BY <2>1, <2>3 DEF SettleRead, Ready, Verifiable, Unsettled, Live
      <3>2. QED
        BY <1>0, <2>1, <3>1, OpenedMoves
    <2>4. QED
      BY <2>2, <2>3
  <1>26. CASE BotCrash
    BY <1>26 DEF BotCrash, TasksOpened, FilingClosed, IdleTask
  <1>27. CASE UNCHANGED task
    <2>1. Sweep \in Procs
      BY DEF Procs
    <2>2. QED
      BY <1>0, <1>27, <2>1, OpenedMoves
  <1>28. ASSUME NEW c \in Checkouts, CreateCheckout(c)
        PROVE  UNCHANGED task
    BY <1>28 DEF CreateCheckout
  <1>29. ASSUME NEW c \in Checkouts, MaterializeCheckout(c)
        PROVE  UNCHANGED task
    BY <1>29 DEF MaterializeCheckout
  <1>30. ASSUME NEW c \in Checkouts, Tick(c)
        PROVE  UNCHANGED task
    BY <1>30 DEF Tick
  <1>31. ASSUME NEW c \in Checkouts, SubmitCustomerInfo(c)
        PROVE  UNCHANGED task
    BY <1>31 DEF SubmitCustomerInfo
  <1>32. ASSUME NEW c \in Checkouts, ExpireReservation(c)
        PROVE  UNCHANGED task
    BY <1>32 DEF ExpireReservation
  <1>33. ASSUME NEW p \in Payments, SettleWalletOrder(p)
        PROVE  UNCHANGED task
    BY <1>33 DEF SettleWalletOrder
  <1>34. ASSUME NEW p \in Payments, NEW k \in 1 .. MaxAttempts, Collect(p, k)
        PROVE  UNCHANGED task
    BY <1>34 DEF Collect
  <1>35. ASSUME NEW r \in Recorders, NEW p \in Payments, NEW k \in 1 ..
      MaxAttempts, NEW e \in Reports, Callback(r, p, k, e)
        PROVE  UNCHANGED task
    BY <1>35 DEF Callback
  <1>36. ASSUME NEW r \in Recorders, RecordRead(r)
        PROVE  UNCHANGED task
    BY <1>36 DEF RecordRead
  <1>37. ASSUME NEW r \in Recorders, RecordWrite(r)
        PROVE  UNCHANGED task
    BY <1>37 DEF RecordWrite
  <1>38. ASSUME NEW r \in Recorders, RecordStatus(r)
        PROVE  UNCHANGED task
    BY <1>38 DEF RecordStatus
  <1>39. ASSUME NEW r \in Recorders, RequestDies(r)
        PROVE  UNCHANGED task
    BY <1>39 DEF RequestDies
  <1>40. ASSUME SweepSelect PROVE UNCHANGED task
    BY <1>40 DEF SweepSelect
  <1>41. ASSUME SweepExpire PROVE UNCHANGED task
    BY <1>41 DEF SweepExpire
  <1>42. ASSUME NEW p \in Payments, SweepNotify(p)
        PROVE  UNCHANGED task
    BY <1>42 DEF SweepNotify
  <1>43. CASE UNCHANGED vars
    BY <1>43, <1>27 DEF vars
  <1>44. QED
    BY <1>1, <1>2, <1>3, <1>4, <1>5, <1>6, <1>7, <1>8, <1>9, <1>10, <1>11, <1>11a, <1>12,
        <1>13, <1>14, <1>15, <1>16, <1>17, <1>18, <1>19, <1>20, <1>21, <1>22,
        <1>23, <1>24, <1>25, <1>26, <1>27, <1>28, <1>29, <1>30, <1>31, <1>32,
        <1>33, <1>34, <1>35, <1>36, <1>37, <1>38, <1>39, <1>40, <1>41, <1>42,
        <1>43
    DEF Next, BotStep, SweepStep

(* Only providers issue invoices and only buyers pay them.                 *)
LEMMA InvoiceSteps ==
    ASSUME [Next]_vars
    PROVE  \/ UNCHANGED <<issued, collected>>
           \/ \E w \in Procs : ProviderCreates(w)
           \/ \E p \in Payments, k \in 1 .. MaxAttempts : Collect(p, k)
  <1> DEFINE Still == UNCHANGED <<issued, collected>>
  <1>1. ASSUME NEW c \in Checkouts,
               CreateCheckout(c) \/ MaterializeCheckout(c) \/ Tick(c)
               \/ SubmitCustomerInfo(c) \/ ExpireReservation(c)
        PROVE  Still
    BY <1>1 DEF CreateCheckout, MaterializeCheckout, Tick, SubmitCustomerInfo
           , ExpireReservation, external
  <1>2. ASSUME NEW w \in Workers, NEW p \in Payments,
               OpenPayment(w, p) \/ CheckPayment(w, p) \/ StarsPaid(w, p)
               \/ SubmitReceipt(w, p) \/ ApproveRead(w, p) \/ RejectRead(w, p)
        PROVE  Still
    BY <1>2 DEF OpenPayment, CheckPayment, StarsPaid, SubmitReceipt, ApproveRead, RejectRead
           , external
  <1>3. ASSUME NEW p \in Payments,
               SettleWalletOrder(p)
        PROVE  Still
    BY <1>3 DEF SettleWalletOrder, external
  <1>4. ASSUME NEW r \in Recorders, NEW p \in Payments, NEW k \in 1 .. MaxAttempts, NEW e \in Reports,
               Callback(r, p, k, e)
        PROVE  Still
    BY <1>4 DEF Callback, external
  <1>5. ASSUME NEW r \in Recorders,
               RecordRead(r) \/ RecordWrite(r) \/ RecordStatus(r) \/ RequestDies(r)
        PROVE  Still
    BY <1>5 DEF RecordRead, RecordWrite, RecordStatus, RequestDies, external
  <1>6. ASSUME NEW w \in Procs,
               LoadOrCreatePaymentRow(w) \/ ProviderCreateFails(w) \/ VerifySucceeds(w)
               \/ VerifyFails(w) \/ FailPayment(w) \/ VerifyUncertain(w) \/ BotRecordSuccess(w)
               \/ BotMarkProcessing(w) \/ StarsSettle(w)
        PROVE  Still
    BY <1>6 DEF LoadOrCreatePaymentRow, ProviderCreateFails, VerifySucceeds, VerifyFails, FailPayment
           , VerifyUncertain, BotRecordSuccess, BotMarkProcessing, StarsSettle, external
  <1>7. ASSUME NEW w \in Procs,
               SettleCommit(w) \/ NotifyCase(w) \/ SettleAbort(w) \/ SettleLost(w)
               \/ RecordDuplicateSuccess(w) \/ InsertReceipt(w) \/ ApproveCommit(w)
               \/ ApproveAbort(w) \/ RejectCommit(w)
        PROVE  Still
    BY <1>7 DEF SettleCommit, NotifyCase, SettleAbort, SettleLost, RecordDuplicateSuccess
           , InsertReceipt, ApproveCommit, ApproveAbort, RejectCommit, external
  <1>8. SweepStep \/ BotCrash \/ UNCHANGED vars => Still
    BY DEF SweepStep, SweepSelect, SweepExpire, SweepNext, SweepNotify, BotCrash, vars
           , external
  <1> HIDE DEF Still
  <1>9. Still
        \/ (\E w \in Procs : ProviderCreates(w))
        \/ (\E p \in Payments, k \in 1 .. MaxAttempts : Collect(p, k))
    BY <1>1, <1>2, <1>3, <1>4, <1>5, <1>6, <1>7, <1>8 DEF Next, BotStep
  <1> QED BY <1>9 DEF Still

(* Invoices are issued for rows and paid when issued.                      *)
LEMMA IssuedStep ==
    ASSUME IInv, [Next]_vars, NEW p \in Payments, issued'[p] # 0 \/ collected'[p] # {}
    PROVE  payment[p].status # "NONE"
  <1> USE ConstantsAssumption
  <1>0. TypeOK /\ RowsOpened /\ TasksOpened
    BY DEF IInv, Inv
  <1>1. CASE UNCHANGED <<issued, collected>>
    BY <1>0, <1>1 DEF RowsOpened
  <1>2. ASSUME NEW w \in Procs, ProviderCreates(w) PROVE payment[p].status # "NONE"
    BY <1>0, <1>2, Working DEF ProviderCreates, RowsOpened, TasksOpened, TypeOK
  <1>3. ASSUME NEW q \in Payments, NEW k \in 1 .. MaxAttempts, Collect(q, k)
        PROVE  payment[p].status # "NONE"
    BY <1>0, <1>3 DEF Collect, RowsOpened, TypeOK
  <1>4. QED
    BY <1>1, <1>2, <1>3, InvoiceSteps

-----------------------------------------------------------------------------
(* The invariant is inductive.                                             *)

(* A step that decides nothing keeps the invariant.                        *)
LEMMA QuietKeeps ==
    ASSUME IInv, Quiet
    PROVE  /\ WalletRowsSettled' /\ OwnedIsClosed' /\ FiledClosed'
           /\ SettledByOwner' /\ MoneyFollowsOwner'
           /\ \A p \in Payments :
                  payment'[p].status # "NONE" => checkout'[CheckoutOf[p]].status # "NONE"
  <1> USE ConstantsAssumption
  <1>1. WalletRowsSettled'
    BY DEF IInv, Inv, Quiet, DecidedStay, WalletRowsSettled
  <1>2. OwnedIsClosed'
    BY DEF IInv, Inv, Quiet, OwnersStay, OwnedIsClosed
  <1>3. \A p \in Payments : Owns(p)' <=> Owns(p)
    BY DEF Quiet, OwnersStay, Owns
  <1>4. SettledByOwner'
    BY <1>3 DEF IInv, Quiet, DecidedStay, SettledByOwner, Settled
  <1>5. MoneyFollowsOwner'
    BY <1>3 DEF IInv, Quiet, OwnersStay, MoneyFollowsOwner, IsTopUp
  <1>6. FiledClosed'
    BY DEF IInv, Inv, Quiet, OwnersStay, DecidedStay, FiledClosed, Open
  <1>7. ASSUME NEW p \in Payments, payment'[p].status # "NONE"
        PROVE  checkout'[CheckoutOf[p]].status # "NONE"
    BY <1>7 DEF IInv, Inv, Quiet, OwnersStay, DecidedStay, RowsOpened
  <1>8. QED
    BY <1>1, <1>2, <1>4, <1>5, <1>6, <1>7

(* A settlement keeps the invariant: it claims a checkout nobody owns.     *)
LEMMA SettlesKeeps ==
    ASSUME IInv, NEW p \in Payments, Settles(p)
    PROVE  /\ WalletRowsSettled' /\ OwnedIsClosed' /\ FiledClosed'
           /\ SettledByOwner' /\ MoneyFollowsOwner'
           /\ \A q \in Payments :
                  payment'[q].status # "NONE" => checkout'[CheckoutOf[q]].status # "NONE"
  <1> USE ConstantsAssumption
  <1> DEFINE c == CheckoutOf[p]
  <1>0. /\ TypeOK /\ WalletRowsSettled /\ OwnedIsClosed /\ RowsOpened /\ FiledClosed
        /\ SettledByOwner /\ MoneyFollowsOwner
    BY DEF IInv, Inv
  <1>1. c \in Checkouts /\ checkout[c].owner = NoPayment
    BY <1>0 DEF Settles, OwnedIsClosed
  <1>2. /\ checkout'[c].owner = p /\ checkout'[c].status = "PAID"
        /\ \A d \in Checkouts \ {c} : checkout'[d] = checkout[d]
    BY <1>0, <1>1 DEF Settles, TypeOK
  <1>3. /\ payment'[p].status = "APPROVED" /\ payment'[p].settlementStatus = "SETTLED"
        /\ \A q \in Payments \ {p} : payment'[q] = payment[q]
    BY <1>0 DEF Settles, TypeOK, Approved, PaymentRow
  <1>4. \A q \in Payments \ {p} : Owns(q)' <=> Owns(q)
    BY <1>1, <1>2 DEF Owns
  <1>5. WalletRowsSettled'
    BY <1>0, <1>3 DEF WalletRowsSettled
  <1>6. OwnedIsClosed'
    BY <1>0, <1>2 DEF OwnedIsClosed
  <1>7. SettledByOwner'
    BY <1>0, <1>2, <1>3, <1>4 DEF SettledByOwner, Settled, Owns
  <1>8. MoneyFollowsOwner'
    <2>1. ASSUME NEW d \in Checkouts
          PROVE  order'[d] = IF Purpose[d] = "ORDER_PAYMENT" THEN checkout'[d].owner ELSE NoPayment
      BY <1>0, <1>1, <1>2 DEF Settles, MoneyFollowsOwner, TypeOK, IsTopUp
    <2>2. ASSUME NEW q \in Payments
          PROVE  ledger'[q] = 1 <=> Owns(q)' /\ (IsTopUp(q) \/ Provider[q] = "WALLET")
      <3>1. CASE q = p
        BY <1>0, <1>2, <3>1 DEF Settles, TypeOK, IsTopUp, Owns
      <3>2. CASE q # p
        BY <1>0, <1>4, <3>2 DEF Settles, TypeOK, MoneyFollowsOwner
      <3>3. QED
        BY <3>1, <3>2
    <2>3. QED
      BY <2>1, <2>2 DEF MoneyFollowsOwner, IsTopUp
  <1>9. FiledClosed'
    BY <1>0, <1>2, <1>3 DEF FiledClosed, Open
  <1>10. \A q \in Payments :
             payment'[q].status # "NONE" => checkout'[CheckoutOf[q]].status # "NONE"
    BY <1>0, <1>2, <1>3 DEF RowsOpened
  <1>11. QED
    BY <1>5, <1>6, <1>7, <1>8, <1>9, <1>10

(* A filing keeps the invariant: it touches no owner and no money.         *)
LEMMA FilesKeeps ==
    ASSUME IInv, NEW p \in Payments, Files(p)
    PROVE  /\ WalletRowsSettled' /\ OwnedIsClosed' /\ FiledClosed'
           /\ SettledByOwner' /\ MoneyFollowsOwner'
           /\ \A q \in Payments :
                  payment'[q].status # "NONE" => checkout'[CheckoutOf[q]].status # "NONE"
  <1> USE ConstantsAssumption
  <1>0. /\ TypeOK /\ WalletRowsSettled /\ OwnedIsClosed /\ RowsOpened /\ FiledClosed
        /\ SettledByOwner /\ MoneyFollowsOwner
    BY DEF IInv, Inv
  <1>1. /\ payment'[p].settlementStatus = "DUPLICATE_SUCCESS_REVIEW"
        /\ \A q \in Payments : payment'[q].status = payment[q].status
        /\ \A q \in Payments \ {p} : payment'[q] = payment[q]
    BY <1>0 DEF Files, TypeOK, PaymentRow
  <1>2. UNCHANGED <<checkout, order, ledger>>
    BY DEF Files
  <1>3. SettledByOwner'
    BY <1>0, <1>1, <1>2 DEF Files, SettledByOwner, Settled, Owns
  <1>4. FiledClosed'
    BY <1>0, <1>1, <1>2 DEF Files, FiledClosed, Open
  <1>5. WalletRowsSettled' /\ OwnedIsClosed' /\ MoneyFollowsOwner'
    BY <1>0, <1>1, <1>2 DEF WalletRowsSettled, OwnedIsClosed, MoneyFollowsOwner, Owns, IsTopUp
  <1>6. \A q \in Payments :
            payment'[q].status # "NONE" => checkout'[CheckoutOf[q]].status # "NONE"
    BY <1>0, <1>1, <1>2 DEF RowsOpened
  <1>7. QED
    BY <1>3, <1>4, <1>5, <1>6

(* Every step keeps the invariant.                                         *)
LEMMA InductiveStep == IInv /\ [Next]_vars => IInv'
  <1> SUFFICES ASSUME IInv, [Next]_vars PROVE IInv'
    OBVIOUS
  <1>1. TypeOK'
    BY TypeStep DEF IInv
  <1>2. TasksOpened' /\ FilingClosed'
    BY <1>1, TasksStep
  <1>3. /\ WalletRowsSettled' /\ OwnedIsClosed' /\ FiledClosed'
        /\ SettledByOwner' /\ MoneyFollowsOwner'
        /\ \A p \in Payments :
               payment'[p].status # "NONE" => checkout'[CheckoutOf[p]].status # "NONE"
    BY DecidingSteps, QuietKeeps, SettlesKeeps, FilesKeeps
  <1>4. ASSUME NEW p \in Payments, issued'[p] # 0 \/ collected'[p] # {}
        PROVE  payment'[p].status # "NONE"
    BY <1>4, IssuedStep, RowsKept DEF RowsStay
  <1>5. RowsOpened'
    BY <1>3, <1>4 DEF RowsOpened
  <1>6. QED
    BY <1>1, <1>2, <1>3, <1>5 DEF IInv, Inv

(* The invariant holds in every reachable state.                           *)
LEMMA InductiveInv == Spec => []IInv
  <1>1. Init => IInv
    BY InitInv
  <1>2. IInv /\ [Next]_vars => IInv'
    BY InductiveStep
  <1>3. QED
    BY <1>1, <1>2, PTL DEF Spec

(* Every row and every process record keeps its shape, no wallet is        *)
(* overdrawn and no payment moves wallet money twice: conditional updates  *)
(* of settleWalletOrder and creditWallet.                                  *)
THEOREM TypeCorrect == Spec => []TypeOK
  BY InductiveInv, PTL DEF IInv, Inv

(* However callbacks, verifies, reviews, wallet orders, sweeps and crashes *)
(* interleave, the settled payment of a checkout is its one owner.         *)
THEOREM OneSettlement == Spec => []SettledByOwner
  BY InductiveInv, PTL DEF IInv

(* The order and the wallet money of a checkout are its owner's, from the  *)
(* step that claims it: the transaction of every settling path.            *)
THEOREM OneMoneyMove == Spec => []MoneyFollowsOwner
  BY InductiveInv, PTL DEF IInv

-----------------------------------------------------------------------------
(* Refinement: the abstract state of the claim.                            *)

OwnerMap   == [c \in Checkouts |-> checkout[c].owner]
ClosedMap  == [c \in Checkouts |-> checkout[c].status \notin {"NONE", "PENDING"}]
OutcomeMap == [p \in Payments |-> Outcome(p)]
EffectMap  == [p \in Payments |-> Effect(p)]

(* A step that decides nothing closes some checkouts, or none.             *)
LEMMA QuietRefines ==
    ASSUME IInv, Quiet
    PROVE  \E C \in SUBSET Checkouts : Claim!Close(C)
  <1> USE ConstantsAssumption
  <1> DEFINE C == {c \in Checkouts : checkout'[c].status \notin {"NONE", "PENDING"}}
  <1>1. OwnerMap' = OwnerMap
    BY DEF Quiet, OwnersStay, OwnerMap
  <1>2. OutcomeMap' = OutcomeMap
    BY DEF Quiet, DecidedStay, OutcomeMap, Outcome
  <1>3. EffectMap' = EffectMap
    BY DEF Quiet, EffectMap, Effect, IsTopUp
  <1>4. ClosedMap' = [c \in Checkouts |-> ClosedMap[c] \/ c \in C]
    BY DEF Quiet, OwnersStay, ClosedMap
  <1>5. C \in SUBSET Checkouts
    OBVIOUS
  <1> HIDE DEF C
  <1>6. QED
    BY <1>1, <1>2, <1>3, <1>4, <1>5
    DEF Claim!Close, OwnerMap, OutcomeMap, EffectMap, ClosedMap

(* A settlement is the abstract claim.                                     *)
LEMMA SettlesRefines ==
    ASSUME IInv, NEW p \in Payments, Settles(p)
    PROVE  Claim!Settle(p)
  <1> USE ConstantsAssumption
  <1> DEFINE c == CheckoutOf[p]
  <1>0. TypeOK /\ OwnedIsClosed /\ FiledClosed /\ SettledByOwner /\ MoneyFollowsOwner
    BY DEF IInv, Inv
  <1>1. c \in Checkouts /\ checkout[c].owner = NoPayment /\ checkout[c].status \in {"NONE", "PENDING"}
    BY <1>0 DEF Settles, OwnedIsClosed
  <1>2. ~ClosedMap[c]
    BY <1>1 DEF ClosedMap
  <1>3. OutcomeMap[p] = "open"
    <2>1. payment[p].settlementStatus \in {"UNSETTLED", "SETTLED", "DUPLICATE_SUCCESS_REVIEW"}
      BY <1>0 DEF TypeOK, PaymentRow
    <2>2. payment[p].settlementStatus \notin {"SETTLED", "DUPLICATE_SUCCESS_REVIEW"}
      BY <1>0 DEF Settles, SettledByOwner, Settled, FiledClosed, Open
    <2>3. QED
      BY <2>1, <2>2 DEF OutcomeMap, Outcome
  <1>4. OwnerMap' = [OwnerMap EXCEPT ![c] = p]
    BY <1>0, <1>1 DEF Settles, OwnerMap, TypeOK
  <1>5. ClosedMap' = [ClosedMap EXCEPT ![c] = TRUE]
    BY <1>0, <1>1 DEF Settles, ClosedMap, TypeOK
  <1>6. OutcomeMap' = [OutcomeMap EXCEPT ![p] = "settled"]
    <2>1. /\ payment'[p].settlementStatus = "SETTLED"
          /\ \A q \in Payments \ {p} : payment'[q] = payment[q]
      BY <1>0 DEF Settles, TypeOK, Approved, PaymentRow
    <2>2. QED
      BY <2>1 DEF OutcomeMap, Outcome
  <1>7. EffectMap' = [EffectMap EXCEPT ![p] = 1]
    <2>1. ASSUME NEW q \in Payments
          PROVE  Effect(q)' = IF q = p THEN 1 ELSE Effect(q)
      <3>1. CASE q = p
        BY <1>0, <1>1, <3>1 DEF Settles, TypeOK, Effect, IsTopUp
      <3>2. CASE q # p
        BY <1>0, <1>1, <3>2 DEF Settles, TypeOK, Effect, IsTopUp, MoneyFollowsOwner
      <3>3. QED
        BY <3>1, <3>2
    <2>2. QED
      BY <2>1 DEF EffectMap
  <1>8. QED
    BY <1>2, <1>3, <1>4, <1>5, <1>6, <1>7
    DEF Claim!Settle, OwnerMap, ClosedMap, OutcomeMap, EffectMap

(* A filing is the abstract review.                                        *)
LEMMA FilesRefines ==
    ASSUME IInv, NEW p \in Payments, Files(p)
    PROVE  Claim!Review(p)
  <1> USE ConstantsAssumption
  <1>0. TypeOK
    BY DEF IInv, Inv
  <1>1. ClosedMap[CheckoutOf[p]] /\ OwnerMap[CheckoutOf[p]] # p /\ OutcomeMap[p] = "open"
    BY DEF Files, Open, Owns, ClosedMap, OwnerMap, OutcomeMap, Outcome
  <1>2. OutcomeMap' = [OutcomeMap EXCEPT ![p] = "review"]
    <2>1. /\ payment'[p].settlementStatus = "DUPLICATE_SUCCESS_REVIEW"
          /\ \A q \in Payments \ {p} : payment'[q] = payment[q]
      BY <1>0 DEF Files, TypeOK, PaymentRow
    <2>2. QED
      BY <2>1 DEF OutcomeMap, Outcome
  <1>3. OwnerMap' = OwnerMap /\ ClosedMap' = ClosedMap /\ EffectMap' = EffectMap
    BY DEF Files, OwnerMap, ClosedMap, EffectMap, Effect, IsTopUp
  <1>4. QED
    BY <1>1, <1>2, <1>3 DEF Claim!Review, OwnerMap, ClosedMap, OutcomeMap, EffectMap

(* The initial states are abstract initial states.                         *)
LEMMA InitRefines == Init => Claim!Init
  <1> USE ConstantsAssumption
  <1> SUFFICES ASSUME Init PROVE Claim!Init
    OBVIOUS
  <1>1. /\ OwnerMap = [c \in Checkouts |-> NoPayment]
        /\ ClosedMap = [c \in Checkouts |-> FALSE]
    BY DEF Init, OwnerMap, ClosedMap
  <1>2. OutcomeMap = [p \in Payments |-> "open"]
    BY DEF Init, OutcomeMap, Outcome, NoRow
  <1>3. EffectMap = [p \in Payments |-> 0]
    BY DEF Init, EffectMap, Effect
  <1>4. QED
    BY <1>1, <1>2, <1>3 DEF Claim!Init, OwnerMap, ClosedMap, OutcomeMap, EffectMap

(* Spec => Claim!Spec: whatever requests, handlers, reviews, wallet orders *)
(* and the sweep do is, seen from a checkout, a claim together with its    *)
(* order or wallet money, the filing of a late payment, a closing, or      *)
(* nothing.                                                                *)
THEOREM SettlementImplementsClaim == Spec => ImplementsClaim
  <1>1. IInv /\ [Next]_vars => [Claim!Next]_Claim!vars
    BY DecidingSteps, QuietRefines, SettlesRefines, FilesRefines DEF Claim!Next
  <1>2. QED
    BY <1>1, InitRefines, InductiveInv, PTL DEF Spec, ImplementsClaim, Claim!Spec

(* No two payments of one checkout both create an order or move wallet     *)
(* money.                                                                  *)
THEOREM NoDoubleEffect == Spec => []Claim!OneEffectPerCheckout
  <1>1. IInv => Claim!OneEffectPerCheckout
    BY ConstantsAssumption
    DEF IInv, Inv, TypeOK, MoneyFollowsOwner, Owns, IsTopUp, Effect, Claim!OneEffectPerCheckout
  <1>2. QED
    BY <1>1, InductiveInv, PTL

-----------------------------------------------------------------------------
(* What backs a payment: the invoice the buyer paid, the case that was     *)
(* filed, the checkout that was lost.                                      *)

Gateway   == {p \in Payments : Provider[p] \in Online}
Paying    == {"record", "mark", "reread", "settle", "duplicate"}
Backed(t) ==
    /\ t.pc \in Paying \cup {"verify"} => t.payment \in Gateway
    /\ t.pc \in Paying => collected[t.payment] # {}
    /\ t.pc = "receipt" => Provider[t.payment] = "CARD"
    /\ t.pc = "duplicate" => t.owner = checkout[CheckoutOf[t.payment]].owner
    /\ t.pc = "notify" => review[t.payment].type # "NONE"

(* A handler that records or settles works on a paid invoice, a recorded   *)
(* success or one on its way was paid, a receipt under review is a card's. *)
TasksBacked    == \A w \in Procs : Backed(task[w])
RequestsBacked ==
    \A r \in Recorders : request[r].pc # "idle" /\ request[r].event = "SUCCESS" =>
        collected[request[r].payment] # {}
RowsBacked ==
    \A p \in Payments :
        /\ payment[p].providerStatus = "SUCCESS" => collected[p] # {}
        /\ payment[p].status = "PENDING_REVIEW" => Provider[p] = "CARD"
BatchOnline == batch \subseteq Gateway
CasesEmpty  == \A p \in Payments : review[p].type = "NONE" => review[p] = NoCase

PaidInv == TasksBacked /\ RequestsBacked /\ RowsBacked /\ BatchOnline /\ CollectedBeforeSettled
FileInv == CasesEmpty /\ ReviewOfLosers

(* An order of a reserved checkout holds its reservation or a case, and    *)
(* a reservation is linked by an order only.                               *)
LinkedOrdered == \A c \in Checkouts : reservation[c] = "LINKED" => order[c] # NoPayment
HeldInv == LinkedOrdered /\ UnboundHeld

(* The discounts that count and those under review have their orders.      *)
NotesOrdered == \A c \in flagged : order[c] \in Gateway
DiscountInv == IsFiniteSet(redeemed) /\ NotesOrdered /\ DiscountAccounted

-----------------------------------------------------------------------------
(* The steps that touch the books.                                         *)

(* A commit claims for a payment that has no order and no wallet money.    *)
LEMMA CommitSettles ==
    ASSUME IInv, NEW w \in Procs, NEW p, p = task[w].payment, SettleCommit(w) \/ ApproveCommit(w)
    PROVE  /\ p \in Payments /\ CheckoutOf[p] \in Checkouts /\ Provider[p] # "WALLET"
           /\ task[w] \in TaskRecord /\ payment[p] \in PaymentRow
           /\ ~Owns(p) /\ Claimable(CheckoutOf[p])
           /\ order[CheckoutOf[p]] = NoPayment /\ ledger[p] = 0
  <1> USE ConstantsAssumption
  <1>0. TypeOK /\ SettledByOwner /\ MoneyFollowsOwner
    BY DEF IInv, Inv
  <1>1. task[w].pc # "idle" /\ payment[p].status # "APPROVED"
    BY DEF SettleCommit, ApproveCommit, Live
  <1>2. /\ p \in Payments /\ CheckoutOf[p] \in Checkouts /\ Provider[p] # "WALLET"
        /\ task[w] \in TaskRecord /\ payment[p] \in PaymentRow
    BY <1>0, <1>1, Working
  <1>3. ~Owns(p)
    BY <1>0, <1>1, <1>2 DEF SettledByOwner
  <1>4. Claimable(CheckoutOf[p])
    BY <1>3 DEF SettleCommit, ApproveCommit, Owns
  <1>5. order[CheckoutOf[p]] = NoPayment /\ ledger[p] = 0
    BY <1>0, <1>2, <1>3, <1>4 DEF MoneyFollowsOwner, TypeOK, Claimable
  <1> QED BY <1>2, <1>3, <1>4, <1>5

(* Only commits move money, orders and discounts.                          *)
LEMMA MoneySteps ==
    ASSUME [Next]_vars
    PROVE  \/ UNCHANGED <<order, balance, ledger, redeemed, flagged>>
           \/ \E w \in Procs : SettleCommit(w) \/ ApproveCommit(w)
           \/ \E p \in Payments : SettleWalletOrder(p)
  <1> DEFINE Still == UNCHANGED <<order, balance, ledger, redeemed, flagged>>
  <1>1. ASSUME NEW c \in Checkouts,
               CreateCheckout(c) \/ MaterializeCheckout(c) \/ Tick(c) \/ SubmitCustomerInfo(c)
               \/ ExpireReservation(c)
        PROVE  Still
    BY <1>1 DEF CreateCheckout, MaterializeCheckout, Tick, SubmitCustomerInfo, ExpireReservation, rows
  <1>2. ASSUME NEW w \in Workers, NEW p \in Payments,
               OpenPayment(w, p) \/ CheckPayment(w, p) \/ StarsPaid(w, p)
               \/ SubmitReceipt(w, p) \/ ApproveRead(w, p) \/ RejectRead(w, p)
        PROVE  Still
    BY <1>2 DEF OpenPayment, CheckPayment, StarsPaid, SubmitReceipt, ApproveRead, RejectRead, rows
  <1>3. ASSUME NEW p \in Payments, NEW k \in 1 .. MaxAttempts, Collect(p, k) PROVE Still
    BY <1>3 DEF Collect, rows
  <1>4. ASSUME NEW r \in Recorders, NEW p \in Payments, NEW k \in 1 .. MaxAttempts, NEW e \in Reports,
               Callback(r, p, k, e)
        PROVE  Still
    BY <1>4 DEF Callback, rows
  <1>5. ASSUME NEW r \in Recorders, RecordRead(r) \/ RecordWrite(r) \/ RecordStatus(r) \/ RequestDies(r)
        PROVE  Still
    BY <1>5 DEF RecordRead, RecordWrite, RecordStatus, RequestDies, rows
  <1>6. ASSUME NEW w \in Procs,
               \/ LoadOrCreatePaymentRow(w) \/ ProviderCreates(w) \/ ProviderCreateFails(w)
               \/ VerifySucceeds(w) \/ VerifyFails(w) \/ FailPayment(w) \/ VerifyUncertain(w)
               \/ BotRecordSuccess(w) \/ BotMarkProcessing(w) \/ StarsSettle(w)
        PROVE  Still
    BY <1>6 DEF LoadOrCreatePaymentRow, ProviderCreates, ProviderCreateFails, VerifySucceeds,
           VerifyFails, FailPayment, VerifyUncertain, BotRecordSuccess, BotMarkProcessing, StarsSettle, rows
  <1>7. ASSUME NEW w \in Procs,
               \/ NotifyCase(w) \/ SettleAbort(w) \/ SettleLost(w) \/ RecordDuplicateSuccess(w)
               \/ InsertReceipt(w) \/ ApproveAbort(w) \/ RejectCommit(w)
        PROVE  Still
    BY <1>7 DEF NotifyCase, SettleAbort, SettleLost, RecordDuplicateSuccess, InsertReceipt,
           ApproveAbort, RejectCommit, rows
  <1>8. SweepStep \/ BotCrash \/ UNCHANGED vars => Still
    BY DEF SweepStep, SweepSelect, SweepExpire, SweepNext, SweepNotify, BotCrash, vars, rows
  <1> HIDE DEF Still
  <1>9. \/ Still
        \/ \E w \in Procs : SettleCommit(w) \/ ApproveCommit(w)
        \/ \E p \in Payments : SettleWalletOrder(p)
    BY <1>1, <1>2, <1>3, <1>4, <1>5, <1>6, <1>7, <1>8 DEF Next, BotStep
  <1> QED BY <1>9 DEF Still

(* Only commits, filings and alerts write a case.                          *)
LEMMA CaseSteps ==
    ASSUME [Next]_vars
    PROVE  \/ UNCHANGED review
           \/ \E w \in Procs : SettleCommit(w) \/ NotifyCase(w) \/ RecordDuplicateSuccess(w) \/ ApproveCommit(w)
           \/ \E p \in Payments : SweepNotify(p)
  <1> DEFINE Still == UNCHANGED review
  <1>1. ASSUME NEW c \in Checkouts,
               CreateCheckout(c) \/ MaterializeCheckout(c) \/ Tick(c)
               \/ SubmitCustomerInfo(c) \/ ExpireReservation(c)
        PROVE  Still
    BY <1>1 DEF CreateCheckout, MaterializeCheckout, Tick, SubmitCustomerInfo
           , ExpireReservation, rows
  <1>2. ASSUME NEW w \in Workers, NEW p \in Payments,
               OpenPayment(w, p) \/ CheckPayment(w, p) \/ StarsPaid(w, p)
               \/ SubmitReceipt(w, p) \/ ApproveRead(w, p) \/ RejectRead(w, p)
        PROVE  Still
    BY <1>2 DEF OpenPayment, CheckPayment, StarsPaid, SubmitReceipt, ApproveRead, RejectRead
           , rows
  <1>3. ASSUME NEW p \in Payments,
               SettleWalletOrder(p)
        PROVE  Still
    BY <1>3 DEF SettleWalletOrder, rows
  <1>4. ASSUME NEW p \in Payments, NEW k \in 1 .. MaxAttempts,
               Collect(p, k)
        PROVE  Still
    BY <1>4 DEF Collect, rows
  <1>5. ASSUME NEW r \in Recorders, NEW p \in Payments, NEW k \in 1 .. MaxAttempts, NEW e \in Reports,
               Callback(r, p, k, e)
        PROVE  Still
    BY <1>5 DEF Callback, rows
  <1>6. ASSUME NEW r \in Recorders,
               RecordRead(r) \/ RecordWrite(r) \/ RecordStatus(r) \/ RequestDies(r)
        PROVE  Still
    BY <1>6 DEF RecordRead, RecordWrite, RecordStatus, RequestDies, rows
  <1>7. ASSUME NEW w \in Procs,
               LoadOrCreatePaymentRow(w) \/ ProviderCreates(w) \/ ProviderCreateFails(w)
               \/ VerifySucceeds(w) \/ VerifyFails(w) \/ FailPayment(w) \/ VerifyUncertain(w)
               \/ BotRecordSuccess(w) \/ BotMarkProcessing(w) \/ StarsSettle(w)
        PROVE  Still
    BY <1>7 DEF LoadOrCreatePaymentRow, ProviderCreates, ProviderCreateFails, VerifySucceeds
           , VerifyFails, FailPayment, VerifyUncertain, BotRecordSuccess, BotMarkProcessing, StarsSettle
           , rows
  <1>8. ASSUME NEW w \in Procs,
               SettleAbort(w) \/ SettleLost(w) \/ InsertReceipt(w) \/ ApproveAbort(w)
               \/ RejectCommit(w)
        PROVE  Still
    BY <1>8 DEF SettleAbort, SettleLost, InsertReceipt, ApproveAbort, RejectCommit, rows
  <1>9. SweepStep \/ BotCrash \/ UNCHANGED vars => Still \/ \E p \in Payments : SweepNotify(p)
    BY DEF SweepStep, SweepSelect, SweepExpire, SweepNext, BotCrash, vars, rows
  <1> HIDE DEF Still
  <1>10. Still
        \/ (\E w \in Procs : SettleCommit(w) \/ NotifyCase(w) \/ RecordDuplicateSuccess(w) \/ ApproveCommit(w))
        \/ (\E p \in Payments : SweepNotify(p))
    BY <1>1, <1>2, <1>3, <1>4, <1>5, <1>6, <1>7, <1>8, <1>9 DEF Next, BotStep
  <1> QED BY <1>10 DEF Still

(* Only checkouts, the sweep of dead reservations and commits write one.   *)
LEMMA ReservationSteps ==
    ASSUME [Next]_vars
    PROVE  \/ UNCHANGED reservation
           \/ \E c \in Checkouts : CreateCheckout(c) \/ ExpireReservation(c)
           \/ \E w \in Procs : SettleCommit(w) \/ ApproveCommit(w)
           \/ \E p \in Payments : SettleWalletOrder(p)
  <1> DEFINE Still == UNCHANGED reservation
  <1>1. ASSUME NEW c \in Checkouts,
               MaterializeCheckout(c) \/ Tick(c) \/ SubmitCustomerInfo(c)
        PROVE  Still
    BY <1>1 DEF MaterializeCheckout, Tick, SubmitCustomerInfo, rows
  <1>2. ASSUME NEW w \in Workers, NEW p \in Payments,
               OpenPayment(w, p) \/ CheckPayment(w, p) \/ StarsPaid(w, p)
               \/ SubmitReceipt(w, p) \/ ApproveRead(w, p) \/ RejectRead(w, p)
        PROVE  Still
    BY <1>2 DEF OpenPayment, CheckPayment, StarsPaid, SubmitReceipt, ApproveRead, RejectRead
           , rows
  <1>3. ASSUME NEW p \in Payments, NEW k \in 1 .. MaxAttempts,
               Collect(p, k)
        PROVE  Still
    BY <1>3 DEF Collect, rows
  <1>4. ASSUME NEW r \in Recorders, NEW p \in Payments, NEW k \in 1 .. MaxAttempts, NEW e \in Reports,
               Callback(r, p, k, e)
        PROVE  Still
    BY <1>4 DEF Callback, rows
  <1>5. ASSUME NEW r \in Recorders,
               RecordRead(r) \/ RecordWrite(r) \/ RecordStatus(r) \/ RequestDies(r)
        PROVE  Still
    BY <1>5 DEF RecordRead, RecordWrite, RecordStatus, RequestDies, rows
  <1>6. ASSUME NEW w \in Procs,
               LoadOrCreatePaymentRow(w) \/ ProviderCreates(w) \/ ProviderCreateFails(w)
               \/ VerifySucceeds(w) \/ VerifyFails(w) \/ FailPayment(w) \/ VerifyUncertain(w)
               \/ BotRecordSuccess(w) \/ BotMarkProcessing(w) \/ StarsSettle(w)
        PROVE  Still
    BY <1>6 DEF LoadOrCreatePaymentRow, ProviderCreates, ProviderCreateFails, VerifySucceeds
           , VerifyFails, FailPayment, VerifyUncertain, BotRecordSuccess, BotMarkProcessing, StarsSettle
           , rows
  <1>7. ASSUME NEW w \in Procs,
               NotifyCase(w) \/ SettleAbort(w) \/ SettleLost(w) \/ RecordDuplicateSuccess(w)
               \/ InsertReceipt(w) \/ ApproveAbort(w) \/ RejectCommit(w)
        PROVE  Still
    BY <1>7 DEF NotifyCase, SettleAbort, SettleLost, RecordDuplicateSuccess, InsertReceipt
           , ApproveAbort, RejectCommit, rows
  <1>8. SweepStep \/ BotCrash \/ UNCHANGED vars => Still
    BY DEF SweepStep, SweepSelect, SweepExpire, SweepNext, SweepNotify, BotCrash, vars, rows
  <1> HIDE DEF Still
  <1>9. Still
        \/ (\E c \in Checkouts : CreateCheckout(c) \/ ExpireReservation(c))
        \/ (\E w \in Procs : SettleCommit(w) \/ ApproveCommit(w))
        \/ (\E p \in Payments : SettleWalletOrder(p))
    BY <1>1, <1>2, <1>3, <1>4, <1>5, <1>6, <1>7, <1>8 DEF Next, BotStep
  <1> QED BY <1>9 DEF Still

(* A step that moves no order and no wallet money decides nothing, unless  *)
(* it files a payment.                                                     *)
LEMMA StillSteps ==
    ASSUME IInv, [Next]_vars, UNCHANGED <<order, ledger>>
    PROVE  Quiet \/ \E p \in Payments : Files(p)
  <1> USE ConstantsAssumption
  <1>0. TypeOK /\ SettledByOwner /\ MoneyFollowsOwner /\ OwnedIsClosed
    BY DEF IInv, Inv
  <1>1. ASSUME NEW p \in Payments, Settles(p) PROVE FALSE
    <2>1. CheckoutOf[p] \in Checkouts /\ checkout[CheckoutOf[p]].owner = NoPayment /\ ~Owns(p)
      BY <1>0, <1>1 DEF Settles, OwnedIsClosed, Owns
    <2>2. order[CheckoutOf[p]] = NoPayment /\ ledger[p] # 1
      BY <1>0, <2>1 DEF MoneyFollowsOwner
    <2>3. CASE IsTopUp(p)
      BY <1>0, <1>1, <2>2, <2>3 DEF Settles, TypeOK
    <2>4. CASE ~IsTopUp(p)
      BY <1>0, <1>1, <2>1, <2>2, <2>4 DEF Settles, TypeOK
    <2> QED BY <2>3, <2>4
  <1> QED BY <1>1, DecidingSteps

(* Paid invoices stay paid.                                                *)
LEMMA CollectedGrows ==
    ASSUME TypeOK, [Next]_vars, NEW p \in Payments
    PROVE  collected[p] # {} => collected'[p] # {}
  <1>1. ASSUME NEW q \in Payments, NEW k \in 1 .. MaxAttempts, Collect(q, k)
        PROVE  collected[p] # {} => collected'[p] # {}
    BY <1>1 DEF Collect, TypeOK
  <1>2. ASSUME NEW w \in Procs, ProviderCreates(w) PROVE UNCHANGED collected
    BY <1>2 DEF ProviderCreates
  <1> QED BY <1>1, <1>2, InvoiceSteps

(* A filed case keeps its type and what it names.                          *)
LEMMA CasesStay ==
    ASSUME IInv, CasesEmpty, [Next]_vars, NEW p \in Payments
    PROVE  review[p].type # "NONE" =>
               review'[p].type = review[p].type /\ review'[p].primary = review[p].primary
  <1> USE ConstantsAssumption
  <1>0. TypeOK
    BY DEF IInv, Inv
  <1>1. review[p] \in CaseRow /\ (review[p].type # "NONE" => review[p] # NoCase)
    BY <1>0 DEF TypeOK, NoCase
  <1>2. ASSUME NEW w \in Procs, SettleCommit(w) PROVE review'[p] = review[p] \/ review[p] = NoCase
    <2>1. task[w].payment \in Payments
      BY <1>2, CommitSettles
    <2> QED BY <1>0, <1>2, <2>1 DEF SettleCommit, TopUp, GatewayOrder, TypeOK
  <1>3. ASSUME NEW w \in Procs, ApproveCommit(w) PROVE UNCHANGED review
    BY <1>3 DEF ApproveCommit, TopUp
  <1>4. ASSUME NEW w \in Procs, RecordDuplicateSuccess(w)
        PROVE  review'[p] = review[p] \/ review[p] = NoCase
    <2>1. task[w].payment \in Payments
      BY <1>0, <1>4, Working DEF RecordDuplicateSuccess
    <2> QED BY <1>0, <1>4, <2>1 DEF RecordDuplicateSuccess, TypeOK
  <1>5. ASSUME NEW q \in Payments, NEW b \in BOOLEAN,
               review' = [review EXCEPT ![q].notified = b]
        PROVE  review'[p].type = review[p].type /\ review'[p].primary = review[p].primary
    BY <1>0, <1>1, <1>5 DEF TypeOK, CaseRow
  <1>6. ASSUME NEW w \in Procs, NotifyCase(w)
        PROVE  review'[p].type = review[p].type /\ review'[p].primary = review[p].primary
    <2>1. task[w].payment \in Payments
      BY <1>0, <1>6, Working DEF NotifyCase
    <2>2. PICK sent \in BOOLEAN : review' = [review EXCEPT ![task[w].payment].notified = @ \/ sent]
      BY <1>6 DEF NotifyCase
    <2>3. (review[task[w].payment].notified \/ sent) \in BOOLEAN
      OBVIOUS
    <2>4. review' = [review EXCEPT ![task[w].payment].notified =
                                       review[task[w].payment].notified \/ sent]
      BY <1>0, <2>1, <2>2 DEF TypeOK
    <2> QED BY <1>5, <2>1, <2>3, <2>4
  <1>7. ASSUME NEW q \in Payments, SweepNotify(q)
        PROVE  review'[p].type = review[p].type /\ review'[p].primary = review[p].primary
    BY <1>5, <1>7 DEF SweepNotify
  <1> QED BY <1>1, <1>2, <1>3, <1>4, <1>6, <1>7, CaseSteps

-----------------------------------------------------------------------------
(* Every handler, request and row is backed by what the buyer paid.        *)

(* A handler that did not move stays backed.                               *)
LEMMA BackedStay ==
    ASSUME IInv, PaidInv, FileInv, [Next]_vars, NEW w \in Procs, task'[w] = task[w]
    PROVE  Backed(task[w])'
  <1> USE ConstantsAssumption
  <1>0. TypeOK /\ TasksBacked /\ FilingClosed /\ CasesEmpty
    BY DEF IInv, Inv, PaidInv, FileInv
  <1>1. CASE task[w].pc = "idle"
    BY <1>1 DEF Backed, Paying
  <1>2. CASE task[w].pc # "idle"
    <2> DEFINE p == task[w].payment
               c == CheckoutOf[p]
    <2>1. p \in Payments /\ c \in Checkouts /\ Backed(task[w])
      BY <1>0, <1>2, Working DEF TasksBacked
    <2>2. collected[p] # {} => collected'[p] # {}
      BY <1>0, <2>1, CollectedGrows
    <2>3. review[p].type # "NONE" => review'[p].type # "NONE"
      BY <1>0, <2>1, CasesStay
    <2>4. task[w].pc = "duplicate" => checkout'[c].owner = checkout[c].owner
      BY <1>0, <2>1, RowsKept DEF FilingClosed, RowsStay
    <2> QED BY <2>1, <2>2, <2>3, <2>4 DEF Backed
  <1> QED BY <1>1, <1>2

(* So a step that moves one handler has only that one to show for.         *)
LEMMA BackedMove ==
    ASSUME IInv, PaidInv, FileInv, [Next]_vars, NEW w \in Procs
    PROVE  /\ UNCHANGED task => TasksBacked'
           /\ \A t : Goto(w, t) /\ t.pc \in {"idle", "open", "create", "approve", "reject"} => TasksBacked'
           /\ Goto(w, task'[w]) /\ Backed(task[w])' => TasksBacked'
  <1>0. TypeOK
    BY DEF IInv, Inv
  <1>1. \A v \in Procs : task'[v] = task[v] => Backed(task[v])'
    BY BackedStay
  <1>2. ASSUME Goto(w, task'[w]), Backed(task[w])' PROVE TasksBacked'
    <2>1. \A v \in Procs \ {w} : task'[v] = task[v]
      BY <1>0, <1>2 DEF Goto, TypeOK
    <2> QED BY <1>1, <1>2, <2>1 DEF TasksBacked
  <1>3. ASSUME NEW t, Goto(w, t), t.pc \in {"idle", "open", "create", "approve", "reject"}
        PROVE  TasksBacked'
    <2>1. task'[w] = t
      BY <1>0, <1>3 DEF Goto, TypeOK
    <2>2. Backed(task[w])'
      BY <1>3, <2>1 DEF Backed, Paying
    <2> QED BY <1>2, <1>3, <2>1, <2>2
  <1> QED BY <1>1, <1>2, <1>3 DEF TasksBacked

(* What the read of settleGatewayPayment starts is backed.                 *)
LEMMA ReadBacked ==
    ASSUME IInv, PaidInv, FileInv, [Next]_vars, NEW w \in Procs, NEW p \in Gateway, UNCHANGED external
    PROVE  /\ SettleRead(w, p) => TasksBacked'
           /\ collected[p] # {} /\ StartRecording(w, p) => TasksBacked'
  <1> USE ConstantsAssumption
  <1>0. TypeOK /\ RowsBacked /\ p \in Payments
    BY DEF IInv, Inv, PaidInv, Gateway
  <1>1. ASSUME NEW t, Goto(w, t), t.payment = p,
               \/ t.pc = "verify"
               \/ t.pc \in {"record", "settle"} /\ collected[p] # {}
        PROVE  TasksBacked'
    <2>1. task'[w] = t
      BY <1>0, <1>1 DEF Goto, TypeOK
    <2>2. Backed(task[w])'
      BY <1>1, <2>1 DEF Backed, Paying, external
    <2> QED BY <1>1, <2>1, <2>2, BackedMove
  <1>2. ASSUME NEW s \in {"settle"}, Ready(p), Start(w, s, p) PROVE TasksBacked'
    <2>1. collected[p] # {}
      BY <1>0, <1>2 DEF Ready, RowsBacked
    <2> QED BY <1>1, <1>2, <2>1 DEF Start, IdleTask
  <1>3. CASE SettleRead(w, p)
    <2>1. CASE Verifiable(p) /\ Goto(w, [IdleTask EXCEPT !.pc = "verify", !.payment = p,
                                                         !.attempt = payment[p].authority])
      BY <1>1, <2>1 DEF IdleTask
    <2>2. CASE Finish(w)
      BY <2>2, BackedMove DEF Finish, IdleTask
    <2> QED BY <1>2, <1>3, <2>1, <2>2 DEF SettleRead
  <1>4. CASE collected[p] # {} /\ StartRecording(w, p)
    BY <1>1, <1>4 DEF StartRecording, IdleTask
  <1> QED BY <1>3, <1>4

(* A handler that goes on with its payment.                                *)
LEMMA StepBacked ==
    ASSUME IInv, PaidInv, FileInv, [Next]_vars, NEW w \in Procs, task[w].pc # "idle",
           NEW s \in TaskSteps, Step(w, s),
           \/ s \in {"create", "fail"}
           \/ s \in Paying \ {"duplicate"} /\ task[w].pc \in Paying
           \/ s = "notify" /\ review'[task[w].payment].type # "NONE"
    PROVE  TasksBacked'
  <1> USE ConstantsAssumption
  <1> DEFINE p == task[w].payment
  <1>0. TypeOK /\ TasksBacked
    BY DEF IInv, Inv, PaidInv
  <1>1. p \in Payments /\ task[w] \in TaskRecord
    BY <1>0, Working
  <1>2. task'[w].pc = s /\ task'[w].payment = p /\ Goto(w, task'[w])
    BY <1>0, <1>1 DEF Step, Goto, TypeOK, TaskRecord
  <1>3. collected[p] # {} => collected'[p] # {}
    BY <1>0, <1>1, CollectedGrows
  <1>4. Backed(task[w])'
    BY <1>0, <1>2, <1>3 DEF TasksBacked, Backed, Paying
  <1> QED BY <1>2, <1>4, BackedMove

(* Every step leaves every handler backed.                                 *)
LEMMA TasksBackedStep ==
    ASSUME IInv, PaidInv, FileInv, [Next]_vars
    PROVE  TasksBacked'
  <1> USE ConstantsAssumption
  <1>0. TypeOK /\ TasksBacked /\ BatchOnline /\ FilingClosed /\ TasksOpened /\ OwnedIsClosed
    BY DEF IInv, Inv, PaidInv
  <1>a. Sweep \in Procs /\ Workers \subseteq Procs
    BY DEF Procs
  <1>1. ASSUME NEW w \in Workers, NEW p \in Payments,
               OpenPayment(w, p) \/ ApproveRead(w, p) \/ RejectRead(w, p)
        PROVE  TasksBacked'
    BY <1>1, <1>a, BackedMove DEF OpenPayment, ApproveRead, RejectRead, Start, IdleTask
  <1>2. ASSUME NEW w \in Workers, NEW p \in Payments, SubmitReceipt(w, p) PROVE TasksBacked'
    <2>1. task'[w].pc = "receipt" /\ task'[w].payment = p /\ Goto(w, task'[w])
      BY <1>0, <1>2, <1>a DEF SubmitReceipt, Start, Goto, IdleTask, TypeOK
    <2>2. Backed(task[w])'
      BY <1>2, <2>1 DEF SubmitReceipt, Backed, Paying
    <2> QED BY <1>a, <2>1, <2>2, BackedMove
  <1>3. ASSUME NEW w \in Workers, NEW p \in Payments, CheckPayment(w, p) PROVE TasksBacked'
    BY <1>3, <1>a, ReadBacked DEF CheckPayment, Gateway
  <1>4. ASSUME NEW w \in Workers, NEW p \in Payments, StarsPaid(w, p) PROVE TasksBacked'
    BY <1>4, <1>a, ReadBacked DEF StarsPaid, Gateway, Online
  <1>5. ASSUME NEW w \in Procs,
               \/ ProviderCreates(w) \/ ProviderCreateFails(w) \/ FailPayment(w) \/ VerifyUncertain(w)
               \/ NotifyCase(w) \/ SettleAbort(w) \/ RecordDuplicateSuccess(w)
               \/ InsertReceipt(w) \/ ApproveCommit(w) \/ ApproveAbort(w) \/ RejectCommit(w)
        PROVE  TasksBacked'
    <2>1. Finish(w)
      BY <1>5 DEF ProviderCreates, ProviderCreateFails, FailPayment, VerifyUncertain, NotifyCase,
                  SettleAbort, RecordDuplicateSuccess, InsertReceipt, ApproveCommit, ApproveAbort,
                  RejectCommit
    <2> QED BY <2>1, BackedMove DEF Finish, IdleTask
  <1>6. ASSUME NEW w \in Procs, LoadOrCreatePaymentRow(w) PROVE TasksBacked'
    <2>1. Finish(w) \/ (Step(w, "create") /\ task[w].pc # "idle")
      BY <1>6 DEF LoadOrCreatePaymentRow
    <2> QED BY <2>1, BackedMove, StepBacked DEF Finish, IdleTask, TaskSteps
  <1>6a. ASSUME NEW w \in Procs, VerifyFails(w) PROVE TasksBacked'
    BY <1>6a, StepBacked DEF VerifyFails, TaskSteps
  <1>7. ASSUME NEW w \in Procs, VerifySucceeds(w) PROVE TasksBacked'
    <2>1. task[w].payment \in Gateway /\ collected[task[w].payment] # {}
      BY <1>0, <1>7 DEF VerifySucceeds, TasksBacked, Backed
    <2> QED BY <1>7, <2>1, ReadBacked DEF VerifySucceeds
  <1>8. ASSUME NEW w \in Procs, BotRecordSuccess(w) \/ BotMarkProcessing(w) PROVE TasksBacked'
    <2>1. \E s \in {"mark", "reread", "settle"} : Step(w, s)
      BY <1>8 DEF BotRecordSuccess, BotMarkProcessing, AfterRecording
    <2>2. task[w].pc \in Paying /\ task[w].pc # "idle"
      BY <1>8 DEF BotRecordSuccess, BotMarkProcessing, Paying
    <2> QED BY <2>1, <2>2, StepBacked DEF Paying, TaskSteps
  <1>9. ASSUME NEW w \in Procs, StarsSettle(w) PROVE TasksBacked'
    <2>1. task[w].payment \in Gateway
      BY <1>0, <1>9 DEF StarsSettle, TasksBacked, Backed, Paying
    <2> QED BY <1>9, <2>1, ReadBacked DEF StarsSettle
  <1>10. ASSUME NEW w \in Procs, SettleCommit(w) PROVE TasksBacked'
    <2> DEFINE p == task[w].payment
    <2>1. CASE review'[p] = review[p]
      BY <1>10, <2>1, BackedMove DEF SettleCommit, Finish, IdleTask
    <2>2. CASE review'[p] # review[p]
      <3>1. p \in Payments /\ task[w].pc # "idle"
        BY <1>10, CommitSettles DEF SettleCommit
      <3>2. review'[p].type = "SERVICE_USERNAME_UNBOUND"
        BY <1>0, <1>10, <2>2, <3>1 DEF SettleCommit, TopUp, GatewayOrder, TypeOK, NoCase
      <3> QED BY <1>10, <2>2, <3>1, <3>2, StepBacked DEF SettleCommit, TaskSteps
    <2> QED BY <2>1, <2>2
  <1>11. ASSUME NEW w \in Procs, SettleLost(w) PROVE TasksBacked'
    <2> DEFINE p == task[w].payment
    <2>1. p \in Payments /\ task[w] \in TaskRecord /\ task[w].pc = "settle"
      BY <1>0, <1>11, Working DEF SettleLost
    <2>2. UNCHANGED <<checkout, collected>>
      BY <1>11 DEF SettleLost, rows, external
    <2>3. /\ task'[w].payment = p /\ task'[w].pc = "duplicate" /\ Goto(w, task'[w])
          /\ task'[w].owner = checkout[CheckoutOf[p]].owner
      BY <1>0, <1>11, <2>1 DEF SettleLost, TypeOK, TaskRecord, Goto
    <2>4. Backed(task[w])'
      BY <1>0, <2>1, <2>2, <2>3 DEF TasksBacked, Backed, Paying
    <2> QED BY <2>3, <2>4, BackedMove
  <1>12. ASSUME NEW p \in Payments, SweepNext(p) PROVE TasksBacked'
    BY <1>0, <1>12, <1>a, ReadBacked DEF SweepNext, BatchOnline
  <1>13. CASE BotCrash
    BY <1>13 DEF BotCrash, TasksBacked, Backed, Paying, IdleTask
  <1>14. CASE UNCHANGED task
    BY <1>14, <1>a, BackedMove
  <1> QED
    BY <1>1, <1>2, <1>3, <1>4, <1>5, <1>6, <1>6a, <1>7, <1>8, <1>9, <1>10, <1>11, <1>12, <1>13, <1>14
    DEF Next, BotStep, SweepStep, vars, CreateCheckout, MaterializeCheckout, Tick,
        SubmitCustomerInfo, ExpireReservation, SettleWalletOrder, Collect, Callback,
        RecordRead, RecordWrite, RecordStatus, RequestDies, SweepSelect, SweepExpire, SweepNotify

(* A success is reported of a paid invoice only.                           *)
LEMMA RequestsBackedStep ==
    ASSUME TypeOK, RequestsBacked, [Next]_vars
    PROVE  RequestsBacked'
  <1> USE ConstantsAssumption
  <1>1. ASSUME NEW r \in Recorders, request'[r] = request[r] PROVE
               request'[r].pc # "idle" /\ request'[r].event = "SUCCESS" => collected'[request'[r].payment] # {}
    BY <1>1, Calling, CollectedGrows DEF RequestsBacked
  <1>2. ASSUME NEW r \in Recorders, NEW p \in Payments, NEW k \in 1 .. MaxAttempts, NEW e \in Reports,
               Callback(r, p, k, e)
        PROVE  RequestsBacked'
    <2>1. request'[r] = [pc |-> "read", payment |-> p, event |-> e, late |-> FALSE]
          /\ \A q \in Recorders \ {r} : request'[q] = request[q]
      BY <1>2 DEF Callback, TypeOK
    <2>2. e = "SUCCESS" => collected'[p] # {}
      BY <1>2 DEF Callback, Reported, external
    <2> QED BY <1>1, <2>1, <2>2 DEF RequestsBacked
  <1>3. ASSUME NEW r \in Recorders, RecordRead(r) \/ RecordWrite(r) \/ RecordStatus(r) \/ RequestDies(r)
        PROVE  RequestsBacked'
    <2>1. request[r].pc # "idle" /\ request[r] \in RequestRecord /\ request[r].payment \in Payments
      BY <1>3, Calling DEF RecordRead, RecordWrite, RecordStatus, RequestDies
    <2>a. ASSUME NEW q, request' = [request EXCEPT ![r] = q]
          PROVE  request'[r] = q /\ \A s \in Recorders \ {r} : request'[s] = request[s]
      BY <2>a DEF TypeOK
    <2>b. \/ request' = [request EXCEPT ![r] = IdleRequest]
          \/ \E b : request' = [request EXCEPT ![r] = [request[r] EXCEPT !.pc = "write", !.late = b]]
          \/ request' = [request EXCEPT ![r] = [request[r] EXCEPT !.pc = "status"]]
      <3>1. CASE RecordRead(r)
        <4>1. [request EXCEPT ![r] = [@ EXCEPT !.pc = "write", !.late = Expired(CheckoutOf[request[r].payment])]]
              = [request EXCEPT ![r] = [request[r] EXCEPT !.pc = "write", !.late = Expired(CheckoutOf[request[r].payment])]]
          BY DEF TypeOK
        <4>2. \/ request' = [request EXCEPT ![r] = IdleRequest]
              \/ request' = [request EXCEPT ![r] = [@ EXCEPT !.pc = "write", !.late = Expired(CheckoutOf[request[r].payment])]]
          BY <3>1 DEF RecordRead
        <4> QED BY <4>1, <4>2
      <3>2. CASE RecordWrite(r)
        BY <3>2 DEF RecordWrite, TypeOK
      <3>3. CASE RecordStatus(r) \/ RequestDies(r)
        BY <3>3 DEF RecordStatus, RequestDies
      <3> QED BY <1>3, <3>1, <3>2, <3>3
    <2>2. /\ \A q \in Recorders \ {r} : request'[q] = request[q]
          /\ \/ request'[r] = IdleRequest
             \/ request'[r].event = request[r].event /\ request'[r].payment = request[r].payment
      <3>1. CASE request' = [request EXCEPT ![r] = IdleRequest]
        BY <2>a, <3>1
      <3>2. ASSUME NEW b, request' = [request EXCEPT ![r] = [request[r] EXCEPT !.pc = "write", !.late = b]]
            PROVE  /\ \A q \in Recorders \ {r} : request'[q] = request[q]
                   /\ request'[r].event = request[r].event /\ request'[r].payment = request[r].payment
        BY <2>1, <2>a, <3>2 DEF RequestRecord
      <3>3. CASE request' = [request EXCEPT ![r] = [request[r] EXCEPT !.pc = "status"]]
        BY <2>1, <2>a, <3>3 DEF RequestRecord
      <3> QED BY <2>b, <3>1, <3>2, <3>3
    <2>3. collected[request[r].payment] # {} => collected'[request[r].payment] # {}
      BY <2>1, CollectedGrows
    <2> QED BY <1>1, <2>1, <2>2, <2>3 DEF RequestsBacked, IdleRequest
  <1>4. CASE UNCHANGED request
    BY <1>1, <1>4 DEF RequestsBacked
  <1> QED
    BY <1>2, <1>3, <1>4
    DEF Next, BotStep, SweepStep, vars, CreateCheckout, MaterializeCheckout, Tick,
        SubmitCustomerInfo, ExpireReservation, OpenPayment, CheckPayment, StarsPaid,
        SubmitReceipt, ApproveRead, RejectRead, SettleWalletOrder, Collect,
        LoadOrCreatePaymentRow, ProviderCreates, ProviderCreateFails, VerifySucceeds,
        VerifyFails, FailPayment, VerifyUncertain, BotRecordSuccess, BotMarkProcessing, StarsSettle,
        SettleCommit, NotifyCase, SettleAbort, SettleLost, RecordDuplicateSuccess, InsertReceipt,
        ApproveCommit, ApproveAbort, RejectCommit, SweepSelect, SweepNext,
        SweepExpire, SweepNotify, BotCrash

(* A row that is written stays backed when its new value is.               *)
LEMMA RowBacked ==
    ASSUME TypeOK, RowsBacked, [Next]_vars, NEW p \in Payments,
           \A q \in Payments \ {p} : payment'[q] = payment[q],
           payment'[p].providerStatus = "SUCCESS" =>
               payment[p].providerStatus = "SUCCESS" \/ collected[p] # {},
           payment'[p].status = "PENDING_REVIEW" =>
               payment[p].status = "PENDING_REVIEW" \/ Provider[p] = "CARD"
    PROVE  RowsBacked'
  <1>1. \A q \in Payments : collected[q] # {} => collected'[q] # {}
    BY CollectedGrows
  <1> QED BY <1>1 DEF RowsBacked

(* A row says SUCCESS, or waits for review, for a reason.                  *)
LEMMA RowsBackedStep ==
    ASSUME IInv, TasksBacked, RequestsBacked, RowsBacked, [Next]_vars
    PROVE  RowsBacked'
  <1> USE ConstantsAssumption
  <1>0. TypeOK
    BY DEF IInv, Inv
  <1>a. ASSUME NEW p \in Payments, NEW r, payment' = [payment EXCEPT ![p] = r],
               r.providerStatus = "SUCCESS" => payment[p].providerStatus = "SUCCESS" \/ collected[p] # {},
               r.status = "PENDING_REVIEW" => payment[p].status = "PENDING_REVIEW" \/ Provider[p] = "CARD"
        PROVE  RowsBacked'
    <2>1. payment'[p] = r /\ \A q \in Payments \ {p} : payment'[q] = payment[q]
      BY <1>0, <1>a DEF TypeOK
    <2> QED BY <1>0, <1>a, <2>1, RowBacked
  <1>b. CASE UNCHANGED payment
    <2>1. \A q \in Payments : collected[q] # {} => collected'[q] # {}
      BY <1>0, CollectedGrows
    <2> QED BY <1>b, <2>1 DEF RowsBacked
  <1>1. ASSUME NEW w \in Procs, LoadOrCreatePaymentRow(w) \/ ProviderCreates(w) \/ ProviderCreateFails(w)
                                \/ FailPayment(w) \/ BotMarkProcessing(w)
        PROVE  RowsBacked'
    <2> DEFINE p == task[w].payment
    <2>1. p \in Payments /\ payment[p] \in PaymentRow
      BY <1>0, <1>1, Working DEF LoadOrCreatePaymentRow, ProviderCreates, ProviderCreateFails,
                                 FailPayment, BotMarkProcessing
    <2>2. ASSUME NEW s \in {"FAILED", "PROCESSING"},
                 payment' = [payment EXCEPT ![p].status = s]
          PROVE  RowsBacked'
      <3>1. /\ payment'[p].status = s /\ payment'[p].providerStatus = payment[p].providerStatus
            /\ \A q \in Payments \ {p} : payment'[q] = payment[q]
        BY <1>0, <2>1, <2>2 DEF TypeOK, PaymentRow
      <3> QED BY <1>0, <2>1, <2>2, <3>1, RowBacked
    <2>3. ASSUME payment' = [payment EXCEPT ![p].status = payment[p].status] PROVE RowsBacked'
      <3>1. payment' = payment
        BY <1>0, <2>1, <2>3 DEF TypeOK, PaymentRow
      <3> QED BY <1>b, <3>1
    <2>4. CASE LoadOrCreatePaymentRow(w)
      <3>1. CASE payment' = [payment EXCEPT ![p].status = "PENDING", ![p].providerStatus = "NULL",
                                            ![p].authority = 0]
        <4>1. /\ payment'[p].status = "PENDING" /\ payment'[p].providerStatus = "NULL"
              /\ \A q \in Payments \ {p} : payment'[q] = payment[q]
          BY <1>0, <2>1, <3>1 DEF TypeOK, PaymentRow
        <4> QED BY <1>0, <2>1, <4>1, RowBacked
      <3> QED BY <1>b, <2>4, <3>1 DEF LoadOrCreatePaymentRow
    <2>5. CASE ProviderCreates(w)
      <3>1. /\ payment'[p].status = payment[p].status
            /\ payment'[p].providerStatus = payment[p].providerStatus
            /\ \A q \in Payments \ {p} : payment'[q] = payment[q]
        BY <1>0, <2>1, <2>5 DEF ProviderCreates, TypeOK, PaymentRow
      <3> QED BY <1>0, <2>1, <3>1, RowBacked
    <2>6. CASE ProviderCreateFails(w) \/ FailPayment(w) \/ BotMarkProcessing(w)
      <3>1. \E s \in {"FAILED", "PROCESSING", payment[p].status} :
                payment' = [payment EXCEPT ![p].status = s]
        BY <1>0, <2>1, <2>6 DEF ProviderCreateFails, FailPayment, BotMarkProcessing, TypeOK
      <3> QED BY <2>2, <2>3, <3>1
    <2> QED BY <1>1, <2>4, <2>5, <2>6
  <1>2. ASSUME NEW w \in Procs, BotRecordSuccess(w) PROVE RowsBacked'
    <2> DEFINE p == task[w].payment
    <2>1. p \in Payments /\ payment[p] \in PaymentRow /\ collected[p] # {}
      BY <1>0, <1>2, Working DEF BotRecordSuccess, TasksBacked, Backed, Paying
    <2>2. /\ payment'[p].status = payment[p].status
          /\ \A q \in Payments \ {p} : payment'[q] = payment[q]
      BY <1>0, <1>2, <2>1 DEF BotRecordSuccess, TypeOK, PaymentRow
    <2> QED BY <1>0, <2>1, <2>2, RowBacked
  <1>3. ASSUME NEW w \in Procs, InsertReceipt(w) PROVE RowsBacked'
    <2> DEFINE p == task[w].payment
    <2>1. p \in Payments /\ Provider[p] = "CARD"
      BY <1>0, <1>3, Working DEF InsertReceipt, TasksBacked, Backed
    <2> QED BY <1>a, <1>3, <2>1 DEF InsertReceipt, NoRow
  <1>4. ASSUME NEW w \in Procs, SettleCommit(w) \/ ApproveCommit(w) PROVE RowsBacked'
    <2> DEFINE p == task[w].payment
    <2>1. p \in Payments /\ payment[p] \in PaymentRow /\ payment' = [payment EXCEPT ![p] = Approved(p)]
      BY <1>4, CommitSettles DEF SettleCommit, ApproveCommit
    <2>2. Approved(p).status = "APPROVED" /\ Approved(p).providerStatus = payment[p].providerStatus
      BY <2>1 DEF Approved, PaymentRow
    <2> QED BY <1>a, <2>1, <2>2
  <1>5. ASSUME NEW w \in Procs, RecordDuplicateSuccess(w) \/ RejectCommit(w) PROVE RowsBacked'
    <2> DEFINE p == task[w].payment
    <2>1. p \in Payments /\ payment[p] \in PaymentRow
      BY <1>0, <1>5, Working DEF RecordDuplicateSuccess, RejectCommit
    <2>2. CASE payment' = [payment EXCEPT ![p].status = "REJECTED"]
      <3>1. /\ payment'[p].status = "REJECTED"
            /\ payment'[p].providerStatus = payment[p].providerStatus
            /\ \A q \in Payments \ {p} : payment'[q] = payment[q]
        BY <1>0, <2>1, <2>2 DEF TypeOK, PaymentRow
      <3> QED BY <1>0, <2>1, <3>1, RowBacked
    <2>3. CASE RecordDuplicateSuccess(w)
      <3>1. /\ payment'[p].status = payment[p].status
            /\ payment'[p].providerStatus = payment[p].providerStatus
            /\ \A q \in Payments \ {p} : payment'[q] = payment[q]
        BY <1>0, <2>1, <2>3 DEF RecordDuplicateSuccess, TypeOK, PaymentRow
      <3> QED BY <1>0, <2>1, <3>1, RowBacked
    <2> QED BY <1>5, <1>b, <2>2, <2>3 DEF RejectCommit
  <1>6. ASSUME NEW p \in Payments, SettleWalletOrder(p) PROVE RowsBacked'
    <2>1. payment[p] \in PaymentRow /\ payment' = [payment EXCEPT ![p] = Approved(p)]
      BY <1>0, <1>6 DEF SettleWalletOrder, TypeOK
    <2>2. Approved(p).status = "APPROVED" /\ Approved(p).providerStatus = payment[p].providerStatus
      BY <2>1 DEF Approved, PaymentRow
    <2> QED BY <1>a, <2>1, <2>2
  <1>7. ASSUME NEW r \in Recorders, RecordWrite(r) PROVE RowsBacked'
    <2> DEFINE p == request[r].payment
    <2>1. p \in Payments /\ payment[p] \in PaymentRow
      BY <1>0, <1>7, Calling DEF RecordWrite
    <2>2. request[r].event = "SUCCESS" => collected[p] # {}
      BY <1>7 DEF RecordWrite, RequestsBacked
    <2>3. /\ payment'[p].status = payment[p].status /\ payment'[p].providerStatus = request[r].event
          /\ \A q \in Payments \ {p} : payment'[q] = payment[q]
      BY <1>0, <1>7, <2>1 DEF RecordWrite, TypeOK, PaymentRow
    <2> QED BY <1>0, <2>1, <2>2, <2>3, RowBacked
  <1>8. ASSUME NEW r \in Recorders, RecordStatus(r) PROVE RowsBacked'
    <2> DEFINE p == request[r].payment
    <2>1. p \in Payments /\ payment[p] \in PaymentRow /\ request[r].event # "PENDING_REVIEW"
      BY <1>0, <1>8, Calling DEF RecordStatus, RequestRecord, Events
    <2>2. /\ payment'[p].status \in {payment[p].status, request[r].event}
          /\ payment'[p].providerStatus = payment[p].providerStatus
          /\ \A q \in Payments \ {p} : payment'[q] = payment[q]
      BY <1>0, <1>8, <2>1 DEF RecordStatus, TypeOK, PaymentRow
    <2> QED BY <1>0, <2>1, <2>2, RowBacked
  <1>9. CASE SweepExpire
    <2>1. \A q \in Payments : collected[q] # {} => collected'[q] # {}
      BY <1>0, CollectedGrows
    <2>2. \A q \in Payments : /\ payment'[q].providerStatus = payment[q].providerStatus
                              /\ payment'[q].status = payment[q].status \/ payment'[q].status = "EXPIRED"
      BY <1>0, <1>9 DEF SweepExpire, TypeOK, PaymentRow
    <2> QED BY <2>1, <2>2 DEF RowsBacked
  <1> QED
    BY <1>1, <1>2, <1>3, <1>4, <1>5, <1>6, <1>7, <1>8, <1>9, <1>b
    DEF Next, BotStep, SweepStep, vars, rows, CreateCheckout, MaterializeCheckout, Tick,
        SubmitCustomerInfo, ExpireReservation, OpenPayment, CheckPayment, StarsPaid,
        SubmitReceipt, ApproveRead, RejectRead, Collect, Callback,
        RecordRead, RequestDies, VerifySucceeds, VerifyFails, VerifyUncertain, StarsSettle,
        NotifyCase, SettleAbort, SettleLost, ApproveAbort, SweepSelect, SweepNext, SweepNotify, BotCrash

(* Only the selection of the sweep fills a batch.                          *)
LEMMA BatchSteps ==
    ASSUME [Next]_vars
    PROVE  batch' \subseteq batch \/ SweepSelect
  <1> DEFINE Still == batch' \subseteq batch
  <1>1. ASSUME NEW c \in Checkouts,
               CreateCheckout(c) \/ MaterializeCheckout(c) \/ Tick(c)
               \/ SubmitCustomerInfo(c) \/ ExpireReservation(c)
        PROVE  Still
    BY <1>1 DEF CreateCheckout, MaterializeCheckout, Tick, SubmitCustomerInfo
           , ExpireReservation
  <1>2. ASSUME NEW w \in Workers, NEW p \in Payments,
               OpenPayment(w, p) \/ CheckPayment(w, p) \/ StarsPaid(w, p)
               \/ SubmitReceipt(w, p) \/ ApproveRead(w, p) \/ RejectRead(w, p)
        PROVE  Still
    BY <1>2 DEF OpenPayment, CheckPayment, StarsPaid, SubmitReceipt, ApproveRead, RejectRead
  <1>3. ASSUME NEW p \in Payments,
               SettleWalletOrder(p)
        PROVE  Still
    BY <1>3 DEF SettleWalletOrder
  <1>4. ASSUME NEW p \in Payments, NEW k \in 1 .. MaxAttempts,
               Collect(p, k)
        PROVE  Still
    BY <1>4 DEF Collect
  <1>5. ASSUME NEW r \in Recorders, NEW p \in Payments, NEW k \in 1 .. MaxAttempts, NEW e \in Reports,
               Callback(r, p, k, e)
        PROVE  Still
    BY <1>5 DEF Callback
  <1>6. ASSUME NEW r \in Recorders,
               RecordRead(r) \/ RecordWrite(r) \/ RecordStatus(r) \/ RequestDies(r)
        PROVE  Still
    BY <1>6 DEF RecordRead, RecordWrite, RecordStatus, RequestDies
  <1>7. ASSUME NEW w \in Procs,
               LoadOrCreatePaymentRow(w) \/ ProviderCreates(w) \/ ProviderCreateFails(w)
               \/ VerifySucceeds(w) \/ VerifyFails(w) \/ FailPayment(w) \/ VerifyUncertain(w)
               \/ BotRecordSuccess(w) \/ BotMarkProcessing(w) \/ StarsSettle(w)
        PROVE  Still
    BY <1>7 DEF LoadOrCreatePaymentRow, ProviderCreates, ProviderCreateFails, VerifySucceeds
           , VerifyFails, FailPayment, VerifyUncertain, BotRecordSuccess, BotMarkProcessing, StarsSettle
  <1>8. ASSUME NEW w \in Procs,
               SettleCommit(w) \/ NotifyCase(w) \/ SettleAbort(w) \/ SettleLost(w)
               \/ RecordDuplicateSuccess(w) \/ InsertReceipt(w) \/ ApproveCommit(w)
               \/ ApproveAbort(w) \/ RejectCommit(w)
        PROVE  Still
    BY <1>8 DEF SettleCommit, NotifyCase, SettleAbort, SettleLost, RecordDuplicateSuccess
           , InsertReceipt, ApproveCommit, ApproveAbort, RejectCommit
  <1>9. SweepStep \/ BotCrash \/ UNCHANGED vars => Still \/ SweepSelect
    BY DEF SweepStep, SweepExpire, SweepNext, SweepNotify, BotCrash, vars
  <1> HIDE DEF Still
  <1>10. Still \/ SweepSelect
    BY <1>1, <1>2, <1>3, <1>4, <1>5, <1>6, <1>7, <1>8, <1>9 DEF Next, BotStep
  <1> QED BY <1>10 DEF Still

(* The sweep takes gateway payments only.                                  *)
LEMMA BatchStep ==
    ASSUME BatchOnline, [Next]_vars
    PROVE  BatchOnline'
  <1>1. SweepSelect => batch' \subseteq Gateway
    BY DEF SweepSelect, Swept, Gateway
  <1> QED BY <1>1, BatchSteps DEF BatchOnline

(* A payment settles or is filed by a handler that works on a paid invoice,*)
(* by the review of a card receipt or by the wallet.                       *)
LEMMA CollectedStep ==
    ASSUME IInv, PaidInv, [Next]_vars
    PROVE  CollectedBeforeSettled'
  <1> USE ConstantsAssumption
  <1>0. TypeOK /\ TasksBacked /\ RowsBacked /\ CollectedBeforeSettled
    BY DEF IInv, Inv, PaidInv
  <1>1. \A q \in Payments : collected[q] # {} => collected'[q] # {}
    BY <1>0, CollectedGrows
  <1>2. ASSUME NEW p \in Payments, collected[p] # {} \/ Provider[p] \notin Online,
               \A q \in Payments \ {p} : payment'[q] = payment[q]
        PROVE  CollectedBeforeSettled'
    BY <1>0, <1>1, <1>2 DEF CollectedBeforeSettled
  <1>3. ASSUME NEW w \in Procs, SettleCommit(w) PROVE CollectedBeforeSettled'
    <2> DEFINE p == task[w].payment
    <2>1. p \in Payments /\ collected[p] # {}
      BY <1>0, <1>3, CommitSettles DEF SettleCommit, TasksBacked, Backed, Paying
    <2> QED BY <1>0, <1>2, <1>3, <2>1 DEF SettleCommit, TypeOK
  <1>4. ASSUME NEW w \in Procs, ApproveCommit(w) PROVE CollectedBeforeSettled'
    <2> DEFINE p == task[w].payment
    <2>1. p \in Payments /\ Provider[p] = "CARD"
      BY <1>0, <1>4, CommitSettles DEF ApproveCommit, RowsBacked
    <2> QED BY <1>0, <1>2, <1>4, <2>1 DEF ApproveCommit, TypeOK, Online
  <1>5. ASSUME NEW p \in Payments, SettleWalletOrder(p) PROVE CollectedBeforeSettled'
    BY <1>0, <1>2, <1>5 DEF SettleWalletOrder, TypeOK, Online
  <1>6. CASE Quiet
    BY <1>0, <1>1, <1>6 DEF Quiet, DecidedStay, CollectedBeforeSettled
  <1>7. ASSUME NEW p \in Payments, Files(p) PROVE CollectedBeforeSettled'
    <2>1. collected[p] # {}
      BY <1>0, <1>7 DEF Files, RecordDuplicateSuccess, TasksBacked, Backed, Paying
    <2> QED BY <1>0, <1>2, <1>7, <2>1 DEF Files, TypeOK
  <1> QED BY <1>3, <1>4, <1>5, <1>6, <1>7, StillSteps, MoneySteps

-----------------------------------------------------------------------------
(* The cases filed for the OWNER.                                          *)

(* An open checkout has no case: a claim meets none but the one it files.  *)
LEMMA OpenUnfiled ==
    ASSUME IInv, FileInv, NEW p \in Payments, Open(CheckoutOf[p])
    PROVE  review[p] = NoCase /\ checkout[CheckoutOf[p]].owner = NoPayment
  <1> USE ConstantsAssumption
  <1>1. checkout[CheckoutOf[p]].owner = NoPayment /\ ~Owns(p)
    BY DEF IInv, Inv, OwnedIsClosed, Open, Owns
  <1>2. review[p].type # "DUPLICATE_CHECKOUT_PAYMENT"
    BY DEF FileInv, ReviewOfLosers, IInv, Inv, FiledClosed
  <1>3. review[p].type # "SERVICE_USERNAME_UNBOUND"
    BY <1>1 DEF FileInv, ReviewOfLosers
  <1>4. review[p].type = "NONE"
    BY <1>2, <1>3 DEF IInv, Inv, TypeOK, CaseRow
  <1> QED BY <1>1, <1>4 DEF FileInv, CasesEmpty

(* A claim leaves the cases of its checkout true: there were none.         *)
LEMMA ClaimFiles ==
    ASSUME IInv, FileInv, NEW p \in Payments, Open(CheckoutOf[p]),
           checkout' = [checkout EXCEPT ![CheckoutOf[p]] = [status |-> "PAID", owner |-> p]],
           payment' = [payment EXCEPT ![p] = Approved(p)],
           \A q \in Payments \ {p} : review'[q] = review[q],
           review'[p] \in {review[p], [NoCase EXCEPT !.type = "SERVICE_USERNAME_UNBOUND"]}
    PROVE  FileInv'
  <1> USE ConstantsAssumption
  <1> DEFINE c == CheckoutOf[p]
  <1>0. TypeOK /\ CasesEmpty /\ ReviewOfLosers
    BY DEF IInv, Inv, FileInv
  <1>1. \A q \in Payments : CheckoutOf[q] = c =>
            review[q].type = "NONE" /\ payment[q].settlementStatus # "DUPLICATE_SUCCESS_REVIEW"
    BY <1>0, OpenUnfiled DEF NoCase, ReviewOfLosers
  <1>2. payment'[p].settlementStatus = "SETTLED" /\ \A q \in Payments \ {p} : payment'[q] = payment[q]
    BY <1>0 DEF TypeOK, Approved, PaymentRow
  <1>3. checkout'[c].owner = p /\ \A d \in Checkouts \ {c} : checkout'[d] = checkout[d]
    BY <1>0 DEF TypeOK
  <1>4. ASSUME NEW q \in Payments
        PROVE  /\ review'[q].type = "NONE" => review'[q] = NoCase
               /\ payment'[q].settlementStatus = "DUPLICATE_SUCCESS_REVIEW"
                      <=> review'[q].type = "DUPLICATE_CHECKOUT_PAYMENT"
               /\ review'[q].type = "DUPLICATE_CHECKOUT_PAYMENT" =>
                      /\ checkout'[CheckoutOf[q]].owner # q
                      /\ review'[q].primary = checkout'[CheckoutOf[q]].owner
               /\ review'[q].type = "SERVICE_USERNAME_UNBOUND" => checkout'[CheckoutOf[q]].owner = q
    <2>1. CASE q = p
      BY <1>0, <1>1, <1>2, <1>3, <2>1 DEF CasesEmpty, NoCase
    <2>2. CASE q # p /\ CheckoutOf[q] = c
      BY <1>0, <1>1, <1>2, <1>3, <2>2 DEF CasesEmpty
    <2>3. CASE q # p /\ CheckoutOf[q] # c
      <3>1. CheckoutOf[q] \in Checkouts \ {c}
        BY <2>3
      <3>2. review'[q] = review[q] /\ payment'[q] = payment[q] /\ checkout'[CheckoutOf[q]] = checkout[CheckoutOf[q]]
        BY <1>2, <1>3, <2>3, <3>1
      <3> QED BY <1>0, <3>2 DEF CasesEmpty, ReviewOfLosers, Owns
    <2> QED BY <2>1, <2>2, <2>3
  <1> QED BY <1>4 DEF FileInv, CasesEmpty, ReviewOfLosers, Owns

(* Every step keeps the cases true.                                        *)
LEMMA FileStep ==
    ASSUME IInv, TasksBacked, FileInv, [Next]_vars
    PROVE  FileInv'
  <1> USE ConstantsAssumption
  <1>0. TypeOK /\ CasesEmpty /\ ReviewOfLosers /\ SettledByOwner /\ FilingClosed
    BY DEF IInv, Inv, FileInv
  <1>1. ASSUME NEW w \in Procs, SettleCommit(w) PROVE FileInv'
    <2> DEFINE p == task[w].payment
    <2>1. p \in Payments /\ ~Owns(p) /\ Claimable(CheckoutOf[p]) /\ Open(CheckoutOf[p])
      BY <1>1, CommitSettles DEF Claimable, Open
    <2>2. /\ checkout' = [checkout EXCEPT ![CheckoutOf[p]] = [status |-> "PAID", owner |-> p]]
          /\ payment' = [payment EXCEPT ![p] = Approved(p)]
      BY <1>1, <2>1 DEF SettleCommit
    <2>3. /\ \A q \in Payments \ {p} : review'[q] = review[q]
          /\ review'[p] \in {review[p], [NoCase EXCEPT !.type = "SERVICE_USERNAME_UNBOUND"]}
      BY <1>0, <1>1, <2>1 DEF SettleCommit, TopUp, GatewayOrder, TypeOK
    <2> QED BY <2>1, <2>2, <2>3, ClaimFiles
  <1>2. ASSUME NEW w \in Procs, ApproveCommit(w) PROVE FileInv'
    <2> DEFINE p == task[w].payment
    <2>1. p \in Payments /\ Open(CheckoutOf[p])
      BY <1>2, CommitSettles DEF Claimable, Open
    <2>2. UNCHANGED review
      BY <1>2 DEF ApproveCommit, TopUp
    <2> QED BY <1>2, <2>1, <2>2, ClaimFiles DEF ApproveCommit
  <1>3. ASSUME NEW p \in Payments, SettleWalletOrder(p) PROVE FileInv'
    <2>1. Open(CheckoutOf[p]) /\ UNCHANGED review
      BY <1>3 DEF SettleWalletOrder, Claimable, Open
    <2> QED BY <1>3, <2>1, ClaimFiles DEF SettleWalletOrder
  <1>4. ASSUME Quiet,
               \A p \in Payments : /\ review'[p].type = review[p].type
                                   /\ review'[p].primary = review[p].primary
                                   /\ review'[p] = review[p] \/ review[p].type # "NONE"
        PROVE  FileInv'
    <2>1. \A p \in Payments : checkout'[CheckoutOf[p]].owner = checkout[CheckoutOf[p]].owner
      BY <1>4 DEF Quiet, OwnersStay
    <2>2. \A p \in Payments : payment'[p].settlementStatus = payment[p].settlementStatus
      BY <1>4 DEF Quiet, DecidedStay
    <2>3. CasesEmpty'
      BY <1>0, <1>4 DEF CasesEmpty
    <2>4. ReviewOfLosers'
      BY <1>0, <1>4, <2>1, <2>2 DEF ReviewOfLosers, Owns
    <2> QED BY <2>3, <2>4 DEF FileInv
  <1>5. ASSUME NEW p \in Payments, review[p].type # "NONE", NEW b \in BOOLEAN,
               review' = [review EXCEPT ![p].notified = b], Quiet
        PROVE  FileInv'
    <2>1. /\ review'[p].type = review[p].type /\ review'[p].primary = review[p].primary
          /\ \A q \in Payments \ {p} : review'[q] = review[q]
      BY <1>0, <1>5 DEF TypeOK, CaseRow
    <2> QED BY <1>4, <1>5, <2>1
  <1>6. ASSUME NEW w \in Procs, NotifyCase(w), Quiet PROVE FileInv'
    <2> DEFINE p == task[w].payment
    <2>1. p \in Payments /\ review[p].type # "NONE" /\ review[p].notified \in BOOLEAN
      BY <1>0, <1>6, Working DEF NotifyCase, TasksBacked, Backed, TypeOK, CaseRow
    <2>2. PICK sent \in BOOLEAN : review' = [review EXCEPT ![p].notified = @ \/ sent]
      BY <1>6 DEF NotifyCase
    <2>3. review' = [review EXCEPT ![p].notified = review[p].notified \/ sent]
      BY <1>0, <2>1, <2>2 DEF TypeOK
    <2> QED BY <1>5, <1>6, <2>1, <2>3
  <1>7. ASSUME NEW p \in Payments, SweepNotify(p), Quiet PROVE FileInv'
    BY <1>5, <1>7 DEF SweepNotify, AlertOwed
  <1>8. ASSUME NEW w \in Procs, RecordDuplicateSuccess(w) PROVE FileInv'
    <2> DEFINE p == task[w].payment
               c == CheckoutOf[p]
               o == task[w].owner
    <2>1. /\ p \in Payments /\ c \in Checkouts /\ payment[p] \in PaymentRow
          /\ ~Owns(p) /\ o = checkout[c].owner
      BY <1>0, <1>8, Working DEF RecordDuplicateSuccess, FilingClosed, TasksBacked, Backed
    <2>2. UNCHANGED checkout
      BY <1>8 DEF RecordDuplicateSuccess
    <2>3. payment[p].settlementStatus # "SETTLED" /\ review[p].type # "SERVICE_USERNAME_UNBOUND"
      BY <1>0, <2>1 DEF SettledByOwner, Settled, ReviewOfLosers
    <2>a. review[p] \in CaseRow /\ (review[p].type = "NONE" => review[p] = NoCase)
      BY <1>0, <2>1 DEF CasesEmpty, TypeOK
    <2>b. review[p] = NoCase => review[p].type = "NONE"
      BY DEF NoCase
    <2>4. /\ review[p].type = "NONE" <=> review[p] = NoCase
          /\ review[p].type \in {"NONE", "DUPLICATE_CHECKOUT_PAYMENT"}
      BY <2>a, <2>b, <2>3 DEF CaseRow
    <2>5. payment[p].settlementStatus = "UNSETTLED" <=> review[p] = NoCase
      BY <1>0, <2>1, <2>3, <2>4 DEF ReviewOfLosers, PaymentRow
    <2>6. /\ \A q \in Payments \ {p} : payment'[q] = payment[q] /\ review'[q] = review[q]
          /\ payment'[p].settlementStatus = "DUPLICATE_SUCCESS_REVIEW"
          /\ review'[p].type = "DUPLICATE_CHECKOUT_PAYMENT" /\ review'[p].primary = checkout[c].owner
      <3>1. CASE review[p] = NoCase
        BY <1>0, <1>8, <2>1, <2>5, <3>1 DEF RecordDuplicateSuccess, TypeOK, PaymentRow, NoCase
      <3>2. CASE review[p] # NoCase
        BY <1>0, <1>8, <2>1, <2>3, <2>4, <2>5, <3>2
        DEF RecordDuplicateSuccess, TypeOK, PaymentRow, ReviewOfLosers
      <3> QED BY <3>1, <3>2
    <2>7. CasesEmpty'
      BY <1>0, <2>6 DEF CasesEmpty
    <2>8. ReviewOfLosers'
      BY <1>0, <2>1, <2>2, <2>6 DEF ReviewOfLosers, Owns
    <2> QED BY <2>7, <2>8 DEF FileInv
  <1>9. CASE Quiet /\ UNCHANGED review
    BY <1>4, <1>9
  <1>10. \/ Quiet
         \/ \E w \in Procs : RecordDuplicateSuccess(w) \/ SettleCommit(w) \/ ApproveCommit(w)
         \/ \E p \in Payments : SettleWalletOrder(p)
    <2>1. CASE UNCHANGED <<order, ledger>>
      <3>1. Quiet \/ \E p \in Payments : Files(p)
        BY <2>1, StillSteps
      <3> QED BY <3>1 DEF Files
    <2>2. CASE UNCHANGED <<order, balance, ledger, redeemed, flagged>>
      BY <2>1, <2>2
    <2> QED BY <2>2, MoneySteps
  <1> QED BY <1>1, <1>2, <1>3, <1>6, <1>7, <1>8, <1>9, <1>10, CaseSteps

-----------------------------------------------------------------------------
(* The reservations of paid orders.                                        *)

(* A new order takes the bound reservation of its checkout, or its         *)
(* settlement files the case.                                              *)
LEMMA OrderHeld ==
    ASSUME IInv, FileInv, HeldInv, [Next]_vars, NEW p \in Payments, order[CheckoutOf[p]] = NoPayment,
           order' = [order EXCEPT ![CheckoutOf[p]] = p],
           \A d \in Checkouts \ {CheckoutOf[p]} : reservation'[d] = reservation[d],
           CheckoutOf[p] \in Reserved =>
               reservation'[CheckoutOf[p]] = "LINKED" \/ review'[p].type = "SERVICE_USERNAME_UNBOUND"
    PROVE  HeldInv'
  <1> USE ConstantsAssumption
  <1> DEFINE c == CheckoutOf[p]
  <1>0. TypeOK /\ LinkedOrdered /\ UnboundHeld /\ CasesEmpty
    BY DEF IInv, Inv, FileInv, HeldInv
  <1>1. order'[c] = p /\ \A d \in Checkouts \ {c} : order'[d] = order[d]
    BY <1>0 DEF TypeOK
  <1>2. LinkedOrdered'
    BY <1>0, <1>1 DEF LinkedOrdered
  <1>3. ASSUME NEW d \in Reserved, d # c, order[d] # NoPayment
        PROVE  reservation'[d] = "LINKED" \/ review'[order[d]].type = "SERVICE_USERNAME_UNBOUND"
    <2>1. d \in Checkouts \ {c} /\ order[d] \in Payments
      BY <1>0, <1>3 DEF TypeOK, PaymentRef
    <2> QED BY <1>0, <1>3, <2>1, CasesStay DEF UnboundHeld
  <1>4. UnboundHeld'
    BY <1>1, <1>3 DEF UnboundHeld
  <1> QED BY <1>2, <1>4 DEF HeldInv

(* Every step keeps paid orders bound or held.                             *)
LEMMA HeldStep ==
    ASSUME IInv, FileInv, HeldInv, [Next]_vars
    PROVE  HeldInv'
  <1> USE ConstantsAssumption
  <1>0. TypeOK /\ LinkedOrdered /\ UnboundHeld /\ CasesEmpty /\ OwnedIsClosed /\ MoneyFollowsOwner
    BY DEF IInv, Inv, FileInv, HeldInv
  <1>1. ASSUME UNCHANGED order, NEW e \in Checkouts,
               \A c \in Checkouts \ {e} : reservation'[c] = reservation[c],
               reservation'[e] = reservation[e] \/ (order[e] = NoPayment /\ reservation'[e] # "LINKED")
        PROVE  HeldInv'
    <2>1. LinkedOrdered'
      <3>1. ASSUME NEW c \in Checkouts, reservation'[c] = "LINKED" PROVE order[c] # NoPayment
        BY <1>0, <1>1, <3>1 DEF LinkedOrdered
      <3> QED BY <1>1, <3>1 DEF LinkedOrdered
    <2>2. ASSUME NEW c \in Reserved, order[c] # NoPayment
          PROVE  reservation'[c] = "LINKED" \/ review'[order[c]].type = "SERVICE_USERNAME_UNBOUND"
      <3>1. order[c] \in Payments /\ c \in Checkouts
        BY <1>0, <2>2 DEF TypeOK, PaymentRef
      <3>2. reservation'[c] = reservation[c]
        BY <1>1, <2>2, <3>1
      <3>3. reservation[c] = "LINKED" \/ review[order[c]].type = "SERVICE_USERNAME_UNBOUND"
        BY <1>0, <2>2 DEF UnboundHeld
      <3> QED BY <1>0, <3>1, <3>2, <3>3, CasesStay
    <2>3. UnboundHeld'
      BY <1>1, <2>2 DEF UnboundHeld
    <2> QED BY <2>1, <2>3 DEF HeldInv
  <1>2. ASSUME NEW c \in Checkouts, CreateCheckout(c) PROVE HeldInv'
    <2>1. order[c] = NoPayment
      BY <1>0, <1>2 DEF CreateCheckout, Supersede, OwnedIsClosed, MoneyFollowsOwner
    <2>2. /\ reservation'[c] # "LINKED" /\ UNCHANGED order
          /\ \A d \in Checkouts \ {c} : reservation'[d] = reservation[d]
      BY <1>0, <1>2 DEF CreateCheckout, TypeOK
    <2> QED BY <1>1, <2>1, <2>2
  <1>3. ASSUME NEW c \in Checkouts, ExpireReservation(c) PROVE HeldInv'
    <2>1. order[c] = NoPayment /\ UNCHANGED order
      BY <1>3 DEF ExpireReservation, Unused
    <2>2. reservation'[c] # "LINKED" /\ \A d \in Checkouts \ {c} : reservation'[d] = reservation[d]
      BY <1>0, <1>3 DEF ExpireReservation, TypeOK
    <2> QED BY <1>1, <2>1, <2>2
  <1>4. ASSUME NEW w \in Procs, SettleCommit(w) PROVE HeldInv'
    <2> DEFINE p == task[w].payment
               c == CheckoutOf[p]
    <2>1. p \in Payments /\ c \in Checkouts /\ order[c] = NoPayment /\ Open(c)
      BY <1>4, CommitSettles DEF Claimable, Open
    <2>2. CASE IsTopUp(p)
      BY <1>1, <1>4, <2>1, <2>2 DEF SettleCommit, TopUp
    <2>3. CASE ~IsTopUp(p)
      <3>1. review[p] = NoCase
        BY <2>1, OpenUnfiled
      <3>2. /\ order' = [order EXCEPT ![c] = p]
            /\ reservation' = [reservation EXCEPT ![c] =
                   IF reservation[c] = "BOUND" THEN "LINKED" ELSE reservation[c]]
            /\ ~Bindable(c) => review'[p].type = "SERVICE_USERNAME_UNBOUND"
        BY <1>0, <1>4, <2>1, <2>3, <3>1 DEF SettleCommit, GatewayOrder, CreateOrder, TypeOK, NoCase
      <3>3. c \in Reserved =>
                reservation'[c] = "LINKED" \/ review'[p].type = "SERVICE_USERNAME_UNBOUND"
        BY <1>0, <2>1, <3>2 DEF Bindable, TypeOK
      <3> QED BY <1>0, <2>1, <3>2, <3>3, OrderHeld DEF TypeOK
    <2> QED BY <2>2, <2>3
  <1>5. ASSUME NEW w \in Procs, ApproveCommit(w) PROVE HeldInv'
    <2> DEFINE p == task[w].payment
               c == CheckoutOf[p]
    <2>1. p \in Payments /\ c \in Checkouts /\ order[c] = NoPayment
      BY <1>5, CommitSettles
    <2>2. CASE IsTopUp(p)
      BY <1>1, <1>5, <2>1, <2>2 DEF ApproveCommit, TopUp
    <2>3. CASE ~IsTopUp(p)
      <3>1. /\ order' = [order EXCEPT ![c] = p] /\ Bindable(c)
            /\ reservation' = [reservation EXCEPT ![c] =
                   IF reservation[c] = "BOUND" THEN "LINKED" ELSE reservation[c]]
        BY <1>0, <1>5, <2>1, <2>3 DEF ApproveCommit, CreateOrder, TypeOK
      <3>2. c \in Reserved => reservation'[c] = "LINKED"
        BY <1>0, <2>1, <3>1 DEF Bindable, TypeOK
      <3> QED BY <1>0, <2>1, <3>1, <3>2, OrderHeld DEF TypeOK
    <2> QED BY <2>2, <2>3
  <1>6. ASSUME NEW p \in Payments, SettleWalletOrder(p) PROVE HeldInv'
    <2> DEFINE c == CheckoutOf[p]
    <2>1. order[c] = NoPayment /\ c \in Checkouts
      BY <1>0, <1>6 DEF SettleWalletOrder, Claimable, OwnedIsClosed, MoneyFollowsOwner
    <2>2. /\ order' = [order EXCEPT ![c] = p]
          /\ reservation' = [reservation EXCEPT ![c] = IF c \in Reserved THEN "LINKED" ELSE reservation[c]]
      BY <1>0, <1>6, <2>1 DEF SettleWalletOrder, TypeOK
    <2>3. c \in Reserved => reservation'[c] = "LINKED"
      BY <1>0, <2>1, <2>2 DEF TypeOK
    <2> QED BY <1>0, <2>1, <2>2, <2>3, OrderHeld DEF TypeOK
  <1>7. CASE UNCHANGED <<order, reservation>>
    <2>1. LinkedOrdered'
      BY <1>0, <1>7 DEF LinkedOrdered
    <2>2. ASSUME NEW c \in Reserved, order[c] # NoPayment
          PROVE  reservation[c] = "LINKED" \/ review'[order[c]].type = "SERVICE_USERNAME_UNBOUND"
      <3>1. order[c] \in Payments
        BY <1>0, <2>2 DEF TypeOK, PaymentRef
      <3>2. reservation[c] = "LINKED" \/ review[order[c]].type = "SERVICE_USERNAME_UNBOUND"
        BY <1>0, <2>2 DEF UnboundHeld
      <3> QED BY <1>0, <3>1, <3>2, CasesStay
    <2>3. UnboundHeld'
      BY <1>7, <2>2 DEF UnboundHeld
    <2> QED BY <2>1, <2>3 DEF HeldInv
  <1>8. ASSUME NEW c \in Checkouts, CreateCheckout(c) \/ ExpireReservation(c) PROVE UNCHANGED order
    BY <1>8 DEF CreateCheckout, ExpireReservation
  <1> QED BY <1>2, <1>3, <1>4, <1>5, <1>6, <1>7, <1>8, ReservationSteps, MoneySteps

-----------------------------------------------------------------------------
(* The discount code.                                                      *)

(* The row lock of the code: a use is added below the limit only.          *)
LEMMA RedeemWithinLimit ==
    ASSUME IsFiniteSet(redeemed), Cardinality(redeemed) <= DiscountLimit, NEW c, RedeemDiscount(c)
    PROVE  IsFiniteSet(redeemed') /\ Cardinality(redeemed') <= DiscountLimit
  <1>1. CASE redeemed' = redeemed
    BY <1>1
  <1>2. CASE redeemed' # redeemed
    <2>1. redeemed' = redeemed \cup {c} /\ c \notin redeemed /\ Cardinality(redeemed) < DiscountLimit
      BY <1>2 DEF RedeemDiscount, DiscountClaimable
    <2>2. IsFiniteSet(redeemed') /\ Cardinality(redeemed') = Cardinality(redeemed) + 1
      BY <2>1, FS_AddElement
    <2> QED BY <2>1, <2>2, FS_CardinalityType, ConstantsAssumption
  <1> QED BY <1>1, <1>2

(* A new order of a discounted checkout counts as a use or is flagged.     *)
LEMMA OrderDiscounted ==
    ASSUME IInv, DiscountInv, NEW p \in Payments, order[CheckoutOf[p]] = NoPayment,
           order' = [order EXCEPT ![CheckoutOf[p]] = p], RedeemDiscount(CheckoutOf[p]),
           \/ DiscountClaimable(CheckoutOf[p]) /\ flagged' = flagged
           \/ /\ ~DiscountClaimable(CheckoutOf[p]) /\ Provider[p] \in Online
              /\ flagged' = flagged \cup {CheckoutOf[p]}
    PROVE  DiscountInv'
  <1> USE ConstantsAssumption
  <1> DEFINE c == CheckoutOf[p]
  <1>0. TypeOK /\ IsFiniteSet(redeemed) /\ NotesOrdered /\ DiscountAccounted /\ c \in Checkouts
    BY DEF IInv, Inv, DiscountInv
  <1>1. order'[c] = p /\ \A d \in Checkouts \ {c} : order'[d] = order[d]
    BY <1>0 DEF TypeOK
  <1>2. IsFiniteSet(redeemed') /\ Cardinality(redeemed') <= DiscountLimit
    BY <1>0, RedeemWithinLimit DEF DiscountAccounted
  <1>3. c \notin flagged /\ (c \in Discounted => c \notin redeemed)
    BY <1>0 DEF NotesOrdered, DiscountAccounted, Gateway
  <1>4. NotesOrdered'
    <2>1. \A d \in flagged : d \in Checkouts \ {c} /\ order[d] \in Gateway
      BY <1>0, <1>3 DEF NotesOrdered, TypeOK
    <2>2. \A d \in flagged' : order'[d] \in Gateway
      BY <1>1, <2>1 DEF Gateway
    <2> QED BY <2>2 DEF NotesOrdered, Gateway
  <1>5. \A d \in Discounted : /\ d # c => (d \in redeemed' <=> d \in redeemed) /\ (d \in flagged' <=> d \in flagged)
                              /\ d = c => (d \in redeemed' <=> d \notin flagged')
    BY <1>3 DEF RedeemDiscount
  <1>6. ASSUME NEW d \in Discounted
        PROVE  /\ order'[d] # NoPayment => (d \in redeemed' <=> d \notin flagged')
               /\ d \in flagged' => Provider[order'[d]] \in Online
               /\ d \in redeemed' => order'[d] # NoPayment
    <2>1. CASE d = c
      BY <1>1, <1>5, <1>3, <2>1
    <2>2. CASE d # c
      BY <1>0, <1>1, <1>5, <2>2 DEF DiscountAccounted
    <2> QED BY <2>1, <2>2
  <1> QED BY <1>2, <1>4, <1>6 DEF DiscountInv, DiscountAccounted

(* Every step keeps the account of the discount code.                      *)
LEMMA DiscountStep ==
    ASSUME IInv, TasksBacked, DiscountInv, [Next]_vars
    PROVE  DiscountInv'
  <1> USE ConstantsAssumption
  <1>0. TypeOK /\ MoneyFollowsOwner /\ OwnedIsClosed
    BY DEF IInv, Inv
  <1>1. ASSUME UNCHANGED <<order, redeemed, flagged>> PROVE DiscountInv'
    BY <1>1 DEF DiscountInv, NotesOrdered, DiscountAccounted
  <1>2. ASSUME NEW w \in Procs, SettleCommit(w) PROVE DiscountInv'
    <2> DEFINE p == task[w].payment
               c == CheckoutOf[p]
    <2>1. p \in Payments /\ c \in Checkouts /\ order[c] = NoPayment /\ Provider[p] \in Online
      BY <1>2, CommitSettles DEF SettleCommit, TasksBacked, Backed, Paying, Gateway
    <2>2. CASE IsTopUp(p)
      BY <1>1, <1>2, <2>2 DEF SettleCommit, TopUp
    <2>3. CASE ~IsTopUp(p)
      <3>1. order' = [order EXCEPT ![c] = p]
        BY <1>0, <1>2, <2>1, <2>3 DEF SettleCommit, GatewayOrder, CreateOrder, TypeOK
      <3> QED BY <1>2, <2>1, <2>3, <3>1, OrderDiscounted DEF SettleCommit, GatewayOrder
    <2> QED BY <2>2, <2>3
  <1>3. ASSUME NEW w \in Procs, ApproveCommit(w) PROVE DiscountInv'
    <2> DEFINE p == task[w].payment
               c == CheckoutOf[p]
    <2>1. p \in Payments /\ c \in Checkouts /\ order[c] = NoPayment
      BY <1>3, CommitSettles
    <2>2. CASE IsTopUp(p)
      BY <1>1, <1>3, <2>2 DEF ApproveCommit, TopUp
    <2>3. CASE ~IsTopUp(p)
      <3>1. order' = [order EXCEPT ![c] = p]
        BY <1>0, <1>3, <2>1, <2>3 DEF ApproveCommit, CreateOrder, TypeOK
      <3> QED BY <1>3, <2>1, <2>3, <3>1, OrderDiscounted DEF ApproveCommit
    <2> QED BY <2>2, <2>3
  <1>4. ASSUME NEW p \in Payments, SettleWalletOrder(p) PROVE DiscountInv'
    <2>1. order[CheckoutOf[p]] = NoPayment
      BY <1>0, <1>4 DEF SettleWalletOrder, Claimable, OwnedIsClosed, MoneyFollowsOwner
    <2> QED BY <1>4, <2>1, OrderDiscounted DEF SettleWalletOrder
  <1> QED BY <1>1, <1>2, <1>3, <1>4, MoneySteps

-----------------------------------------------------------------------------
(* The four invariants together.                                           *)
BooksInv == IInv /\ PaidInv /\ FileInv /\ HeldInv /\ DiscountInv

(* The books are empty at the start, and every step keeps them.            *)
LEMMA InitBooks == Init => BooksInv
  <1> USE ConstantsAssumption
  <1> SUFFICES ASSUME Init PROVE BooksInv
    OBVIOUS
  <1>1. IInv
    BY InitInv
  <1>2. PaidInv
    BY DEF Init, PaidInv, TasksBacked, Backed, Paying, RequestsBacked, RowsBacked, BatchOnline,
           CollectedBeforeSettled, IdleTask, IdleRequest, NoRow
  <1>3. FileInv
    BY DEF Init, FileInv, CasesEmpty, ReviewOfLosers, NoCase, NoRow
  <1>4. HeldInv
    BY DEF Init, HeldInv, LinkedOrdered, UnboundHeld
  <1>5. DiscountInv
    BY FS_EmptySet DEF Init, DiscountInv, NotesOrdered, DiscountAccounted
  <1> QED BY <1>1, <1>2, <1>3, <1>4, <1>5 DEF BooksInv

(* Each part is kept by a step that starts from all of them.               *)
LEMMA BooksStep == BooksInv /\ [Next]_vars => BooksInv'
  <1> SUFFICES ASSUME BooksInv, [Next]_vars PROVE BooksInv'
    OBVIOUS
  <1>0. /\ IInv /\ PaidInv /\ FileInv /\ HeldInv /\ DiscountInv
        /\ TypeOK /\ TasksBacked /\ RequestsBacked /\ RowsBacked /\ BatchOnline
    BY DEF BooksInv, PaidInv, IInv, Inv
  <1>1. PaidInv'
    BY <1>0, TasksBackedStep, RequestsBackedStep, RowsBackedStep, BatchStep, CollectedStep DEF PaidInv
  <1> QED BY <1>0, <1>1, InductiveStep, FileStep, HeldStep, DiscountStep DEF BooksInv

(* So they hold in every state.                                            *)
LEMMA BooksHold == Spec => []BooksInv
  BY InitBooks, BooksStep, PTL DEF Spec

(* settleGatewayPayment settles, and recordDuplicateSuccess files, a       *)
(* gateway payment only when the provider holds the buyer's money, for     *)
(* any number of requests, handlers, invoices and crashes.                 *)
THEOREM MoneyBeforeService == Spec => []CollectedBeforeSettled
  BY BooksHold, PTL DEF BooksInv, PaidInv

(* recordDuplicateSuccess: marker and case go together, a case names the   *)
(* payment that won, and no owner is filed as its own duplicate.           *)
THEOREM LosersFiled == Spec => []ReviewOfLosers
  BY BooksHold, PTL DEF BooksInv, FileInv

(* bindSettledReservationFromSnapshot: the order of a reserved checkout    *)
(* holds its username or is held by a case of its own payment.             *)
THEOREM UnboundOrdersHeld == Spec => []UnboundHeld
  BY BooksHold, PTL DEF BooksInv, HeldInv

(* claimDiscountUsage: the code is never used beyond its limit, and every  *)
(* discounted order is a use or carries the note for manual review.        *)
THEOREM DiscountWithinLimit == Spec => []DiscountAccounted
  BY BooksHold, PTL DEF BooksInv, DiscountInv

(* expireDeadBound never frees the username of a paid order: a linked      *)
(* reservation belongs to an order, and no order is ever taken back.       *)
THEOREM LinkNeverExpires == Spec => LinkedIsKept
  <1> USE ConstantsAssumption
  <1>1. ASSUME BooksInv, [Next]_vars, NEW c \in Checkouts, reservation[c] = "LINKED"
        PROVE  reservation'[c] = "LINKED"
    <2>0. /\ TypeOK /\ LinkedOrdered /\ OwnedIsClosed /\ MoneyFollowsOwner
          /\ order[c] # NoPayment
      BY <1>1 DEF BooksInv, IInv, Inv, HeldInv, LinkedOrdered
    <2>1. ASSUME NEW d \in Checkouts, CreateCheckout(d) PROVE reservation'[c] = "LINKED"
      <3>1. order[d] = NoPayment
        BY <2>0, <2>1 DEF CreateCheckout, Supersede, OwnedIsClosed, MoneyFollowsOwner
      <3> QED BY <1>1, <2>0, <2>1, <3>1 DEF CreateCheckout, TypeOK
    <2>2. ASSUME NEW d \in Checkouts, ExpireReservation(d) PROVE reservation'[c] = "LINKED"
      BY <1>1, <2>0, <2>2 DEF ExpireReservation, Unused, TypeOK
    <2>3. ASSUME NEW w \in Procs, SettleCommit(w) \/ ApproveCommit(w) PROVE reservation'[c] = "LINKED"
      <3>1. CheckoutOf[task[w].payment] \in Checkouts
        BY <1>1, <2>3, CommitSettles DEF BooksInv
      <3> QED BY <1>1, <2>0, <2>3, <3>1 DEF SettleCommit, ApproveCommit, TopUp, GatewayOrder, CreateOrder, TypeOK
    <2>4. ASSUME NEW p \in Payments, SettleWalletOrder(p) PROVE reservation'[c] = "LINKED"
      BY <1>1, <2>0, <2>4 DEF SettleWalletOrder, TypeOK
    <2> QED BY <1>1, <2>1, <2>2, <2>3, <2>4, ReservationSteps
  <1>2. BooksInv /\ [Next]_vars =>
            [\A c \in Checkouts : reservation[c] = "LINKED" => reservation'[c] = "LINKED"]_vars
    BY <1>1
  <1> QED BY <1>2, BooksHold, PTL DEF Spec, LinkedIsKept

-----------------------------------------------------------------------------
(* Sums over a finite set of payments.  The fold of the library is one     *)
(* recursive function on the subsets; that it exists, and what it returns, *)
(* follows from a smallest counterexample.                                 *)

(* Of some subsets of a finite set one has none below it.                  *)
LEMMA Smallest ==
    ASSUME NEW S, IsFiniteSet(S), NEW T \in SUBSET SUBSET S, T # {}
    PROVE  \E s \in T : \A x \in s : s \ {x} \notin T
  <1>1. IsWellFoundedOn(StrictSubsetOrdering(S), SUBSET S)
    BY FS_StrictSubsetOrderingWellFounded, FS_FiniteSubsetsOfFinite
  <1>2. PICK s \in T : \A r \in T : <<r, s>> \notin StrictSubsetOrdering(S)
    BY <1>1, WFMin
  <1>3. ASSUME NEW x \in s, s \ {x} \in T PROVE FALSE
    BY <1>2, <1>3 DEF StrictSubsetOrdering
  <1> QED BY <1>2, <1>3

(* Of some numbers one is the least.                                       *)
LEMMA LeastNumber ==
    ASSUME NEW T \in SUBSET Nat, T # {}
    PROVE  \E n \in T : n = 0 \/ n - 1 \notin T
  <1>1. PICK n \in T : \A m \in T : <<m, n>> \notin OpToRel(<, Nat)
    BY NatLessThanWellFounded, WFMin
  <1>2. \A m \in T : ~(m < n)
    BY <1>1 DEF OpToRel
  <1> QED BY <1>2

(* How the fold takes its next term. *)
Pick(s) == CHOOSE x \in s : TRUE
Summand(f, g, s) == IF s = {} THEN 0 ELSE f[Pick(s)] + g[s \ {Pick(s)}]

(* The sums of all subsets exist.                                          *)
LEMMA SumTable ==
    ASSUME NEW S, IsFiniteSet(S), NEW f
    PROVE  \E g : g = [s \in SUBSET S |-> Summand(f, g, s)]
  <1> DEFINE Small(n) == {s \in SUBSET S : Cardinality(s) <= n}
             Table(n, g) == g = [s \in Small(n) |-> Summand(f, g, s)]
             Missing == {n \in Nat : ~\E g : Table(n, g)}
  <1>1. \A s \in SUBSET S : /\ IsFiniteSet(s) /\ Cardinality(s) \in Nat
                            /\ (s = {} <=> Cardinality(s) = 0)
    BY FS_Subset, FS_CardinalityType, FS_EmptySet
  <1>2. \A s \in SUBSET S : s # {} => /\ Pick(s) \in s /\ s \ {Pick(s)} \in SUBSET S
                                      /\ Cardinality(s \ {Pick(s)}) = Cardinality(s) - 1
    BY <1>1, FS_RemoveElement DEF Pick
  <1>3. Table(0, [s \in Small(0) |-> 0])
    <2>1. \A s \in Small(0) : s = {}
      BY <1>1
    <2> QED BY <2>1 DEF Summand
  <1>4. ASSUME NEW n \in Nat, NEW g, Table(n, g) PROVE \E h : Table(n + 1, h)
    <2> DEFINE h == [s \in Small(n + 1) |-> Summand(f, g, s)]
    <2>1. ASSUME NEW s \in Small(n + 1) PROVE Summand(f, g, s) = Summand(f, h, s)
      <3>1. CASE s = {}
        BY <3>1 DEF Summand
      <3>2. CASE s # {}
        <4> DEFINE r == s \ {Pick(s)}
        <4>1. r \in Small(n) /\ r \in Small(n + 1)
          BY <1>1, <1>2, <3>2
        <4>2. g[r] = Summand(f, g, r) /\ h[r] = Summand(f, g, r)
          BY <1>4, <4>1
        <4> QED BY <4>2 DEF Summand
      <3> QED BY <3>1, <3>2
    <2>2. Table(n + 1, h)
      BY <2>1
    <2> QED BY <2>2
  <1> HIDE DEF Table
  <1>5. Missing = {}
    <2>1. SUFFICES ASSUME Missing # {} PROVE FALSE
      OBVIOUS
    <2>2. PICK n \in Missing : n = 0 \/ n - 1 \notin Missing
      BY <2>1, LeastNumber
    <2>3. n \in Nat /\ n # 0 /\ n - 1 \in Nat
      BY <1>3, <2>2
    <2>4. PICK g : Table(n - 1, g)
      BY <2>2, <2>3
    <2>5. \E h : Table(n - 1 + 1, h)
      BY <1>4, <2>3, <2>4
    <2> QED BY <2>2, <2>3, <2>5
  <1>6. Cardinality(S) \in Nat
    BY FS_CardinalityType
  <1>7. PICK g : Table(Cardinality(S), g)
    BY <1>5, <1>6
  <1>8. Small(Cardinality(S)) = SUBSET S
    BY FS_Subset
  <1> QED BY <1>7, <1>8 DEF Table

(* A sum is read off such a table.                                         *)
LEMMA SumRead ==
    ASSUME NEW S, IsFiniteSet(S), NEW f
    PROVE  \E g : /\ \A s \in SUBSET S : g[s] = Summand(f, g, s)
                  /\ SumFunctionOnSet(f, S) = g[S]
  <1> DEFINE g == CHOOSE h : h = [s \in SUBSET S |-> Summand(f, h, s)]
  <1>1. g = [s \in SUBSET S |-> Summand(f, g, s)]
    BY SumTable
  <1>2. SumFunctionOnSet(f, S) = g[S]
    BY DEF SumFunctionOnSet, FoldFunctionOnSet, MapThenFoldSet, Summand, Pick
  <1> HIDE DEF g
  <1>3. \A s \in SUBSET S : g[s] = Summand(f, g, s)
    BY <1>1
  <1> QED BY <1>2, <1>3

(* Nothing adds up to nothing.                                             *)
LEMMA SumOfZeros ==
    ASSUME NEW S, IsFiniteSet(S), NEW f, \A x \in S : f[x] = 0
    PROVE  SumFunctionOnSet(f, S) = 0
  <1>1. PICK g : /\ \A s \in SUBSET S : g[s] = Summand(f, g, s)
                 /\ SumFunctionOnSet(f, S) = g[S]
    BY SumRead
  <1> DEFINE Wrong == {s \in SUBSET S : g[s] # 0}
  <1>2. Wrong = {}
    <2>1. SUFFICES ASSUME Wrong # {} PROVE FALSE
      OBVIOUS
    <2>2. PICK s \in Wrong : \A x \in s : s \ {x} \notin Wrong
      BY <2>1, Smallest
    <2>3. s # {}
      BY <1>1 DEF Summand
    <2>4. Pick(s) \in s /\ g[s \ {Pick(s)}] = 0
      BY <2>2, <2>3 DEF Pick
    <2> QED BY <1>1, <2>3, <2>4 DEF Summand
  <1> QED BY <1>1, <1>2

(* A sum moves by what one of its terms moves.                             *)
OneTermMoves(f, h, z, d, S) ==
    /\ IsFiniteSet(S) /\ d \in Int
    /\ \A x \in S : f[x] \in Int /\ h[x] = f[x] + (IF x = z THEN d ELSE 0)

LEMMA SumMoves ==
    ASSUME NEW S, NEW f, NEW h, NEW z, NEW d, OneTermMoves(f, h, z, d, S)
    PROVE  /\ SumFunctionOnSet(f, S) \in Int
           /\ SumFunctionOnSet(h, S) = SumFunctionOnSet(f, S) + (IF z \in S THEN d ELSE 0)
  <1>0. /\ IsFiniteSet(S) /\ d \in Int
        /\ \A x \in S : f[x] \in Int /\ h[x] = f[x] + (IF x = z THEN d ELSE 0)
    BY DEF OneTermMoves
  <1>1. PICK g : /\ \A s \in SUBSET S : g[s] = Summand(f, g, s)
                 /\ SumFunctionOnSet(f, S) = g[S]
    BY <1>0, SumRead
  <1>2. PICK k : /\ \A s \in SUBSET S : k[s] = Summand(h, k, s)
                 /\ SumFunctionOnSet(h, S) = k[S]
    BY <1>0, SumRead
  <1> DEFINE Right(s) == g[s] \in Int /\ k[s] = g[s] + (IF z \in s THEN d ELSE 0)
             Wrong == {s \in SUBSET S : ~Right(s)}
  <1>3. Wrong = {}
    <2>1. SUFFICES ASSUME Wrong # {} PROVE FALSE
      OBVIOUS
    <2>2. PICK s \in Wrong : \A x \in s : s \ {x} \notin Wrong
      BY <1>0, <2>1, Smallest
    <2>3. s # {}
      <3>1. g[{}] = 0 /\ k[{}] = 0
        BY <1>1, <1>2 DEF Summand
      <3>2. Right({})
        BY <3>1
      <3> QED BY <2>2, <3>2
    <2> DEFINE x == Pick(s)
               r == s \ {x}
    <2>4. x \in s /\ x \in S /\ Right(r)
      BY <2>2, <2>3 DEF Pick
    <2>5. g[s] = f[x] + g[r] /\ k[s] = h[x] + k[r]
      BY <1>1, <1>2, <2>3 DEF Summand
    <2> HIDE DEF x
    <2>6. (z \in r <=> z \in s /\ z # x) /\ f[x] \in Int /\ h[x] = f[x] + (IF x = z THEN d ELSE 0)
      BY <1>0, <2>4
    <2>7. g[s] \in Int
      BY <1>0, <2>4, <2>5, <2>6
    <2>8. k[s] = g[s] + (IF z \in s THEN d ELSE 0)
      BY <1>0, <2>4, <2>5, <2>6
    <2> QED BY <2>7, <2>8
  <1> QED BY <1>1, <1>2, <1>3

-----------------------------------------------------------------------------
(* The wallet.                                                             *)

(* A ledger row and the balance of its buyer move together.                *)
LEMMA BothMove ==
    ASSUME TypeOK, LedgerExplainsBalance, NEW p \in Payments, ledger[p] = 0, NEW d \in Int,
           d = (IF IsTopUp(p) THEN Price[CheckoutOf[p]] ELSE -Price[CheckoutOf[p]]),
           ledger' = [ledger EXCEPT ![p] = 1],
           balance' = [balance EXCEPT ![Buyer[CheckoutOf[p]]] = balance[Buyer[CheckoutOf[p]]] + d]
    PROVE  LedgerExplainsBalance'
  <1> USE ConstantsAssumption
  <1>a. \A q \in Payments : Price[CheckoutOf[q]] \in Nat /\ Buyer[CheckoutOf[q]] \in Users
    OBVIOUS
  <1>b. \A q \in Payments : ledger[q] \in {0, 1} /\ ledger'[q] = IF q = p THEN 1 ELSE ledger[q]
    BY DEF TypeOK
  <1>c. \A u \in Users : balance'[u] = balance[u] + (IF u = Buyer[CheckoutOf[p]] THEN d ELSE 0)
    BY DEF TypeOK
  <1>1. /\ \A q \in Payments : Price[CheckoutOf[q]] \in Nat /\ Buyer[CheckoutOf[q]] \in Users
        /\ \A q \in Payments : ledger[q] \in {0, 1} /\ ledger'[q] = IF q = p THEN 1 ELSE ledger[q]
        /\ \A u \in Users : balance'[u] = balance[u] + (IF u = Buyer[CheckoutOf[p]] THEN d ELSE 0)
    BY <1>a, <1>b, <1>c
  <1>2. \A q \in Payments : Moved[q] \in Int
    <2>1. ASSUME NEW q \in Payments, NEW k \in Nat, k = Price[CheckoutOf[q]]
          PROVE  Moved[q] \in Int
      <3>1. CASE ledger[q] = 0
        BY <2>1, <3>1 DEF Moved
      <3>2. CASE ledger[q] = 1
        BY <2>1, <3>2 DEF Moved
      <3> QED BY <1>1, <3>1, <3>2
    <2> QED BY <1>1, <2>1
  <1>3. \A q \in Payments : Moved'[q] = Moved[q] + (IF q = p THEN d ELSE 0)
    <2>1. Moved[p] = 0 /\ Moved'[p] = d
      BY <1>1 DEF Moved, IsTopUp
    <2>2. \A q \in Payments \ {p} : Moved'[q] = Moved[q]
      BY <1>1 DEF Moved, IsTopUp
    <2> QED BY <1>2, <2>1, <2>2
  <1>4. ASSUME NEW u \in Users
        PROVE  balance'[u] = SumFunctionOnSet(Moved', {q \in Payments : Buyer[CheckoutOf[q]] = u})
    <2> DEFINE S == {q \in Payments : Buyer[CheckoutOf[q]] = u}
    <2>1. IsFiniteSet(S) /\ \A q \in S : q \in Payments
      BY PaymentsAssumption, FS_Subset
    <2>2. /\ SumFunctionOnSet(Moved, S) \in Int
          /\ SumFunctionOnSet(Moved', S) = SumFunctionOnSet(Moved, S) + (IF p \in S THEN d ELSE 0)
      <3>1. OneTermMoves(Moved, Moved', p, d, S)
        BY <1>2, <1>3, <2>1 DEF OneTermMoves
      <3> QED BY <3>1, SumMoves
    <2>3. balance[u] = SumFunctionOnSet(Moved, S)
      BY DEF LedgerExplainsBalance
    <2>4. p \in S <=> u = Buyer[CheckoutOf[p]]
      OBVIOUS
    <2> QED BY <1>1, <2>2, <2>3, <2>4
  <1> QED BY <1>4 DEF LedgerExplainsBalance

(* Every step keeps ledger and balances together.                          *)
LEMMA LedgerStep ==
    ASSUME IInv, LedgerExplainsBalance, [Next]_vars
    PROVE  LedgerExplainsBalance'
  <1> USE ConstantsAssumption
  <1>0. TypeOK /\ SettledByOwner /\ MoneyFollowsOwner
    BY DEF IInv, Inv
  <1>1. ASSUME UNCHANGED <<balance, ledger>> PROVE LedgerExplainsBalance'
    BY <1>1 DEF LedgerExplainsBalance, Moved, IsTopUp
  <1>2. ASSUME NEW w \in Procs, SettleCommit(w) \/ ApproveCommit(w) PROVE LedgerExplainsBalance'
    <2> DEFINE p == task[w].payment
    <2>1. p \in Payments /\ CheckoutOf[p] \in Checkouts /\ ledger[p] = 0
      BY <1>2, CommitSettles
    <2>2. CASE IsTopUp(p)
      <3>1. CreditWallet(p)
        BY <1>2, <2>2 DEF SettleCommit, ApproveCommit, TopUp
      <3>2. Price[CheckoutOf[p]] \in Int /\ Buyer[CheckoutOf[p]] \in Users
        BY <2>1
      <3>3. /\ ledger' = [ledger EXCEPT ![p] = 1]
            /\ balance' = [balance EXCEPT ![Buyer[CheckoutOf[p]]] =
                   balance[Buyer[CheckoutOf[p]]] + Price[CheckoutOf[p]]]
        BY <1>0, <2>1, <3>1, <3>2 DEF CreditWallet, TypeOK
      <3> QED BY <1>0, <2>1, <2>2, <3>2, <3>3, BothMove
    <2>3. CASE ~IsTopUp(p)
      BY <1>1, <1>2, <2>3 DEF SettleCommit, ApproveCommit, GatewayOrder
    <2> QED BY <2>2, <2>3
  <1>3. ASSUME NEW p \in Payments, SettleWalletOrder(p) PROVE LedgerExplainsBalance'
    <2>1. CheckoutOf[p] \in Checkouts /\ ~IsTopUp(p) /\ ledger[p] = 0
      BY <1>0, <1>3 DEF SettleWalletOrder, SettledByOwner, MoneyFollowsOwner, TypeOK
    <2>2. Price[CheckoutOf[p]] \in Nat /\ -Price[CheckoutOf[p]] \in Int /\ Buyer[CheckoutOf[p]] \in Users
      BY <2>1
    <2>3. /\ ledger' = [ledger EXCEPT ![p] = 1]
          /\ balance' = [balance EXCEPT ![Buyer[CheckoutOf[p]]] =
                 balance[Buyer[CheckoutOf[p]]] + (-Price[CheckoutOf[p]])]
      BY <1>0, <1>3, <2>2 DEF SettleWalletOrder, TypeOK
    <2> QED BY <1>0, <2>1, <2>2, <2>3, BothMove
  <1> QED BY <1>1, <1>2, <1>3, MoneySteps

(* The ledger of the wallet explains every balance: a top-up is credited   *)
(* and a wallet order is charged once, in the transaction that claims the  *)
(* checkout, and nothing else touches a balance.                           *)
THEOREM BalanceExplained == Spec => []LedgerExplainsBalance
  <1>1. Init => LedgerExplainsBalance
    <2> SUFFICES ASSUME Init, NEW u \in Users
                 PROVE  balance[u] = SumFunctionOnSet(Moved, {q \in Payments : Buyer[CheckoutOf[q]] = u})
      BY DEF LedgerExplainsBalance
    <2> DEFINE S == {q \in Payments : Buyer[CheckoutOf[q]] = u}
    <2>1. IsFiniteSet(S)
      BY PaymentsAssumption, FS_Subset
    <2>2. \A q \in S : Moved[q] = 0
      <3>1. ASSUME NEW q \in Payments, NEW k \in Nat, k = Price[CheckoutOf[q]] PROVE Moved[q] = 0
        BY <3>1 DEF Moved, Init
      <3>2. \A q \in Payments : Price[CheckoutOf[q]] \in Nat
        BY ConstantsAssumption
      <3> QED BY <3>1, <3>2
    <2> HIDE DEF S
    <2>3. SumFunctionOnSet(Moved, S) = 0
      BY <2>1, <2>2, SumOfZeros
    <2> QED BY <2>3 DEF Init, S
  <1>2. IInv /\ LedgerExplainsBalance /\ [Next]_vars => LedgerExplainsBalance'
    BY LedgerStep
  <1> QED BY <1>1, <1>2, InductiveInv, PTL DEF Spec

=============================================================================
