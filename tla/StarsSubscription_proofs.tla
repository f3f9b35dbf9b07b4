---------------------- MODULE StarsSubscription_proofs ----------------------
(***************************************************************************)
(* Theorems about StarsSubscription, for any number of cycles, consumers,  *)
(* moves and faults.                                                       *)
(***************************************************************************)
EXTENDS StarsSubscription, TLAPS

USE DEF rows, queue, telegram, ghosts, bounds, At, ChargeOf, Status, HasOrder

(* TypeOK in three parts: rows, processes, the rest.                       *)
SubType    == [status : SubStatuses, ends : 0 .. MaxCharge, first : 0 .. MaxCharge]
ChargeType == [status : ChargeStatuses, attempts : Nat, isFirst : BOOLEAN]
RowsOK ==
    /\ sub \in SubType /\ charge \in [Charges -> ChargeType] /\ order \in [Charges -> OrderStatuses]
JobType == [kind : Kinds, charge : Charges, isFirst : BOOLEAN, again : BOOLEAN]
RestOK ==
    /\ jobs \subseteq JobType /\ failed \subseteq Charges
    /\ scan \in [pc : {"idle", "count", "mark"}, ends : 0 .. MaxCharge]
    /\ taken \in 0 .. MaxCharge /\ billing \in BOOLEAN
    /\ updates \subseteq Charges /\ returned \subseteq Charges /\ called \subseteq Charges
    /\ chains \in [Charges -> Nat] /\ moves \in Nat /\ faults \in Nat

(* Only the buttons and updates about the subscription have no charge.     *)
Chargeless(w) == IF w = Updates
                 THEN {"idle", "require", "cancelled", "reactivate", "reactivated"} ELSE {"idle"}
TaskType == [pc : Steps, charge : 0 .. MaxCharge, kind : Kinds, isFirst : BOOLEAN,
             again : BOOLEAN, to : ChargeStatuses, attempts : Nat, first : 0 .. MaxCharge]
TasksOK ==
    /\ task \in [Procs -> TaskType]
    /\ \A w \in Procs : task[w].pc \in Chargeless(w) \/ task[w].charge \in Charges

TypeInv == RowsOK /\ RestOK /\ TasksOK

LEMMA TypeInvTypes == TypeInv => TypeOK
  BY DEF TypeInv, RowsOK, RestOK, TasksOK, TaskType, SubType, ChargeType, JobType, TypeOK

LEMMA IdleTyped == IdleTask \in TaskType /\ IdleTask.pc = "idle"
  BY StarsAssumption DEF IdleTask, TaskType, Steps, Kinds, ChargeStatuses, NoCharge

(* The ways a process record changes keep its type.                        *)
LEMMA RecordTyped ==
    ASSUME TasksOK, NEW w \in Procs, NEW r \in TaskType,
           r.pc \in Chargeless(w) \/ r.charge \in Charges,
           task' = [task EXCEPT ![w] = r]
    PROVE  TasksOK'
  <1>1. task' \in [Procs -> TaskType]
    BY DEF TasksOK
  <1>2. ASSUME NEW v \in Procs PROVE task'[v].pc \in Chargeless(v) \/ task'[v].charge \in Charges
    BY DEF TasksOK
  <1> QED BY <1>1, <1>2 DEF TasksOK, Chargeless

LEMMA GotoTyped ==
    ASSUME TasksOK, NEW w \in Procs, NEW pc \in Steps, Goto(w, pc),
           pc \in Chargeless(w) \/ task[w].charge \in Charges
    PROVE  TasksOK'
  <1> DEFINE r == [task[w] EXCEPT !.pc = pc]
  <1>1. r \in TaskType /\ r.pc = pc /\ r.charge = task[w].charge
    BY DEF TasksOK, TaskType
  <1>2. task' = [task EXCEPT ![w] = r]
    BY DEF Goto, TasksOK
  <1> HIDE DEF r
  <1> QED BY <1>1, <1>2, RecordTyped

LEMMA HoldTyped ==
    ASSUME TasksOK, NEW w \in Procs, NEW pc \in Steps, Hold(w, pc), task[w].charge \in Charges
    PROVE  TasksOK'
  <1> DEFINE r == [IdleTask EXCEPT !.pc = pc, !.charge = task[w].charge, !.kind = task[w].kind,
                           !.isFirst = task[w].isFirst, !.again = task[w].again]
  <1>1. r \in TaskType /\ r.charge = task[w].charge
    BY IdleTyped DEF TasksOK, TaskType
  <1>2. task' = [task EXCEPT ![w] = r]
    BY DEF Hold
  <1> HIDE DEF r
  <1> QED BY <1>1, <1>2, RecordTyped

LEMMA LeaveTyped ==
    ASSUME TasksOK, NEW w \in Procs, Leave(w)
    PROVE  TasksOK'
  BY IdleTyped, RecordTyped DEF Leave, Chargeless

LEMMA BeginTyped ==
    ASSUME TasksOK, NEW w \in Procs, NEW kind \in Kinds, NEW c \in Charges, NEW f \in BOOLEAN,
           NEW a \in BOOLEAN, Begin(w, kind, c, f, a)
    PROVE  TasksOK'
  <1> DEFINE r == [IdleTask EXCEPT !.pc = FirstStep(kind), !.charge = c, !.kind = kind, !.isFirst = f,
                           !.again = a]
  <1>1. FirstStep(kind) \in Steps
    BY DEF FirstStep, Kinds, Steps
  <1>2. c \in 0 .. MaxCharge
    BY DEF Charges
  <1>3. r \in TaskType
    BY <1>1, <1>2, IdleTyped DEF TaskType
  <1>4. r.charge = c
    BY IdleTyped DEF TaskType
  <1>5. task' = [task EXCEPT ![w] = r]
    BY DEF Begin
  <1> HIDE DEF r
  <1> QED BY <1>3, <1>4, <1>5, RecordTyped

LEMMA WriteTyped ==
    ASSUME TasksOK, NEW w \in Procs, NEW to \in ChargeStatuses, Write(w, to),
           task[w].charge \in Charges
    PROVE  TasksOK'
  <1> DEFINE r == [task[w] EXCEPT !.pc = "write", !.to = to]
  <1>1. r \in TaskType /\ r.charge = task[w].charge
    BY DEF TasksOK, TaskType, Steps
  <1>2. task' = [task EXCEPT ![w] = r]
    BY DEF Write, TasksOK
  <1> HIDE DEF r
  <1> QED BY <1>1, <1>2, RecordTyped

LEMMA SameTasksTyped == ASSUME TasksOK, UNCHANGED task PROVE TasksOK'
  BY DEF TasksOK, Chargeless

LEMMA EnqueueTyped ==
    ASSUME jobs \subseteq JobType, NEW kind \in Kinds, NEW c \in Charges, NEW f \in BOOLEAN,
           Enqueue(kind, c, f)
    PROVE  jobs' \subseteq JobType
  <1>1. [kind |-> kind, charge |-> c, isFirst |-> f, again |-> FALSE] \in JobType
    BY DEF JobType
  <1> QED BY <1>1 DEF Enqueue

(* Only a busy process has a settle job that can fail.                     *)
LEMMA FailingTyped ==
    ASSUME TasksOK, failed \subseteq Charges, NEW set, Failing(set),
           set \subseteq {w \in Procs : ~At(w, "idle")}
    PROVE  failed' \subseteq Charges
  <1>1. ASSUME NEW w \in set, w # Updates PROVE ChargeOf(w) \in Charges
    BY <1>1 DEF TasksOK, Chargeless
  <1> QED BY <1>1 DEF Failing

(* A status written by the id of a charge, and one of the subscription.    *)
LEMMA SetChargeTyped ==
    ASSUME RowsOK, NEW c \in Charges, NEW from, NEW to \in ChargeStatuses, SetCharge(c, from, to)
    PROVE  /\ charge' \in [Charges -> ChargeType]
           /\ \A d \in Charges : charge'[d].status # charge[d].status => d = c /\ charge'[d].status = to
  BY DEF RowsOK, ChargeType, SetCharge

LEMMA SetSubTyped ==
    ASSUME RowsOK, NEW from, NEW to \in SubStatuses, SetSub(from, to)
    PROVE  sub' \in SubType
  BY DEF RowsOK, SubType, SetSub

LEMMA InitTyped == Init => TypeInv
  <1> SUFFICES ASSUME Init PROVE TypeInv
    OBVIOUS
  <1>1. RowsOK
    BY StarsAssumption DEF Init, RowsOK, SubType, ChargeType, SubStatuses, ChargeStatuses,
       OrderStatuses, NoCharge
  <1>2. RestOK
    BY StarsAssumption DEF Init, RestOK, NoCharge
  <1>3. TasksOK
    BY IdleTyped DEF Init, TasksOK, Chargeless
  <1> QED BY <1>1, <1>2, <1>3 DEF TypeInv

(* Every step keeps the types. *)
LEMMA TypeStep == TypeInv /\ [Next]_vars => TypeInv'
  <1> SUFFICES ASSUME TypeInv, [Next]_vars PROVE TypeInv'
    OBVIOUS
  <1>0. RowsOK /\ RestOK /\ TasksOK
    BY DEF TypeInv
  <1>1. ASSUME NEW w \in Procs, CreateCharge(w) PROVE TypeInv'
    <2>1. task[w].charge \in Charges \/ (w = Updates /\ task[w].pc = "require")
      BY <1>1, <1>0 DEF CreateCharge, TasksOK, Chargeless
    <2>2. RowsOK'
      <3>1. task[w].charge \in Charges /\ task[w].isFirst \in BOOLEAN
        BY <2>1, <1>1, <1>0 DEF CreateCharge, TasksOK, TaskType
      <3> QED BY <3>1, <1>1, <1>0 DEF CreateCharge, RowsOK, ChargeType, ChargeStatuses
    <2>3. RestOK'
      BY <2>1, <1>1, <1>0 DEF CreateCharge, RestOK
    <2>4. TasksOK'
      BY <2>1, <1>1, <1>0, GotoTyped, HoldTyped, LeaveTyped DEF CreateCharge, Steps, Chargeless,
         TasksOK, TaskType
    <2> QED BY <2>2, <2>3, <2>4 DEF TypeInv
  <1>2. ASSUME NEW w \in Procs, ClaimCharge(w) PROVE TypeInv'
    <2>1. task[w].charge \in Charges \/ (w = Updates /\ task[w].pc = "require")
      BY <1>2, <1>0 DEF ClaimCharge, TasksOK, Chargeless
    <2>2. RowsOK'
      BY <2>1, <1>2, <1>0, SetChargeTyped DEF ClaimCharge, RowsOK, ChargeStatuses, TasksOK, TaskType
    <2>3. RestOK'
      BY <2>1, <1>2, <1>0 DEF ClaimCharge, RestOK
    <2>4. TasksOK'
      BY <2>1, <1>2, <1>0, GotoTyped, LeaveTyped DEF ClaimCharge, Steps, Chargeless, TasksOK,
         TaskType
    <2> QED BY <2>2, <2>3, <2>4 DEF TypeInv
  <1>3. ASSUME NEW w \in Procs, CreateChain(w) PROVE TypeInv'
    <2>1. task[w].charge \in Charges \/ (w = Updates /\ task[w].pc = "require")
      BY <1>3, <1>0 DEF CreateChain, TasksOK, Chargeless
    <2>2. RowsOK'
      <3>1. task[w].charge \in Charges /\ task[w].charge \in 0 .. MaxCharge
        BY <2>1, <1>3, <1>0 DEF CreateChain, TasksOK, TaskType
      <3>2. CASE UNCHANGED rows
        BY <3>2, <1>0 DEF RowsOK
      <3>3. CASE ~ UNCHANGED rows
        <4>1. charge' \in [Charges -> ChargeType]
          BY <3>1, <3>3, <1>3, <1>0, SetChargeTyped DEF CreateChain, ChargeStatuses
        <4>2. sub' \in SubType
          BY <3>1, <3>3, <1>3, <1>0 DEF CreateChain, RowsOK, SubType
        <4>3. order' \in [Charges -> OrderStatuses]
          BY <3>1, <3>3, <1>3, <1>0 DEF CreateChain, RowsOK, OrderStatuses
        <4> QED BY <4>1, <4>2, <4>3 DEF RowsOK
      <3> QED BY <3>2, <3>3
    <2>3. RestOK'
      BY <2>1, <1>3, <1>0 DEF CreateChain, RestOK
    <2>4. TasksOK'
      BY <2>1, <1>3, <1>0, HoldTyped, LeaveTyped DEF CreateChain, Steps, Chargeless, TasksOK,
         TaskType
    <2> QED BY <2>2, <2>3, <2>4 DEF TypeInv
  <1>4. ASSUME NEW w \in Procs, ChainThrows(w) PROVE TypeInv'
    <2>1. task[w].charge \in Charges \/ (w = Updates /\ task[w].pc = "require")
      BY <1>4, <1>0 DEF ChainThrows, TasksOK, Chargeless
    <2>2. RowsOK'
      BY <2>1, <1>4, <1>0 DEF ChainThrows, RowsOK
    <2>3. RestOK'
      BY <2>1, <1>4, <1>0 DEF ChainThrows, Fails, RestOK
    <2>4. TasksOK'
      BY <2>1, <1>4, <1>0, HoldTyped DEF ChainThrows, Steps, Chargeless, TasksOK, TaskType
    <2> QED BY <2>2, <2>3, <2>4 DEF TypeInv
  <1>5. ASSUME NEW w \in Procs, SettleFails(w) PROVE TypeInv'
    <2>1. task[w].charge \in Charges \/ (w = Updates /\ task[w].pc = "require")
      BY <1>5, <1>0 DEF SettleFails, TasksOK, Chargeless
    <2>2. RowsOK'
      BY <2>1, <1>5, <1>0, SetChargeTyped DEF SettleFails, RowsOK, ChargeStatuses
    <2>3. RestOK'
      BY <2>1, <1>5, <1>0 DEF SettleFails, RestOK
    <2>4. TasksOK'
      BY <2>1, <1>5, <1>0, LeaveTyped DEF SettleFails, TasksOK
    <2> QED BY <2>2, <2>3, <2>4 DEF TypeInv
  <1>6. ASSUME NEW w \in Procs, Dispatch(w) PROVE TypeInv'
    <2>1. task[w].charge \in Charges \/ (w = Updates /\ task[w].pc = "require")
      BY <1>6, <1>0 DEF Dispatch, TasksOK, Chargeless
    <2>2. RowsOK'
      BY <2>1, <1>6, <1>0 DEF Dispatch, RowsOK, OrderStatuses, TasksOK, TaskType
    <2>3. RestOK'
      BY <2>1, <1>6, <1>0 DEF Dispatch, RestOK
    <2>4. TasksOK'
      BY <2>1, <1>6, <1>0, GotoTyped, WriteTyped DEF Dispatch, Steps, Chargeless, TasksOK,
         TaskType, ChargeStatuses
    <2> QED BY <2>2, <2>3, <2>4 DEF TypeInv
  <1>7. ASSUME NEW w \in Procs, Panel(w) PROVE TypeInv'
    <2>1. task[w].charge \in Charges \/ (w = Updates /\ task[w].pc = "require")
      BY <1>7, <1>0 DEF Panel, TasksOK, Chargeless
    <2>2. RowsOK'
      BY <2>1, <1>7, <1>0 DEF Panel, RowsOK, OrderStatuses, TasksOK, TaskType
    <2>3. RestOK'
      BY <2>1, <1>7, <1>0 DEF Panel, RestOK
    <2>4. TasksOK'
      BY <2>1, <1>7, <1>0, WriteTyped DEF Panel, Steps, Chargeless, TasksOK, TaskType,
         ChargeStatuses
    <2> QED BY <2>2, <2>3, <2>4 DEF TypeInv
  <1>8. ASSUME NEW w \in Procs, WriteOutcome(w) PROVE TypeInv'
    <2>1. task[w].charge \in Charges \/ (w = Updates /\ task[w].pc = "require")
      BY <1>8, <1>0 DEF WriteOutcome, TasksOK, Chargeless
    <2>2. RowsOK'
      BY <2>1, <1>8, <1>0, SetChargeTyped DEF WriteOutcome, RowsOK, ChargeStatuses, TasksOK,
         TaskType
    <2>3. RestOK'
      BY <2>1, <1>8, <1>0 DEF WriteOutcome, RestOK
    <2>4. TasksOK'
      BY <2>1, <1>8, <1>0, HoldTyped, LeaveTyped DEF WriteOutcome, Steps, Chargeless, TasksOK,
         TaskType
    <2> QED BY <2>2, <2>3, <2>4 DEF TypeInv
  <1>9. ASSUME NEW w \in Procs, Activate(w) PROVE TypeInv'
    <2>1. task[w].charge \in Charges \/ (w = Updates /\ task[w].pc = "require")
      BY <1>9, <1>0 DEF Activate, TasksOK, Chargeless
    <2>2. RowsOK'
      BY <2>1, <1>9, <1>0, SetSubTyped DEF Activate, RowsOK, SubStatuses
    <2>3. RestOK'
      BY <2>1, <1>9, <1>0 DEF Activate, RestOK
    <2>4. TasksOK'
      BY <2>1, <1>9, <1>0, LeaveTyped DEF Activate, TasksOK
    <2> QED BY <2>2, <2>3, <2>4 DEF TypeInv
  <1>10. ASSUME NEW w \in Procs, ReadRefund(w) PROVE TypeInv'
    <2>1. task[w].charge \in Charges \/ (w = Updates /\ task[w].pc = "require")
      BY <1>10, <1>0 DEF ReadRefund, TasksOK, Chargeless
    <2>2. RowsOK'
      BY <2>1, <1>10, <1>0 DEF ReadRefund, RowsOK, TasksOK, TaskType
    <2>3. RestOK'
      BY <2>1, <1>10, <1>0 DEF ReadRefund, RestOK
    <2>4. TasksOK'
      <3> DEFINE r == [task[w] EXCEPT !.pc = "call", !.attempts = charge[ChargeOf(w)].attempts, !.first = sub.first]
      <3>1. CASE Leave(w)
        BY <3>1, <1>0, LeaveTyped
      <3>2. CASE task' = [task EXCEPT ![w] = r]
        <4>1. task[w].charge \in Charges
          BY <2>1, <1>10 DEF ReadRefund
        <4>2. r \in TaskType /\ r.charge = task[w].charge
          BY <4>1, <1>0 DEF TasksOK, TaskType, RowsOK, ChargeType, SubType, Steps
        <4> HIDE DEF r
        <4> QED BY <4>1, <4>2, <3>2, <1>0, RecordTyped
      <3> QED BY <3>1, <3>2, <1>10, <1>0 DEF ReadRefund, TasksOK
    <2> QED BY <2>2, <2>3, <2>4 DEF TypeInv
  <1>11. ASSUME NEW w \in Procs, CallRefund(w) PROVE TypeInv'
    <2>1. task[w].charge \in Charges \/ (w = Updates /\ task[w].pc = "require")
      BY <1>11, <1>0 DEF CallRefund, TasksOK, Chargeless
    <2>2. RowsOK'
      BY <2>1, <1>11, <1>0 DEF CallRefund, RowsOK, TasksOK, TaskType
    <2>3. RestOK'
      BY <2>1, <1>11, <1>0 DEF CallRefund, Fails, RestOK
    <2>4. TasksOK'
      BY <2>1, <1>11, <1>0, GotoTyped DEF CallRefund, Steps, Chargeless, TasksOK, TaskType
    <2> QED BY <2>2, <2>3, <2>4 DEF TypeInv
  <1>12. ASSUME NEW w \in Procs, CountFailure(w) PROVE TypeInv'
    <2>1. task[w].charge \in Charges \/ (w = Updates /\ task[w].pc = "require")
      BY <1>12, <1>0 DEF CountFailure, TasksOK, Chargeless
    <2>2. RowsOK'
      <3>1. task[w].charge \in Charges /\ task[w].attempts \in Nat
        BY <2>1, <1>12, <1>0 DEF CountFailure, TasksOK, TaskType
      <3> QED BY <3>1, <1>12, <1>0 DEF CountFailure, RowsOK, ChargeType
    <2>3. RestOK'
      BY <2>1, <1>12, <1>0 DEF CountFailure, RestOK
    <2>4. TasksOK'
      BY <2>1, <1>12, <1>0, LeaveTyped DEF CountFailure, TasksOK
    <2> QED BY <2>2, <2>3, <2>4 DEF TypeInv
  <1>13. ASSUME NEW w \in Procs, ConfirmRefund(w) PROVE TypeInv'
    <2>1. task[w].charge \in Charges \/ (w = Updates /\ task[w].pc = "require")
      BY <1>13, <1>0 DEF ConfirmRefund, TasksOK, Chargeless
    <2>2. RowsOK'
      BY <2>1, <1>13, <1>0, SetChargeTyped DEF ConfirmRefund, RowsOK, ChargeStatuses, TasksOK,
         TaskType
    <2>3. RestOK'
      BY <2>1, <1>13, <1>0 DEF ConfirmRefund, RestOK
    <2>4. TasksOK'
      BY <2>1, <1>13, <1>0, GotoTyped, LeaveTyped DEF ConfirmRefund, Steps, Chargeless, TasksOK,
         TaskType
    <2> QED BY <2>2, <2>3, <2>4 DEF TypeInv
  <1>14. ASSUME NEW w \in Procs, StopBilling(w) PROVE TypeInv'
    <2>1. task[w].charge \in Charges \/ (w = Updates /\ task[w].pc = "require")
      BY <1>14, <1>0 DEF StopBilling, TasksOK, Chargeless
    <2>2. RowsOK'
      BY <2>1, <1>14, <1>0 DEF StopBilling, RowsOK, TasksOK, TaskType
    <2>3. RestOK'
      <3>1. billing' = FALSE \/ billing' = TRUE \/ billing' = billing
        BY <1>14 DEF StopBilling
      <3>2. billing' \in BOOLEAN
        BY <3>1, <1>0 DEF RestOK
      <3>3. faults' \in Nat
        BY <1>14, <1>0 DEF StopBilling, Fails, RestOK
      <3> QED BY <3>2, <3>3, <1>14, <1>0 DEF StopBilling, RestOK
    <2>4. TasksOK'
      BY <2>1, <1>14, <1>0, HoldTyped DEF StopBilling, Steps, Chargeless, TasksOK, TaskType
    <2> QED BY <2>2, <2>3, <2>4 DEF TypeInv
  <1>15. ASSUME NEW w \in Procs, RequireAction(w) PROVE TypeInv'
    <2>1. task[w].charge \in Charges \/ (w = Updates /\ task[w].pc = "require")
      BY <1>15, <1>0 DEF RequireAction, TasksOK, Chargeless
    <2>2. RowsOK'
      BY <2>1, <1>15, <1>0, SetSubTyped DEF RequireAction, RowsOK, SubStatuses
    <2>3. RestOK'
      BY <2>1, <1>15, <1>0 DEF RequireAction, RestOK
    <2>4. TasksOK'
      BY <2>1, <1>15, <1>0, LeaveTyped DEF RequireAction, TasksOK
    <2> QED BY <2>2, <2>3, <2>4 DEF TypeInv
  <1>16. ASSUME NEW w \in Procs, ReadStuck(w) PROVE TypeInv'
    <2>1. task[w].charge \in Charges \/ (w = Updates /\ task[w].pc = "require")
      BY <1>16, <1>0 DEF ReadStuck, TasksOK, Chargeless
    <2>2. RowsOK'
      BY <2>1, <1>16, <1>0 DEF ReadStuck, RowsOK, TasksOK, TaskType
    <2>3. RestOK'
      BY <2>1, <1>16, <1>0 DEF ReadStuck, RestOK
    <2>4. TasksOK'
      BY <2>1, <1>16, <1>0, GotoTyped, LeaveTyped DEF ReadStuck, Steps, Chargeless, TasksOK,
         TaskType
    <2> QED BY <2>2, <2>3, <2>4 DEF TypeInv
  <1>17. ASSUME NEW w \in Procs, ResetCharge(w) PROVE TypeInv'
    <2>1. task[w].charge \in Charges \/ (w = Updates /\ task[w].pc = "require")
      BY <1>17, <1>0 DEF ResetCharge, TasksOK, Chargeless
    <2>2. RowsOK'
      BY <2>1, <1>17, <1>0, SetChargeTyped DEF ResetCharge, RowsOK, ChargeStatuses, TasksOK,
         TaskType
    <2>3. RestOK'
      BY <2>1, <1>17, <1>0 DEF ResetCharge, RestOK
    <2>4. TasksOK'
      <3> DEFINE r == [task[w] EXCEPT !.pc = "create", !.isFirst = charge[ChargeOf(w)].isFirst]
      <3>1. task[w].charge \in Charges
        BY <2>1, <1>17 DEF ResetCharge
      <3>2. r \in TaskType /\ r.charge = task[w].charge
        BY <3>1, <1>0 DEF TasksOK, TaskType, RowsOK, ChargeType, Steps
      <3>3. task' = [task EXCEPT ![w] = r]
        BY <1>17, <1>0 DEF ResetCharge, TasksOK
      <3> HIDE DEF r
      <3> QED BY <3>1, <3>2, <3>3, <1>0, RecordTyped
    <2> QED BY <2>2, <2>3, <2>4 DEF TypeInv
  <1>18. ASSUME NEW w \in Procs, Throws(w) PROVE TypeInv'
    <2>1. RowsOK'
      BY <1>18, <1>0 DEF Throws, RowsOK
    <2>2. RestOK'
      <3>1. failed' \subseteq Charges
        BY <1>18, <1>0, FailingTyped DEF Throws, RestOK
      <3> QED BY <3>1, <1>18, <1>0 DEF Throws, Fails, RestOK
    <2>3. TasksOK'
      BY <1>18, <1>0, LeaveTyped DEF Throws, TasksOK
    <2> QED BY <2>1, <2>2, <2>3 DEF TypeInv
  <1>19. ASSUME NEW w \in Consumers, NEW j \in jobs, StartJob(w, j) PROVE TypeInv'
    <2>1. RowsOK'
      BY <1>19, <1>0 DEF StartJob, RowsOK
    <2>2. RestOK'
      BY <1>19, <1>0 DEF StartJob, RestOK
    <2>3. TasksOK'
      <3>1. w \in Procs /\ j.kind \in Kinds /\ j.charge \in Charges
            /\ j.isFirst \in BOOLEAN /\ j.again \in BOOLEAN
        BY <1>0 DEF Procs, RestOK, JobType
      <3> QED BY <3>1, <1>19, <1>0, BeginTyped DEF StartJob
    <2> QED BY <2>1, <2>2, <2>3 DEF TypeInv
  <1>20. ASSUME NEW c \in Charges, SuccessfulPayment(c) PROVE TypeInv'
    <2>1. RowsOK'
      BY <1>20, <1>0 DEF SuccessfulPayment, RowsOK
    <2>2. RestOK'
      BY <1>20, <1>0 DEF SuccessfulPayment, RestOK
    <2>3. TasksOK'
      <3>1. Updates \in Procs /\ (c = 1) \in BOOLEAN /\ "settle" \in Kinds
        BY DEF Procs, Kinds
      <3>2. Begin(Updates, "settle", c, c = 1, FALSE)
        BY <1>20 DEF SuccessfulPayment
      <3> QED BY <3>1, <3>2, <1>0, BeginTyped
    <2> QED BY <2>1, <2>2, <2>3 DEF TypeInv
  <1>21. ASSUME NEW c \in Charges, RefundedPayment(c) PROVE TypeInv'
    <2>1. RowsOK'
      BY <1>21, <1>0, SetChargeTyped DEF RefundedPayment, RowsOK, ChargeStatuses
    <2>2. RestOK'
      BY <1>21, <1>0 DEF RefundedPayment, RestOK
    <2>3. TasksOK'
      <3>1. Updates \in Procs /\ "require" \in Steps /\ "require" \in Chargeless(Updates)
        BY DEF Procs, Steps, Chargeless
      <3> QED BY <3>1, <1>21, <1>0, GotoTyped, LeaveTyped DEF RefundedPayment
    <2> QED BY <2>1, <2>2, <2>3 DEF TypeInv
  <1>22. ASSUME NEW c \in Charges, LoseUpdate(c) PROVE TypeInv'
    <2>1. RowsOK'
      BY <1>22, <1>0 DEF LoseUpdate, RowsOK
    <2>2. RestOK'
      BY <1>22, <1>0 DEF LoseUpdate, RestOK
    <2>3. TasksOK'
      BY <1>22, <1>0, SameTasksTyped DEF LoseUpdate, TasksOK
    <2> QED BY <2>1, <2>2, <2>3 DEF TypeInv
  <1>23. ASSUME NEW c \in Charges, RecoverOrder(c) PROVE TypeInv'
    <2>1. RowsOK'
      BY <1>23, <1>0 DEF RecoverOrder, RowsOK, OrderStatuses
    <2>2. RestOK'
      BY <1>23, <1>0 DEF RecoverOrder, RestOK
    <2>3. TasksOK'
      BY <1>23, <1>0, SameTasksTyped DEF RecoverOrder, TasksOK
    <2> QED BY <2>1, <2>2, <2>3 DEF TypeInv
  <1>24. ASSUME NEW c \in Charges, RecoverPayment(c) PROVE TypeInv'
    <2>1. RowsOK'
      BY <1>24, <1>0 DEF RecoverPayment, Enqueue, RowsOK
    <2>2. RestOK'
      <3>1. PICK f \in BOOLEAN : Enqueue("settle", c, f)
        BY <1>24 DEF RecoverPayment
      <3>2. jobs' \subseteq JobType
        BY <3>1, <1>0, EnqueueTyped DEF RestOK, Kinds
      <3> QED BY <3>1, <3>2, <1>0 DEF Enqueue, RestOK
    <2>3. TasksOK'
      BY <1>24, <1>0, SameTasksTyped DEF RecoverPayment, Enqueue, TasksOK
    <2> QED BY <2>1, <2>2, <2>3 DEF TypeInv
  <1>25. ASSUME NEW c \in Charges, SelectStuck(c) PROVE TypeInv'
    <2>1. RowsOK'
      BY <1>25, <1>0 DEF SelectStuck, Enqueue, RowsOK
    <2>2. RestOK'
      <3>1. PICK f \in BOOLEAN : Enqueue("reconcile", c, f)
        BY <1>25 DEF SelectStuck
      <3>2. jobs' \subseteq JobType
        BY <3>1, <1>0, EnqueueTyped DEF RestOK, Kinds
      <3> QED BY <3>1, <3>2, <1>0 DEF Enqueue, RestOK
    <2>3. TasksOK'
      BY <1>25, <1>0, SameTasksTyped DEF SelectStuck, Enqueue, TasksOK
    <2> QED BY <2>1, <2>2, <2>3 DEF TypeInv
  <1>26. ASSUME NEW c \in Charges, SelectRefund(c) PROVE TypeInv'
    <2>1. RowsOK'
      BY <1>26, <1>0 DEF SelectRefund, Enqueue, RowsOK
    <2>2. RestOK'
      <3>1. PICK f \in BOOLEAN : Enqueue("refund", c, f)
        BY <1>26 DEF SelectRefund
      <3>2. jobs' \subseteq JobType
        BY <3>1, <1>0, EnqueueTyped DEF RestOK, Kinds
      <3> QED BY <3>1, <3>2, <1>0 DEF Enqueue, RestOK
    <2>3. TasksOK'
      BY <1>26, <1>0, SameTasksTyped DEF SelectRefund, Enqueue, TasksOK
    <2> QED BY <2>1, <2>2, <2>3 DEF TypeInv
  <1>27. ASSUME NEW c \in Charges, ExhaustRefund(c) PROVE TypeInv'
    <2>1. RowsOK'
      BY <1>27, <1>0, SetSubTyped DEF ExhaustRefund, RowsOK, SubStatuses
    <2>2. RestOK'
      BY <1>27, <1>0 DEF ExhaustRefund, RestOK
    <2>3. TasksOK'
      BY <1>27, <1>0, SameTasksTyped DEF ExhaustRefund, TasksOK
    <2> QED BY <2>1, <2>2, <2>3 DEF TypeInv
  <1>28. ASSUME NEW c \in Charges, ReturnElsewhere(c) PROVE TypeInv'
    <2>1. RowsOK'
      BY <1>28, <1>0 DEF ReturnElsewhere, RowsOK
    <2>2. RestOK'
      BY <1>28, <1>0 DEF ReturnElsewhere, RestOK
    <2>3. TasksOK'
      BY <1>28, <1>0, SameTasksTyped DEF ReturnElsewhere, TasksOK
    <2> QED BY <2>1, <2>2, <2>3 DEF TypeInv
  <1>29. ASSUME ReconcileRefund PROVE TypeInv'
    <2>1. RowsOK'
      <3>1. \A c \in Charges : charge[c] \in ChargeType /\ [charge[c] EXCEPT !.status = "REFUNDED"] \in ChargeType
        BY <1>0 DEF RowsOK, ChargeType, ChargeStatuses
      <3>2. charge' \in [Charges -> ChargeType]
        BY <3>1, <1>29 DEF ReconcileRefund, SetCharges
      <3> QED BY <3>2, <1>29, <1>0 DEF ReconcileRefund, RowsOK
    <2>2. RestOK'
      BY <1>29, <1>0 DEF ReconcileRefund, RestOK
    <2>3. TasksOK'
      BY <1>29, <1>0, SameTasksTyped DEF ReconcileRefund, TasksOK
    <2> QED BY <2>1, <2>2, <2>3 DEF TypeInv
  <1>30. ASSUME ReadPastDue PROVE TypeInv'
    <2>1. RowsOK'
      BY <1>30, <1>0 DEF ReadPastDue, RowsOK, Billed
    <2>2. RestOK'
      BY <1>30, <1>0, StarsAssumption DEF ReadPastDue, RestOK, RowsOK, SubType, NoCharge
    <2>3. TasksOK'
      BY <1>30, <1>0, SameTasksTyped DEF ReadPastDue, TasksOK
    <2> QED BY <2>1, <2>2, <2>3 DEF TypeInv
  <1>31. ASSUME CountNewer PROVE TypeInv'
    <2>1. RowsOK'
      BY <1>31, <1>0 DEF CountNewer, RowsOK
    <2>2. RestOK'
      BY <1>31, <1>0 DEF CountNewer, RestOK
    <2>3. TasksOK'
      BY <1>31, <1>0, SameTasksTyped DEF CountNewer, TasksOK
    <2> QED BY <2>1, <2>2, <2>3 DEF TypeInv
  <1>32. ASSUME MarkPastDue PROVE TypeInv'
    <2>1. RowsOK'
      BY <1>32, <1>0, SetSubTyped DEF MarkPastDue, RowsOK, SubStatuses, Billed
    <2>2. RestOK'
      BY <1>32, <1>0, StarsAssumption DEF MarkPastDue, RestOK, RowsOK, SubType, NoCharge
    <2>3. TasksOK'
      BY <1>32, <1>0, SameTasksTyped DEF MarkPastDue, TasksOK
    <2> QED BY <2>1, <2>2, <2>3 DEF TypeInv
  <1>33. ASSUME SubscriptionUpdate PROVE TypeInv'
    <2>1. RowsOK'
      BY <1>33, <1>0, SetSubTyped DEF SubscriptionUpdate, RowsOK, SubStatuses, Billed
    <2>2. RestOK'
      <3>1. billing' = FALSE \/ billing' = TRUE \/ billing' = billing
        BY <1>33 DEF SubscriptionUpdate
      <3>2. billing' \in BOOLEAN
        BY <3>1, <1>0 DEF RestOK
      <3>3. moves' \in Nat
        BY <1>33, <1>0 DEF SubscriptionUpdate, Moves, RestOK
      <3> QED BY <3>2, <3>3, <1>33, <1>0 DEF SubscriptionUpdate, RestOK
    <2>3. TasksOK'
      BY <1>33, <1>0, SameTasksTyped DEF SubscriptionUpdate, TasksOK
    <2> QED BY <2>1, <2>2, <2>3 DEF TypeInv
  <1>34. ASSUME CancelBilling PROVE TypeInv'
    <2>1. RowsOK'
      BY <1>34, <1>0 DEF CancelBilling, RowsOK
    <2>2. RestOK'
      <3>1. billing' = FALSE \/ billing' = TRUE \/ billing' = billing
        BY <1>34 DEF CancelBilling
      <3>2. billing' \in BOOLEAN
        BY <3>1, <1>0 DEF RestOK
      <3>3. moves' \in Nat
        BY <1>34, <1>0 DEF CancelBilling, Moves, RestOK
      <3> QED BY <3>2, <3>3, <1>34, <1>0 DEF CancelBilling, RestOK
    <2>3. TasksOK'
      <3>1. Updates \in Procs /\ "cancelled" \in Steps /\ "cancelled" \in Chargeless(Updates)
        BY DEF Procs, Steps, Chargeless
      <3> QED BY <3>1, <1>34, <1>0, GotoTyped, LeaveTyped DEF CancelBilling
    <2> QED BY <2>1, <2>2, <2>3 DEF TypeInv
  <1>35. ASSUME CancelSubscription PROVE TypeInv'
    <2>1. RowsOK'
      BY <1>35, <1>0, SetSubTyped DEF CancelSubscription, RowsOK, SubStatuses
    <2>2. RestOK'
      BY <1>35, <1>0 DEF CancelSubscription, RestOK
    <2>3. TasksOK'
      <3>1. Updates \in Procs /\ "idle" \in Steps /\ "idle" \in Chargeless(Updates)
        BY DEF Procs, Steps, Chargeless
      <3> QED BY <3>1, <1>35, <1>0, GotoTyped, LeaveTyped DEF CancelSubscription
    <2> QED BY <2>1, <2>2, <2>3 DEF TypeInv
  <1>36. ASSUME Reactivate PROVE TypeInv'
    <2>1. RowsOK'
      BY <1>36, <1>0 DEF Reactivate, RowsOK
    <2>2. RestOK'
      BY <1>36, <1>0 DEF Reactivate, Moves, RestOK
    <2>3. TasksOK'
      <3> DEFINE r == [task[Updates] EXCEPT !.pc = "reactivate", !.first = sub.first]
      <3>1. Updates \in Procs
        BY DEF Procs
      <3>2. r \in TaskType /\ r.pc = "reactivate"
        BY <3>1, <1>0 DEF TasksOK, TaskType, RowsOK, SubType, Steps
      <3>3. task' = [task EXCEPT ![Updates] = r]
        BY <3>1, <1>36, <1>0 DEF Reactivate, TasksOK
      <3>4. r.pc \in Chargeless(Updates)
        BY <3>2 DEF Chargeless
      <3> HIDE DEF r
      <3> QED BY <3>1, <3>2, <3>3, <3>4, <1>0, RecordTyped
    <2> QED BY <2>1, <2>2, <2>3 DEF TypeInv
  <1>37. ASSUME ReactivateBilling PROVE TypeInv'
    <2>1. RowsOK'
      BY <1>37, <1>0 DEF ReactivateBilling, RowsOK
    <2>2. RestOK'
      BY <1>37, <1>0 DEF ReactivateBilling, RestOK
    <2>3. TasksOK'
      <3>1. Updates \in Procs /\ "reactivated" \in Steps /\ "reactivated" \in Chargeless(Updates)
        BY DEF Procs, Steps, Chargeless
      <3> QED BY <3>1, <1>37, <1>0, GotoTyped, LeaveTyped DEF ReactivateBilling
    <2> QED BY <2>1, <2>2, <2>3 DEF TypeInv
  <1>38. ASSUME ReactivateSubscription PROVE TypeInv'
    <2>1. RowsOK'
      BY <1>38, <1>0, SetSubTyped DEF ReactivateSubscription, RowsOK, SubStatuses
    <2>2. RestOK'
      BY <1>38, <1>0 DEF ReactivateSubscription, RestOK
    <2>3. TasksOK'
      <3>1. Updates \in Procs /\ "idle" \in Steps /\ "idle" \in Chargeless(Updates)
        BY DEF Procs, Steps, Chargeless
      <3> QED BY <3>1, <1>38, <1>0, GotoTyped, LeaveTyped DEF ReactivateSubscription
    <2> QED BY <2>1, <2>2, <2>3 DEF TypeInv
  <1>39. ASSUME Bill PROVE TypeInv'
    <2>1. RowsOK'
      BY <1>39, <1>0 DEF Bill, RowsOK
    <2>2. RestOK'
      <3>1. taken + 1 \in Charges /\ taken + 1 \in 0 .. MaxCharge
        BY <1>39, <1>0, StarsAssumption DEF Bill, RestOK, Charges
      <3> QED BY <3>1, <1>39, <1>0 DEF Bill, RestOK
    <2>3. TasksOK'
      BY <1>39, <1>0, SameTasksTyped DEF Bill, TasksOK
    <2> QED BY <2>1, <2>2, <2>3 DEF TypeInv
  <1>40. ASSUME BotCrash PROVE TypeInv'
    <2>1. RowsOK'
      BY <1>40, <1>0 DEF BotCrash, RowsOK, TasksOK, TaskType
    <2>2. RestOK'
      <3>1. \A w \in Consumers : w \in Procs /\ w # Updates
        BY StarsAssumption DEF Procs
      <3>2. jobs' \subseteq JobType
        <4>1. ASSUME NEW w \in Consumers, ~At(w, "idle")
              PROVE  [kind |-> task[w].kind, charge |-> ChargeOf(w), isFirst |-> task[w].isFirst,
                      again |-> TRUE] \in JobType
          <5>1. task[w] \in TaskType /\ task[w].charge \in Charges
            BY <4>1, <3>1, <1>0 DEF TasksOK, Chargeless
          <5> QED BY <5>1 DEF TaskType, JobType
        <4> QED BY <4>1, <1>40, <1>0 DEF BotCrash, RestOK
      <3>4. failed' \subseteq Charges
        BY <3>1, <1>40, <1>0, FailingTyped DEF BotCrash, RestOK
      <3>3. updates' \subseteq Charges
        <4>1. task[Updates].charge \in 0 .. MaxCharge
          BY <1>0 DEF TasksOK, TaskType, Procs
        <4>2. {ChargeOf(Updates)} \ {NoCharge} \subseteq Charges
          BY <4>1, StarsAssumption DEF Charges, NoCharge
        <4> QED BY <4>2, <1>40, <1>0 DEF BotCrash, RestOK
      <3> QED BY <3>2, <3>3, <3>4, <1>40, <1>0 DEF BotCrash, Fails, RestOK
    <2>3. TasksOK'
      BY <1>40, IdleTyped DEF BotCrash, TasksOK, Chargeless
    <2> QED BY <2>1, <2>2, <2>3 DEF TypeInv
  <1>41. CASE UNCHANGED vars
    <2>1. RowsOK' /\ RestOK'
      BY <1>41, <1>0 DEF vars, RowsOK, RestOK
    <2> QED BY <2>1, <1>41, <1>0, SameTasksTyped DEF vars, TypeInv
  <1>42. ASSUME NEW c \in Charges, DropFailed(c) PROVE TypeInv'
    <2>1. RowsOK' /\ RestOK'
      BY <1>42, <1>0 DEF DropFailed, RowsOK, RestOK
    <2> QED BY <2>1, <1>42, <1>0, SameTasksTyped DEF DropFailed, TypeInv
  <1> QED BY <1>1, <1>2, <1>3, <1>4, <1>5, <1>6, <1>7, <1>8, <1>9, <1>10, <1>11, <1>12, <1>13,
             <1>14, <1>15, <1>16, <1>17, <1>18, <1>19, <1>20, <1>21, <1>22, <1>23, <1>24, <1>25,
             <1>26, <1>27, <1>28, <1>29, <1>30, <1>31, <1>32, <1>33, <1>34, <1>35, <1>36, <1>37,
             <1>38, <1>39, <1>40, <1>41, <1>42 DEF Next, Step, Button

LEMMA TypeAlways == Spec => []TypeInv
  BY InitTyped, TypeStep, PTL DEF Spec

(* What the order of a charge is, while a process asks the panel, knows    *)
(* its answer or calls refundStarPayment.                                  *)
TaskFits(w) ==
    LET o == order[ChargeOf(w)] IN
    /\ At(w, "panel") => o = "PROVISIONING"
    /\ At(w, "write") => /\ task[w].to = "COMPLETED" => o = "COMPLETED"
                         /\ task[w].to = "REFUND_PENDING" => o = "FAILED"
    /\ At(w, "call") => o = "FAILED"
TasksFit == \A w \in Procs : TaskFits(w)

(* The claim of an order lets one process to the panel.                    *)
OnePanel == \A v, w \in Procs :
                At(v, "panel") /\ At(w, "panel") /\ ChargeOf(v) = ChargeOf(w) => v = w

(* The chain of a charge was made when it has an order, once.              *)
Counted == \A c \in Charges : chains[c] = IF HasOrder(c) THEN 1 ELSE 0

RefundInv == TasksFit /\ OnePanel /\ Counted /\ RenewedOrRefunded

OnOrder == {"panel", "write", "call"}

(* A step away from orders and the panel.                                  *)
LEMMA QuietStep ==
    ASSUME RefundInv, TasksOK, UNCHANGED <<order, chains, called>>,
           \A c \in Charges : charge'[c].status # charge[c].status =>
                                  charge'[c].status \notin {"COMPLETED", "REFUND_PENDING"},
           \A w \in Procs : task'[w] # task[w] => task'[w].pc \notin OnOrder
    PROVE  RefundInv'
  <1>1. TasksFit'
    BY DEF RefundInv, TasksFit, TaskFits, OnOrder
  <1>2. OnePanel'
    BY DEF RefundInv, OnePanel, OnOrder
  <1>3. Counted'
    BY DEF RefundInv, Counted
  <1>4. RenewedOrRefunded'
    BY DEF RefundInv, RenewedOrRefunded
  <1> QED BY <1>1, <1>2, <1>3, <1>4 DEF RefundInv

(* A process that did not move still fits its order, if the order did not  *)
(* change, was not there, was PAID, or is at no panel of its.              *)
LEMMA OtherFits ==
    ASSUME RefundInv, TasksOK, NEW w \in Procs, task'[w] = task[w],
           ChargeOf(w) \in Charges /\ order'[ChargeOf(w)] # order[ChargeOf(w)] =>
              \/ order[ChargeOf(w)] \in {"NONE", "PAID"}
              \/ order[ChargeOf(w)] = "PROVISIONING" /\ ~At(w, "panel")
    PROVE  TaskFits(w)'
  BY DEF RefundInv, TasksFit, TaskFits, TasksOK, Chargeless

(* The charges whose order is settled keep it.                             *)
LEMMA OrderMoves ==
    ASSUME RefundInv, UNCHANGED <<charge, called>>,
           \A c \in Charges : order'[c] # order[c] => order[c] \notin {"COMPLETED", "FAILED"}
    PROVE  RenewedOrRefunded'
  BY DEF RefundInv, RenewedOrRefunded

(* The helpers of the handlers move one process record.                    *)
LEMMA OnlyMoves ==
    ASSUME TasksOK, NEW w \in Procs
    PROVE  /\ \A pc : Goto(w, pc) \/ Hold(w, pc) =>
                  \A v \in Procs : task'[v] # task[v] => v = w /\ task'[v].pc = pc
           /\ Leave(w) => \A v \in Procs : task'[v] # task[v] => v = w /\ task'[v].pc = "idle"
  <1>1. ASSUME NEW pc, Goto(w, pc)
        PROVE  \A v \in Procs : task'[v] # task[v] => v = w /\ task'[v].pc = pc
    BY <1>1 DEF Goto, TasksOK, TaskType
  <1>2. ASSUME NEW pc, Hold(w, pc)
        PROVE  \A v \in Procs : task'[v] # task[v] => v = w /\ task'[v].pc = pc
    BY <1>2 DEF Hold, TasksOK, IdleTask
  <1>3. ASSUME Leave(w)
        PROVE  \A v \in Procs : task'[v] # task[v] => v = w /\ task'[v].pc = "idle"
    BY <1>3 DEF Leave, TasksOK, IdleTask
  <1> QED BY <1>1, <1>2, <1>3

LEMMA BeginsQuiet ==
    ASSUME TasksOK, NEW w \in Procs, NEW kind \in Kinds, NEW c, NEW f, NEW a,
           Begin(w, kind, c, f, a)
    PROVE  \A v \in Procs : task'[v] # task[v] => task'[v].pc \notin OnOrder
  <1>1. PICK r : task' = [task EXCEPT ![w] = r] /\ r.pc = FirstStep(kind)
    <2> DEFINE r == [IdleTask EXCEPT !.pc = FirstStep(kind), !.charge = c, !.kind = kind,
                                     !.isFirst = f, !.again = a]
    <2>1. r.pc = FirstStep(kind)
      BY IdleTyped DEF TaskType
    <2> HIDE DEF r
    <2>2. task' = [task EXCEPT ![w] = r]
      BY DEF Begin, r
    <2> QED BY <2>1, <2>2
  <1>2. FirstStep(kind) \notin OnOrder
    BY DEF FirstStep, Kinds, OnOrder
  <1> QED BY <1>1, <1>2 DEF TasksOK

LEMMA ChainStep ==
    ASSUME TypeInv, RefundInv, NEW w \in Procs, CreateChain(w)
    PROVE  RefundInv'
  <1>0. RowsOK /\ TasksOK /\ RestOK
    BY DEF TypeInv
  <1>1. task[w].charge \in Charges
    BY <1>0 DEF CreateChain, TasksOK, Chargeless
  <1>2. \A v \in Procs : task'[v] # task[v] => v = w /\ task'[v].pc \in {"idle", "dispatch"}
    BY <1>0, OnlyMoves DEF CreateChain
  <1>3. CASE UNCHANGED <<rows, chains>>
    BY <1>0, <1>2, <1>3, QuietStep DEF CreateChain, OnOrder
  <1>4. CASE ~ UNCHANGED <<rows, chains>>
    <2>1. /\ order[ChargeOf(w)] = "NONE"
          /\ order' = [order EXCEPT ![ChargeOf(w)] = "PAID"]
          /\ chains' = [chains EXCEPT ![ChargeOf(w)] = @ + 1]
          /\ SetCharge(ChargeOf(w), ChargeStatuses, "FULFILLING")
          /\ UNCHANGED called
      BY <1>4 DEF CreateChain
    <2>2. \A d \in Charges : charge'[d].status # charge[d].status => charge'[d].status = "FULFILLING"
      BY <1>0, <1>1, <2>1, SetChargeTyped DEF ChargeStatuses
    <2>3. TasksFit'
      <3> SUFFICES ASSUME NEW v \in Procs PROVE TaskFits(v)'
        BY DEF TasksFit
      <3>1. CASE task'[v] = task[v]
        BY <3>1, <1>0, <1>1, <2>1, OtherFits DEF RowsOK
      <3>2. CASE task'[v] # task[v]
        BY <3>2, <1>2 DEF TaskFits
      <3> QED BY <3>1, <3>2
    <2>4. OnePanel'
      BY <1>2 DEF RefundInv, OnePanel
    <2>5. Counted'
      BY <1>0, <1>1, <2>1 DEF RefundInv, Counted, RowsOK, RestOK
    <2>6. RenewedOrRefunded'
      BY <1>0, <1>1, <2>1, <2>2 DEF RefundInv, RenewedOrRefunded, RowsOK
    <2> QED BY <2>3, <2>4, <2>5, <2>6 DEF RefundInv
  <1> QED BY <1>3, <1>4

LEMMA DispatchStep ==
    ASSUME TypeInv, RefundInv, NEW w \in Procs, Dispatch(w)
    PROVE  RefundInv'
  <1>0. RowsOK /\ TasksOK
    BY DEF TypeInv
  <1>1. task[w].charge \in Charges
    BY <1>0 DEF Dispatch, TasksOK, Chargeless
  <1>2. /\ \A v \in Procs \ {w} : task'[v] = task[v]
        /\ task'[w].charge = task[w].charge /\ TaskFits(w)'
        /\ task'[w].pc = "panel" => order[ChargeOf(w)] = "PAID"
    BY <1>0, <1>1 DEF Dispatch, Goto, Write, TasksOK, TaskType, TaskFits, RowsOK
  <1>3. /\ \A c \in Charges : order'[c] # order[c] => order[c] = "PAID" /\ c = ChargeOf(w)
        /\ \A c \in Charges : order[c] = "NONE" <=> order'[c] = "NONE"
    BY <1>0, <1>1 DEF Dispatch, RowsOK
  <1>4. TasksFit'
    <2>1. ASSUME NEW v \in Procs \ {w} PROVE TaskFits(v)'
      <3>1. ChargeOf(v) \in Charges /\ order'[ChargeOf(v)] # order[ChargeOf(v)] => order[ChargeOf(v)] = "PAID"
        BY <1>0, <1>1 DEF Dispatch, RowsOK
      <3> QED BY <1>0, <1>2, <3>1, OtherFits
    <2> QED BY <1>2, <2>1 DEF TasksFit
  <1>5. OnePanel'
    BY <1>2 DEF RefundInv, OnePanel, TasksFit, TaskFits
  <1>6. Counted' /\ RenewedOrRefunded'
    BY <1>3, OrderMoves DEF Dispatch, RefundInv, Counted
  <1> QED BY <1>4, <1>5, <1>6 DEF RefundInv

LEMMA PanelStep ==
    ASSUME TypeInv, RefundInv, NEW w \in Procs, Panel(w)
    PROVE  RefundInv'
  <1>0. RowsOK /\ TasksOK
    BY DEF TypeInv
  <1>1. task[w].charge \in Charges /\ order[ChargeOf(w)] = "PROVISIONING"
    BY <1>0 DEF Panel, TasksOK, Chargeless, RefundInv, TasksFit, TaskFits
  <1>2. /\ \A v \in Procs \ {w} : task'[v] = task[v]
        /\ task'[w].pc = "write" /\ TaskFits(w)'
    BY <1>0, <1>1 DEF Panel, Write, TasksOK, TaskType, TaskFits, RowsOK
  <1>3. /\ \A c \in Charges : order'[c] # order[c] => order[c] = "PROVISIONING"
        /\ \A c \in Charges : order[c] = "NONE" <=> order'[c] = "NONE"
    BY <1>0, <1>1 DEF Panel, RowsOK
  <1>4. TasksFit'
    <2>1. ASSUME NEW v \in Procs \ {w} PROVE TaskFits(v)'
      <3>1. ChargeOf(v) \in Charges /\ order'[ChargeOf(v)] # order[ChargeOf(v)] => ChargeOf(v) = ChargeOf(w)
        BY <1>0, <1>1 DEF Panel, RowsOK
      <3>2. ChargeOf(v) = ChargeOf(w) => ~At(v, "panel")
        BY DEF Panel, RefundInv, OnePanel
      <3> QED BY <1>0, <1>1, <1>2, <3>1, <3>2, OtherFits
    <2> QED BY <1>2, <2>1 DEF TasksFit
  <1>5. OnePanel'
    BY <1>2 DEF RefundInv, OnePanel
  <1>6. Counted' /\ RenewedOrRefunded'
    BY <1>3, OrderMoves DEF Panel, RefundInv, Counted
  <1> QED BY <1>4, <1>5, <1>6 DEF RefundInv

LEMMA OutcomeStep ==
    ASSUME TypeInv, RefundInv, NEW w \in Procs, WriteOutcome(w)
    PROVE  RefundInv'
  <1>0. RowsOK /\ TasksOK
    BY DEF TypeInv
  <1>1. /\ task[w].charge \in Charges /\ task[w].to \in ChargeStatuses
        /\ task[w].to = "COMPLETED" => order[ChargeOf(w)] = "COMPLETED"
        /\ task[w].to = "REFUND_PENDING" => order[ChargeOf(w)] = "FAILED"
    BY <1>0 DEF WriteOutcome, TasksOK, TaskType, Chargeless, RefundInv, TasksFit, TaskFits
  <1>2. \A d \in Charges : charge'[d].status # charge[d].status =>
                               d = ChargeOf(w) /\ charge'[d].status = task[w].to
    BY <1>0, <1>1, SetChargeTyped DEF WriteOutcome
  <1>3. \A v \in Procs : task'[v] # task[v] => task'[v].pc \in {"idle", "activate", "refund"}
    BY <1>0, OnlyMoves DEF WriteOutcome
  <1>4. UNCHANGED <<order, chains, called>>
    BY DEF WriteOutcome
  <1>5. TasksFit' /\ OnePanel'
    BY <1>3, <1>4 DEF RefundInv, TasksFit, TaskFits, OnePanel
  <1>6. Counted' /\ RenewedOrRefunded'
    BY <1>1, <1>2, <1>4 DEF RefundInv, Counted, RenewedOrRefunded
  <1> QED BY <1>5, <1>6 DEF RefundInv

LEMMA ReadRefundStep ==
    ASSUME TypeInv, RefundInv, NEW w \in Procs, ReadRefund(w)
    PROVE  RefundInv'
  <1>0. RowsOK /\ TasksOK
    BY DEF TypeInv
  <1>1. task[w].charge \in Charges
    BY <1>0 DEF ReadRefund, TasksOK, Chargeless
  <1>2. /\ \A v \in Procs \ {w} : task'[v] = task[v]
        /\ task'[w].pc \in {"idle", "call"}
        /\ task'[w].pc = "call" =>
              task'[w].charge = task[w].charge /\ order[ChargeOf(w)] = "FAILED"
    BY <1>0, <1>1, IdleTyped DEF ReadRefund, Leave, TasksOK, TaskType, RefundInv, RenewedOrRefunded
  <1>3. TasksFit' /\ OnePanel'
    BY <1>2 DEF ReadRefund, RefundInv, TasksFit, TaskFits, OnePanel
  <1>4. Counted' /\ RenewedOrRefunded'
    BY DEF ReadRefund, RefundInv, Counted, RenewedOrRefunded
  <1> QED BY <1>3, <1>4 DEF RefundInv

LEMMA CallStep ==
    ASSUME TypeInv, RefundInv, NEW w \in Procs, CallRefund(w)
    PROVE  RefundInv'
  <1>0. RowsOK /\ TasksOK
    BY DEF TypeInv
  <1>1. order[ChargeOf(w)] = "FAILED"
    BY DEF CallRefund, RefundInv, TasksFit, TaskFits
  <1>2. called' \subseteq called \cup {ChargeOf(w)} /\ UNCHANGED <<rows, chains>>
    BY DEF CallRefund
  <1>3. \A v \in Procs : task'[v] # task[v] => task'[v].pc \in {"confirm", "count"}
    BY <1>0 DEF CallRefund, Goto, TasksOK, TaskType
  <1>4. TasksFit' /\ OnePanel'
    BY <1>2, <1>3 DEF RefundInv, TasksFit, TaskFits, OnePanel
  <1>5. Counted' /\ RenewedOrRefunded'
    BY <1>1, <1>2 DEF RefundInv, Counted, RenewedOrRefunded
  <1> QED BY <1>4, <1>5 DEF RefundInv

(* Startup recovery takes an order at which no process asks the panel.     *)
LEMMA RecoverStep ==
    ASSUME TypeInv, RefundInv, NEW c \in Charges, RecoverOrder(c)
    PROVE  RefundInv'
  <1>0. RowsOK /\ TasksOK
    BY DEF TypeInv
  <1>1. TasksFit'
    <2>1. ASSUME NEW v \in Procs PROVE TaskFits(v)'
      <3>1. ChargeOf(v) \in Charges /\ order'[ChargeOf(v)] # order[ChargeOf(v)] => ChargeOf(v) = c
        BY <1>0 DEF RecoverOrder, RowsOK
      <3> QED BY <1>0, <3>1, OtherFits DEF RecoverOrder
    <2> QED BY <2>1 DEF TasksFit
  <1>2. OnePanel'
    BY DEF RecoverOrder, RefundInv, OnePanel
  <1>3. \A d \in Charges : /\ order'[d] # order[d] => order[d] = "PROVISIONING"
                           /\ order[d] = "NONE" <=> order'[d] = "NONE"
    BY <1>0 DEF RecoverOrder, RowsOK
  <1>4. Counted' /\ RenewedOrRefunded'
    BY <1>3, OrderMoves DEF RecoverOrder, RefundInv, Counted
  <1> QED BY <1>1, <1>2, <1>4 DEF RefundInv

LEMMA InitRefund == Init => RefundInv
  BY DEF Init, RefundInv, TasksFit, TaskFits, OnePanel, Counted, RenewedOrRefunded, IdleTask

(* Every step keeps orders, refunds and their processes together.          *)
LEMMA RefundStep == TypeInv /\ RefundInv /\ [Next]_vars => RefundInv'
  <1> SUFFICES ASSUME TypeInv, RefundInv, [Next]_vars PROVE RefundInv'
    OBVIOUS
  <1>0. RowsOK /\ TasksOK /\ RestOK
    BY DEF TypeInv
  <1>1. ASSUME NEW w \in Procs, CreateCharge(w) PROVE RefundInv'
    <2>1. \A d \in Charges : charge'[d].status # charge[d].status =>
                                   charge'[d].status \notin {"COMPLETED", "REFUND_PENDING"}
      BY <1>1, <1>0 DEF CreateCharge, RowsOK, ChargeType
    <2>2. \A v \in Procs : task'[v] # task[v] => task'[v].pc \notin OnOrder
      <3>1. Leave(w) \/ \E pc \in {"refund", "dispatch", "claim"} : Goto(w, pc) \/ Hold(w, pc)
        BY <1>1 DEF CreateCharge
      <3> QED BY <3>1, <1>0, OnlyMoves DEF OnOrder
    <2> QED BY <2>1, <2>2, <1>1, <1>0, QuietStep DEF CreateCharge
  <1>2. ASSUME NEW w \in Procs, ClaimCharge(w) PROVE RefundInv'
    <2>1. \A d \in Charges : charge'[d].status # charge[d].status =>
                                   charge'[d].status \notin {"COMPLETED", "REFUND_PENDING"}
      BY <1>2, <1>0, SetChargeTyped DEF ClaimCharge, ChargeStatuses, Chargeless, TasksOK
    <2>2. \A v \in Procs : task'[v] # task[v] => task'[v].pc \notin OnOrder
      BY <1>2, <1>0, IdleTyped DEF ClaimCharge, Goto, Leave, TasksOK, TaskType, OnOrder
    <2> QED BY <2>1, <2>2, <1>2, <1>0, QuietStep DEF ClaimCharge
  <1>3. ASSUME NEW w \in Procs, CreateChain(w) PROVE RefundInv'
    BY <1>3, ChainStep
  <1>4. ASSUME NEW w \in Procs, ChainThrows(w) PROVE RefundInv'
    <2>1. \A d \in Charges : charge'[d].status # charge[d].status =>
                                   charge'[d].status \notin {"COMPLETED", "REFUND_PENDING"}
      BY <1>4 DEF ChainThrows
    <2>2. \A v \in Procs : task'[v] # task[v] => task'[v].pc \notin OnOrder
      BY <1>4, <1>0, IdleTyped DEF ChainThrows, Hold, TasksOK, TaskType, OnOrder
    <2> QED BY <2>1, <2>2, <1>4, <1>0, QuietStep DEF ChainThrows
  <1>5. ASSUME NEW w \in Procs, SettleFails(w) PROVE RefundInv'
    <2>1. \A d \in Charges : charge'[d].status # charge[d].status =>
                                   charge'[d].status \notin {"COMPLETED", "REFUND_PENDING"}
      BY <1>5, <1>0, SetChargeTyped DEF SettleFails, ChargeStatuses, Chargeless, TasksOK
    <2>2. \A v \in Procs : task'[v] # task[v] => task'[v].pc \notin OnOrder
      BY <1>5, <1>0, IdleTyped DEF SettleFails, Leave, TasksOK, TaskType, OnOrder
    <2> QED BY <2>1, <2>2, <1>5, <1>0, QuietStep DEF SettleFails
  <1>6. ASSUME NEW w \in Procs, Dispatch(w) PROVE RefundInv'
    BY <1>6, DispatchStep
  <1>7. ASSUME NEW w \in Procs, Panel(w) PROVE RefundInv'
    BY <1>7, PanelStep
  <1>8. ASSUME NEW w \in Procs, WriteOutcome(w) PROVE RefundInv'
    BY <1>8, OutcomeStep
  <1>9. ASSUME NEW w \in Procs, Activate(w) PROVE RefundInv'
    <2>1. \A d \in Charges : charge'[d].status # charge[d].status =>
                                   charge'[d].status \notin {"COMPLETED", "REFUND_PENDING"}
      BY <1>9 DEF Activate
    <2>2. \A v \in Procs : task'[v] # task[v] => task'[v].pc \notin OnOrder
      BY <1>9, <1>0, IdleTyped DEF Activate, Leave, TasksOK, TaskType, OnOrder
    <2> QED BY <2>1, <2>2, <1>9, <1>0, QuietStep DEF Activate
  <1>10. ASSUME NEW w \in Procs, ReadRefund(w) PROVE RefundInv'
    BY <1>10, ReadRefundStep
  <1>11. ASSUME NEW w \in Procs, CallRefund(w) PROVE RefundInv'
    BY <1>11, CallStep
  <1>12. ASSUME NEW w \in Procs, CountFailure(w) PROVE RefundInv'
    <2>1. \A d \in Charges : charge'[d].status # charge[d].status =>
                                   charge'[d].status \notin {"COMPLETED", "REFUND_PENDING"}
      BY <1>12, <1>0 DEF CountFailure, RowsOK, ChargeType
    <2>2. \A v \in Procs : task'[v] # task[v] => task'[v].pc \notin OnOrder
      BY <1>12, <1>0, IdleTyped DEF CountFailure, Leave, TasksOK, TaskType, OnOrder
    <2> QED BY <2>1, <2>2, <1>12, <1>0, QuietStep DEF CountFailure
  <1>13. ASSUME NEW w \in Procs, ConfirmRefund(w) PROVE RefundInv'
    <2>1. \A d \in Charges : charge'[d].status # charge[d].status =>
                                   charge'[d].status \notin {"COMPLETED", "REFUND_PENDING"}
      BY <1>13, <1>0, SetChargeTyped DEF ConfirmRefund, ChargeStatuses, Chargeless, TasksOK
    <2>2. \A v \in Procs : task'[v] # task[v] => task'[v].pc \notin OnOrder
      BY <1>13, <1>0, IdleTyped DEF ConfirmRefund, Goto, Leave, TasksOK, TaskType, OnOrder
    <2> QED BY <2>1, <2>2, <1>13, <1>0, QuietStep DEF ConfirmRefund
  <1>14. ASSUME NEW w \in Procs, StopBilling(w) PROVE RefundInv'
    <2>1. \A d \in Charges : charge'[d].status # charge[d].status =>
                                   charge'[d].status \notin {"COMPLETED", "REFUND_PENDING"}
      BY <1>14 DEF StopBilling
    <2>2. \A v \in Procs : task'[v] # task[v] => task'[v].pc \notin OnOrder
      BY <1>14, <1>0, IdleTyped DEF StopBilling, Hold, TasksOK, TaskType, OnOrder
    <2> QED BY <2>1, <2>2, <1>14, <1>0, QuietStep DEF StopBilling
  <1>15. ASSUME NEW w \in Procs, RequireAction(w) PROVE RefundInv'
    <2>1. \A d \in Charges : charge'[d].status # charge[d].status =>
                                   charge'[d].status \notin {"COMPLETED", "REFUND_PENDING"}
      BY <1>15 DEF RequireAction
    <2>2. \A v \in Procs : task'[v] # task[v] => task'[v].pc \notin OnOrder
      BY <1>15, <1>0, IdleTyped DEF RequireAction, Leave, TasksOK, TaskType, OnOrder
    <2> QED BY <2>1, <2>2, <1>15, <1>0, QuietStep DEF RequireAction
  <1>16. ASSUME NEW w \in Procs, ReadStuck(w) PROVE RefundInv'
    <2>1. \A d \in Charges : charge'[d].status # charge[d].status =>
                                   charge'[d].status \notin {"COMPLETED", "REFUND_PENDING"}
      BY <1>16 DEF ReadStuck
    <2>2. \A v \in Procs : task'[v] # task[v] => task'[v].pc \notin OnOrder
      BY <1>16, <1>0, IdleTyped DEF ReadStuck, Goto, Leave, TasksOK, TaskType, OnOrder
    <2> QED BY <2>1, <2>2, <1>16, <1>0, QuietStep DEF ReadStuck
  <1>17. ASSUME NEW w \in Procs, ResetCharge(w) PROVE RefundInv'
    <2>1. \A d \in Charges : charge'[d].status # charge[d].status =>
                                   charge'[d].status \notin {"COMPLETED", "REFUND_PENDING"}
      BY <1>17, <1>0, SetChargeTyped DEF ResetCharge, ChargeStatuses, Chargeless, TasksOK
    <2>2. \A v \in Procs : task'[v] # task[v] => task'[v].pc \notin OnOrder
      BY <1>17, <1>0, IdleTyped DEF ResetCharge, TasksOK, TaskType, OnOrder
    <2> QED BY <2>1, <2>2, <1>17, <1>0, QuietStep DEF ResetCharge
  <1>18. ASSUME NEW w \in Procs, Throws(w) PROVE RefundInv'
    <2>1. \A d \in Charges : charge'[d].status # charge[d].status =>
                                   charge'[d].status \notin {"COMPLETED", "REFUND_PENDING"}
      BY <1>18 DEF Throws
    <2>2. \A v \in Procs : task'[v] # task[v] => task'[v].pc \notin OnOrder
      BY <1>18, <1>0, IdleTyped DEF Throws, Leave, TasksOK, TaskType, OnOrder
    <2> QED BY <2>1, <2>2, <1>18, <1>0, QuietStep DEF Throws
  <1>19. ASSUME NEW w \in Consumers, NEW j \in jobs, StartJob(w, j) PROVE RefundInv'
    <2>1. \A d \in Charges : charge'[d].status # charge[d].status =>
                                   charge'[d].status \notin {"COMPLETED", "REFUND_PENDING"}
      BY <1>19 DEF StartJob
    <2>2. \A v \in Procs : task'[v] # task[v] => task'[v].pc \notin OnOrder
      <3>1. j.kind \in Kinds
        BY <1>0 DEF RestOK, JobType
      <3>2. w \in Procs /\ Begin(w, j.kind, j.charge, j.isFirst, j.again)
        BY <1>19 DEF StartJob, Procs
      <3> QED BY <3>1, <3>2, <1>0, BeginsQuiet
    <2> QED BY <2>1, <2>2, <1>19, <1>0, QuietStep DEF StartJob
  <1>20. ASSUME NEW c \in Charges, SuccessfulPayment(c) PROVE RefundInv'
    <2>1. \A d \in Charges : charge'[d].status # charge[d].status =>
                                   charge'[d].status \notin {"COMPLETED", "REFUND_PENDING"}
      BY <1>20 DEF SuccessfulPayment
    <2>2. \A v \in Procs : task'[v] # task[v] => task'[v].pc \notin OnOrder
      BY <1>20, <1>0, BeginsQuiet DEF SuccessfulPayment, Procs, Kinds
    <2> QED BY <2>1, <2>2, <1>20, <1>0, QuietStep DEF SuccessfulPayment
  <1>21. ASSUME NEW c \in Charges, RefundedPayment(c) PROVE RefundInv'
    <2>1. \A d \in Charges : charge'[d].status # charge[d].status =>
                                   charge'[d].status \notin {"COMPLETED", "REFUND_PENDING"}
      BY <1>21, <1>0, SetChargeTyped DEF RefundedPayment, ChargeStatuses
    <2>2. \A v \in Procs : task'[v] # task[v] => task'[v].pc \notin OnOrder
      BY <1>21, <1>0, IdleTyped DEF RefundedPayment, Goto, TasksOK, TaskType, OnOrder
    <2> QED BY <2>1, <2>2, <1>21, <1>0, QuietStep DEF RefundedPayment
  <1>22. ASSUME NEW c \in Charges, LoseUpdate(c) PROVE RefundInv'
    BY <1>22, <1>0, QuietStep DEF LoseUpdate
  <1>23. ASSUME NEW c \in Charges, RecoverOrder(c) PROVE RefundInv'
    BY <1>23, RecoverStep
  <1>24. ASSUME NEW c \in Charges, RecoverPayment(c) PROVE RefundInv'
    BY <1>24, <1>0, QuietStep DEF RecoverPayment, Enqueue
  <1>25. ASSUME NEW c \in Charges, SelectStuck(c) PROVE RefundInv'
    BY <1>25, <1>0, QuietStep DEF SelectStuck, Enqueue
  <1>26. ASSUME NEW c \in Charges, SelectRefund(c) PROVE RefundInv'
    BY <1>26, <1>0, QuietStep DEF SelectRefund, Enqueue
  <1>27. ASSUME NEW c \in Charges, ExhaustRefund(c) PROVE RefundInv'
    BY <1>27, <1>0, QuietStep DEF ExhaustRefund
  <1>28. ASSUME NEW c \in Charges, ReturnElsewhere(c) PROVE RefundInv'
    BY <1>28, <1>0, QuietStep DEF ReturnElsewhere
  <1>29. ASSUME ReconcileRefund PROVE RefundInv'
    <2>1. \A d \in Charges : charge'[d].status # charge[d].status =>
                                   charge'[d].status \notin {"COMPLETED", "REFUND_PENDING"}
      BY <1>29, <1>0 DEF ReconcileRefund, SetCharges, RowsOK, ChargeType
    <2>2. \A v \in Procs : task'[v] # task[v] => task'[v].pc \notin OnOrder
      BY <1>29 DEF ReconcileRefund
    <2> QED BY <2>1, <2>2, <1>29, <1>0, QuietStep DEF ReconcileRefund
  <1>30. ASSUME ReadPastDue PROVE RefundInv'
    BY <1>30, <1>0, QuietStep DEF ReadPastDue
  <1>31. ASSUME CountNewer PROVE RefundInv'
    BY <1>31, <1>0, QuietStep DEF CountNewer
  <1>32. ASSUME MarkPastDue PROVE RefundInv'
    BY <1>32, <1>0, QuietStep DEF MarkPastDue
  <1>33. ASSUME SubscriptionUpdate PROVE RefundInv'
    BY <1>33, <1>0, QuietStep DEF SubscriptionUpdate
  <1>34. ASSUME CancelBilling PROVE RefundInv'
    <2>1. \A d \in Charges : charge'[d].status # charge[d].status =>
                                   charge'[d].status \notin {"COMPLETED", "REFUND_PENDING"}
      BY <1>34 DEF CancelBilling
    <2>2. \A v \in Procs : task'[v] # task[v] => task'[v].pc \notin OnOrder
      BY <1>34, <1>0, IdleTyped DEF CancelBilling, Goto, TasksOK, TaskType, OnOrder
    <2> QED BY <2>1, <2>2, <1>34, <1>0, QuietStep DEF CancelBilling
  <1>35. ASSUME CancelSubscription PROVE RefundInv'
    <2>1. \A d \in Charges : charge'[d].status # charge[d].status =>
                                   charge'[d].status \notin {"COMPLETED", "REFUND_PENDING"}
      BY <1>35 DEF CancelSubscription
    <2>2. \A v \in Procs : task'[v] # task[v] => task'[v].pc \notin OnOrder
      BY <1>35, <1>0, IdleTyped DEF CancelSubscription, Leave, TasksOK, TaskType, OnOrder
    <2> QED BY <2>1, <2>2, <1>35, <1>0, QuietStep DEF CancelSubscription
  <1>36. ASSUME Reactivate PROVE RefundInv'
    <2>1. \A d \in Charges : charge'[d].status # charge[d].status =>
                                   charge'[d].status \notin {"COMPLETED", "REFUND_PENDING"}
      BY <1>36 DEF Reactivate
    <2>2. \A v \in Procs : task'[v] # task[v] => task'[v].pc \notin OnOrder
      BY <1>36, <1>0, IdleTyped DEF Reactivate, TasksOK, TaskType, OnOrder
    <2> QED BY <2>1, <2>2, <1>36, <1>0, QuietStep DEF Reactivate
  <1>37. ASSUME ReactivateBilling PROVE RefundInv'
    <2>1. \A d \in Charges : charge'[d].status # charge[d].status =>
                                   charge'[d].status \notin {"COMPLETED", "REFUND_PENDING"}
      BY <1>37 DEF ReactivateBilling
    <2>2. \A v \in Procs : task'[v] # task[v] => task'[v].pc \notin OnOrder
      BY <1>37, <1>0, IdleTyped DEF ReactivateBilling, Goto, Leave, TasksOK, TaskType, OnOrder
    <2> QED BY <2>1, <2>2, <1>37, <1>0, QuietStep DEF ReactivateBilling
  <1>38. ASSUME ReactivateSubscription PROVE RefundInv'
    <2>1. \A d \in Charges : charge'[d].status # charge[d].status =>
                                   charge'[d].status \notin {"COMPLETED", "REFUND_PENDING"}
      BY <1>38 DEF ReactivateSubscription
    <2>2. \A v \in Procs : task'[v] # task[v] => task'[v].pc \notin OnOrder
      BY <1>38, <1>0, IdleTyped DEF ReactivateSubscription, Leave, TasksOK, TaskType, OnOrder
    <2> QED BY <2>1, <2>2, <1>38, <1>0, QuietStep DEF ReactivateSubscription
  <1>39. ASSUME Bill PROVE RefundInv'
    BY <1>39, <1>0, QuietStep DEF Bill
  <1>40. ASSUME BotCrash PROVE RefundInv'
    <2>1. \A d \in Charges : charge'[d].status # charge[d].status =>
                                   charge'[d].status \notin {"COMPLETED", "REFUND_PENDING"}
      BY <1>40 DEF BotCrash
    <2>2. \A v \in Procs : task'[v] # task[v] => task'[v].pc \notin OnOrder
      BY <1>40, <1>0, IdleTyped DEF BotCrash, TasksOK, TaskType, OnOrder
    <2> QED BY <2>1, <2>2, <1>40, <1>0, QuietStep DEF BotCrash
  <1>41. CASE UNCHANGED vars
    BY <1>41, <1>0, QuietStep DEF vars
  <1>42. ASSUME NEW c \in Charges, DropFailed(c) PROVE RefundInv'
    BY <1>42, <1>0, QuietStep DEF DropFailed
  <1> QED BY <1>1, <1>2, <1>3, <1>4, <1>5, <1>6, <1>7, <1>8, <1>9, <1>10, <1>11, <1>12, <1>13,
             <1>14, <1>15, <1>16, <1>17, <1>18, <1>19, <1>20, <1>21, <1>22, <1>23, <1>24, <1>25,
             <1>26, <1>27, <1>28, <1>29, <1>30, <1>31, <1>32, <1>33, <1>34, <1>35, <1>36, <1>37,
             <1>38, <1>39, <1>40, <1>41, <1>42 DEF Next, Step, Button

LEMMA RefundAlways == Spec => []RefundInv
  BY InitTyped, InitRefund, TypeStep, RefundStep, PTL DEF Spec

(* Rows keep their types through the compare-and-sets of the settlement,   *)
(* the refund and the scans, processes and jobs through crashes.           *)
THEOREM StarsTypeCorrect == Spec => []TypeOK
  BY TypeAlways, TypeInvTypes, PTL

(* finishAfterOrder and refundStarsSubscriptionCharge never return the     *)
(* Stars of a renewed cycle: an unanswered panel leaves the charge to      *)
(* reconcile, whichever handler, job or startup recovery settles it.       *)
THEOREM RenewalOrRefund == Spec => []RenewedOrRefunded
  <1>1. RefundInv => RenewedOrRefunded
    BY DEF RefundInv
  <1> QED BY <1>1, RefundAlways, PTL

(* createPaymentOrderChain makes one chain per charge, also when a reset   *)
(* lets two settlements of it run.                                         *)
THEOREM ChainOnce == Spec => []OneChain
  <1>1. RefundInv => OneChain
    BY DEF RefundInv, Counted, OneChain
  <1> QED BY <1>1, RefundAlways, PTL
=============================================================================
