------------------------ MODULE Provisioning_proofs ------------------------
(***************************************************************************)
(* Theorems about Provisioning, for every set of orders and processes and  *)
(* every bound.                                                            *)
(*                                                                         *)
(* The steps fall in two kinds (QuietOrNoisy): those that change no row of *)
(* an order and send nothing, and the seven that do.  Each of CreatedOnce, *)
(* OutcomeAccounted and HeldUntouched is strengthened to an invariant of   *)
(* its own that the quiet steps keep at once.                              *)
(***************************************************************************)
EXTENDS Provisioning, TLAPS

USE DEF rows, panel, bounds, External, At, Runs, OrderOf, LockOf

(* TypeOK in three parts: the processes, the rows, the rest.               *)
TasksOK ==
    /\ task \in [Procs -> TaskRecord]
    /\ \A w \in Procs : task[w].pc # "idle" => task[w].order \in Orders
RowsOK ==
    /\ order \in [Orders -> OrderStatuses]
    /\ named \subseteq Orders /\ service \subseteq Orders
    /\ refunds \in [Orders -> Nat]
    /\ reservation \in [Orders -> ReservationStatuses]
    /\ held \subseteq Orders /\ drifted \subseteq Orders

RestOK ==
    /\ stale \subseteq Orders
    /\ account \in [Orders -> [Sites -> {"none", "own", "foreign"}]]
    /\ flying \subseteq Orders \X Sites
    /\ created \in [Orders -> Nat]
    /\ lock \in [Orders -> [Sites -> Procs \cup {Free, Dead}]]
    /\ batch \subseteq Orders /\ sweeps \in 0 .. 2
    /\ jobs \in [Orders -> Nat] /\ crashes \in Nat /\ lapses \in Nat

LEMMA TypeParts == TypeOK <=> TasksOK /\ RowsOK /\ RestOK
  BY DEF TypeOK, TasksOK, RowsOK, RestOK

(* The three ways a process record changes keep its type.                  *)
LEMMA GotoTyped ==
    ASSUME TasksOK, NEW w \in Procs, NEW pc \in Steps, ~At(w, "idle"), Goto(w, pc)
    PROVE  TasksOK'
  BY DEF TasksOK, TaskRecord, Goto

LEMMA LeaveTyped ==
    ASSUME TasksOK, NEW w \in Procs, ~At(w, "idle"), Leave(w)
    PROVE  TasksOK'
  <1>1. IdleTask \in TaskRecord
    BY DEF IdleTask, TaskRecord, Flows, Steps, Sites
  <1>2. Done(task[w]) \in TaskRecord /\ Done(task[w]).order \in Orders \cup {NoOrder}
    BY <1>1 DEF Done, TasksOK, TaskRecord, Steps
  <1>3. Done(task[w]).pc # "idle" => Done(task[w]).order \in Orders
    BY DEF Done, TasksOK, TaskRecord, IdleTask
  <1> QED BY <1>2, <1>3 DEF TasksOK, Leave

LEMMA BeginTyped ==
    ASSUME TasksOK, NEW w \in Procs, NEW f \in Flows, NEW o \in Orders, NEW pc \in Steps, NEW s \in Sites,
           Begin(w, f, o, pc, s)
    PROVE  TasksOK'
  BY DEF TasksOK, TaskRecord, Begin, IdleTask

(* The conditional status update, and the transactions built from it.      *)
LEMMA FlipTyped ==
    ASSUME order \in [Orders -> OrderStatuses], NEW o \in Orders, NEW from, NEW to \in OrderStatuses
    PROVE  /\ Flip(o, from, to) \in [Orders -> OrderStatuses]
           /\ \A p \in Orders : Flip(o, from, to)[p] =
                 IF p = o /\ order[p] \in from THEN to ELSE order[p]
  BY DEF Flip

LEMMA RefundTyped ==
    ASSUME RowsOK, NEW o \in Orders, FailOrderWithRefund(o)
    PROVE  RowsOK'
  <1>1. Flip(o, {"PAID", "PROVISIONING"}, "FAILED") \in [Orders -> OrderStatuses]
    BY FlipTyped DEF RowsOK, OrderStatuses
  <1> QED BY <1>1 DEF RowsOK, FailOrderWithRefund, ReservationStatuses

LEMMA PersistTyped ==
    ASSUME RowsOK, NEW o \in Orders,
           PersistService(o) \/ AdoptPanelAccount(o) \/ AdoptUnconditionally(o)
    PROVE  RowsOK'
  <1>1. Flip(o, {"PROVISIONING"}, "COMPLETED") \in [Orders -> OrderStatuses]
    BY FlipTyped DEF RowsOK, OrderStatuses
  <1>2. Consumed(o) \in [Orders -> ReservationStatuses]
    BY DEF RowsOK, Consumed, ReservationStatuses
  <1>3. [order EXCEPT ![o] = "COMPLETED"] \in [Orders -> OrderStatuses]
    BY DEF RowsOK, OrderStatuses
  <1> QED
    BY <1>1, <1>2, <1>3 DEF RowsOK, PersistService, AdoptPanelAccount, AdoptUnconditionally

LEMMA MoveTyped ==
    ASSUME RowsOK, NEW o \in Orders, NEW from, NEW to \in OrderStatuses,
           MoveOrder(o, from, to) \/ SetOrder(o, to)
    PROVE  RowsOK'
  <1>1. Flip(o, from, to) \in [Orders -> OrderStatuses]
    BY FlipTyped DEF RowsOK
  <1> QED BY <1>1 DEF RowsOK, MoveOrder, SetOrder

(* A process that is not idle has an order. *)
LEMMA OrderIn ==
    ASSUME TasksOK, NEW w \in Procs, ~At(w, "idle")
    PROVE  OrderOf(w) \in Orders
  BY DEF TasksOK

(* Every step keeps the type invariant. *)
LEMMA TypeStep == TypeOK /\ [Next]_vars => TypeOK'
  <1> SUFFICES ASSUME TypeOK, [Next]_vars PROVE TypeOK'
    OBVIOUS
  <1>0. TasksOK /\ RowsOK /\ RestOK /\ ProvisioningAssumption
    BY TypeParts, ProvisioningAssumption
  <1>1. ASSUME NEW w \in Procs, EnsureNaming(w)
         PROVE  TypeOK'
    <2>1. TasksOK'
      BY <1>1, <1>0, GotoTyped DEF EnsureNaming, Steps
    <2>2. RowsOK'
      BY <1>1, <1>0, OrderIn DEF EnsureNaming, RowsOK
    <2>3. RestOK'
      BY <1>1, <1>0 DEF EnsureNaming, RestOK
    <2> QED BY <2>1, <2>2, <2>3 DEF TypeOK, TasksOK, RowsOK, RestOK
  <1>2. ASSUME NEW w \in Procs, AcquireLock(w)
         PROVE  TypeOK'
    <2>1. TasksOK'
      BY <1>2, <1>0 DEF AcquireLock, TasksOK, TaskRecord, Steps, Sites, IdleTask, LiveSite, Flows
    <2>2. RowsOK'
      BY <1>2, <1>0 DEF AcquireLock, RowsOK
    <2>3. RestOK'
      BY <1>2, <1>0 DEF AcquireLock, RestOK, Procs
    <2> QED BY <2>1, <2>2, <2>3 DEF TypeOK, TasksOK, RowsOK, RestOK
  <1>3. ASSUME NEW w \in Procs, GiveUpLock(w)
         PROVE  TypeOK'
    <2>1. TasksOK'
      BY <1>3, <1>0, LeaveTyped DEF GiveUpLock, Steps
    <2>2. RowsOK'
      BY <1>3, <1>0 DEF GiveUpLock, RowsOK
    <2>3. RestOK'
      BY <1>3, <1>0 DEF GiveUpLock, RestOK
    <2> QED BY <2>1, <2>2, <2>3 DEF TypeOK, TasksOK, RowsOK, RestOK
  <1>4. ASSUME NEW w \in Procs, ReleaseLock(w)
         PROVE  TypeOK'
    <2>1. TasksOK'
      BY <1>4, <1>0 DEF ReleaseLock, TasksOK, TaskRecord, Steps, Sites, IdleTask, LiveSite, Flows
    <2>2. RowsOK'
      BY <1>4, <1>0 DEF ReleaseLock, RowsOK
    <2>3. RestOK'
      BY <1>4, <1>0 DEF ReleaseLock, RestOK
    <2> QED BY <2>1, <2>2, <2>3 DEF TypeOK, TasksOK, RowsOK, RestOK
  <1>5. ASSUME NEW w \in Procs, PipelineBody(w)
         PROVE  TypeOK'
    <2>1. TasksOK'
      BY <1>5, <1>0, LeaveTyped, GotoTyped DEF PipelineBody, TasksOK, TaskRecord, Steps, Sites, IdleTask, LiveSite, Flows
    <2>2. RowsOK'
      BY <1>5, <1>0 DEF PipelineBody, RowsOK
    <2>3. RestOK'
      BY <1>5, <1>0 DEF PipelineBody, RestOK
    <2> QED BY <2>1, <2>2, <2>3 DEF TypeOK, TasksOK, RowsOK, RestOK
  <1>6. ASSUME NEW w \in Procs, ExecutorBody(w)
         PROVE  TypeOK'
    <2>1. TasksOK'
      BY <1>6, <1>0, GotoTyped, LeaveTyped DEF ExecutorBody, Steps
    <2>2. RowsOK'
      BY <1>6, <1>0 DEF ExecutorBody, RowsOK
    <2>3. RestOK'
      BY <1>6, <1>0 DEF ExecutorBody, RestOK
    <2> QED BY <2>1, <2>2, <2>3 DEF TypeOK, TasksOK, RowsOK, RestOK
  <1>7. ASSUME NEW w \in Procs, RecoveryBody(w)
         PROVE  TypeOK'
    <2>1. TasksOK'
      BY <1>7, <1>0, GotoTyped, LeaveTyped DEF RecoveryBody, Steps
    <2>2. RowsOK'
      BY <1>7, <1>0 DEF RecoveryBody, RowsOK
    <2>3. RestOK'
      BY <1>7, <1>0 DEF RecoveryBody, RestOK
    <2> QED BY <2>1, <2>2, <2>3 DEF TypeOK, TasksOK, RowsOK, RestOK
  <1>8. ASSUME NEW w \in Procs, Finish(w)
         PROVE  TypeOK'
    <2>1. TasksOK'
      BY <1>8, <1>0, LeaveTyped DEF Finish, Steps
    <2>2. RowsOK'
      BY <1>8, <1>0, MoveTyped, OrderIn DEF Finish, OrderStatuses
    <2>3. RestOK'
      BY <1>8, <1>0 DEF Finish, RestOK
    <2> QED BY <2>1, <2>2, <2>3 DEF TypeOK, TasksOK, RowsOK, RestOK
  <1>9. ASSUME NEW w \in Procs, Claim(w)
         PROVE  TypeOK'
    <2>1. TasksOK'
      BY <1>9, <1>0, GotoTyped, LeaveTyped DEF Claim, Steps
    <2>2. RowsOK'
      BY <1>9, <1>0, MoveTyped, OrderIn DEF Claim, OrderStatuses
    <2>3. RestOK'
      BY <1>9, <1>0 DEF Claim, RestOK
    <2> QED BY <2>1, <2>2, <2>3 DEF TypeOK, TasksOK, RowsOK, RestOK
  <1>10. ASSUME NEW w \in Procs, SendCreate(w)
         PROVE  TypeOK'
    <2>1. TasksOK'
      BY <1>10, <1>0, GotoTyped DEF SendCreate, Steps
    <2>2. RowsOK'
      BY <1>10, <1>0 DEF SendCreate, RowsOK
    <2>3. RestOK'
      BY <1>10, <1>0, OrderIn DEF SendCreate, RestOK, TasksOK, TaskRecord
    <2> QED BY <2>1, <2>2, <2>3 DEF TypeOK, TasksOK, RowsOK, RestOK
  <1>11. ASSUME NEW w \in Procs, CreateAnswered(w)
         PROVE  TypeOK'
    <2>1. TasksOK'
      BY <1>11, <1>0, GotoTyped, LeaveTyped DEF CreateAnswered, Steps
    <2>2. RowsOK'
      BY <1>11, <1>0 DEF CreateAnswered, RowsOK
    <2>3. RestOK'
      BY <1>11, <1>0 DEF CreateAnswered, RestOK
    <2> QED BY <2>1, <2>2, <2>3 DEF TypeOK, TasksOK, RowsOK, RestOK
  <1>12. ASSUME NEW w \in Procs, Persist(w)
         PROVE  TypeOK'
    <2>1. TasksOK'
      BY <1>12, <1>0, LeaveTyped DEF Persist, Steps
    <2>2. RowsOK'
      BY <1>12, <1>0, PersistTyped, OrderIn DEF Persist, OrderStatuses
    <2>3. RestOK'
      BY <1>12, <1>0 DEF Persist, RestOK
    <2> QED BY <2>1, <2>2, <2>3 DEF TypeOK, TasksOK, RowsOK, RestOK
  <1>13. ASSUME NEW w \in Procs, PersistFails(w)
         PROVE  TypeOK'
    <2>1. TasksOK'
      BY <1>13, <1>0, GotoTyped, LeaveTyped DEF PersistFails, Steps
    <2>2. RowsOK'
      BY <1>13, <1>0 DEF PersistFails, RowsOK
    <2>3. RestOK'
      BY <1>13, <1>0 DEF PersistFails, RestOK
    <2> QED BY <2>1, <2>2, <2>3 DEF TypeOK, TasksOK, RowsOK, RestOK
  <1>14. ASSUME NEW w \in Procs, LadderCompletes(w)
         PROVE  TypeOK'
    <2>1. TasksOK'
      BY <1>14, <1>0, LeaveTyped DEF LadderCompletes, Steps
    <2>2. RowsOK'
      BY <1>14, <1>0, PersistTyped, MoveTyped, OrderIn DEF LadderCompletes, OrderStatuses, RowsOK
    <2>3. RestOK'
      BY <1>14, <1>0 DEF LadderCompletes, RestOK
    <2> QED BY <2>1, <2>2, <2>3 DEF TypeOK, TasksOK, RowsOK, RestOK
  <1>15. ASSUME NEW w \in Procs, LadderFails(w)
         PROVE  TypeOK'
    <2>1. TasksOK'
      BY <1>15, <1>0, GotoTyped DEF LadderFails, Steps
    <2>2. RowsOK'
      BY <1>15, <1>0 DEF LadderFails, RowsOK
    <2>3. RestOK'
      BY <1>15, <1>0 DEF LadderFails, RestOK
    <2> QED BY <2>1, <2>2, <2>3 DEF TypeOK, TasksOK, RowsOK, RestOK
  <1>16. ASSUME NEW w \in Procs, Refund(w)
         PROVE  TypeOK'
    <2>1. TasksOK'
      BY <1>16, <1>0, LeaveTyped DEF Refund, Steps
    <2>2. RowsOK'
      BY <1>16, <1>0, RefundTyped, OrderIn DEF Refund, OrderStatuses
    <2>3. RestOK'
      BY <1>16, <1>0 DEF Refund, RestOK
    <2> QED BY <2>1, <2>2, <2>3 DEF TypeOK, TasksOK, RowsOK, RestOK
  <1>17. ASSUME NEW w \in Procs, Probe(w)
         PROVE  TypeOK'
    <2>1. TasksOK'
      BY <1>17, <1>0, GotoTyped, LeaveTyped DEF Probe, Steps
    <2>2. RowsOK'
      BY <1>17, <1>0 DEF Probe, RowsOK
    <2>3. RestOK'
      BY <1>17, <1>0 DEF Probe, RestOK
    <2> QED BY <2>1, <2>2, <2>3 DEF TypeOK, TasksOK, RowsOK, RestOK
  <1>18. ASSUME NEW w \in Procs, Adopt(w)
         PROVE  TypeOK'
    <2>1. TasksOK'
      BY <1>18, <1>0, LeaveTyped DEF Adopt, Steps
    <2>2. RowsOK'
      BY <1>18, <1>0, PersistTyped, OrderIn DEF Adopt, OrderStatuses, RowsOK
    <2>3. RestOK'
      BY <1>18, <1>0 DEF Adopt, RestOK
    <2> QED BY <2>1, <2>2, <2>3 DEF TypeOK, TasksOK, RowsOK, RestOK
  <1>19. ASSUME NEW w \in Procs, LockLapses(w)
         PROVE  TypeOK'
    <2>1. TasksOK'
      BY <1>19, <1>0 DEF LockLapses, TasksOK
    <2>2. RowsOK'
      BY <1>19, <1>0 DEF LockLapses, RowsOK
    <2>3. RestOK'
      BY <1>19, <1>0, OrderIn DEF LockLapses, RestOK, TasksOK, TaskRecord
    <2> QED BY <2>1, <2>2, <2>3 DEF TypeOK, TasksOK, RowsOK, RestOK
  <1>20. ASSUME NEW w \in Procs, Heartbeat(w)
         PROVE  TypeOK'
    <2>1. TasksOK'
      BY <1>20, <1>0 DEF Heartbeat, TasksOK, TaskRecord
    <2>2. RowsOK'
      BY <1>20, <1>0 DEF Heartbeat, RowsOK
    <2>3. RestOK'
      BY <1>20, <1>0 DEF Heartbeat, RestOK
    <2> QED BY <2>1, <2>2, <2>3 DEF TypeOK, TasksOK, RowsOK, RestOK
  <1>21. ASSUME NEW w \in Dispatchers, NEW o \in Orders, ReadHead(w, o)
         PROVE  TypeOK'
    <2>1. TasksOK'
      BY <1>21, <1>0, BeginTyped DEF ReadHead, Steps, Sites, Flows, LiveSite, RecoverySite, Procs
    <2>2. RowsOK'
      BY <1>21, <1>0 DEF ReadHead, RowsOK
    <2>3. RestOK'
      BY <1>21, <1>0 DEF ReadHead, RestOK
    <2> QED BY <2>1, <2>2, <2>3 DEF TypeOK, TasksOK, RowsOK, RestOK
  <1>22. ASSUME NEW w \in Jobs, NEW o \in Orders, FollowUp(w, o)
         PROVE  TypeOK'
    <2>1. TasksOK'
      BY <1>22, <1>0, BeginTyped DEF FollowUp, Steps, Sites, Flows, LiveSite, RecoverySite, Procs
    <2>2. RowsOK'
      BY <1>22, <1>0 DEF FollowUp, RowsOK
    <2>3. RestOK'
      BY <1>22, <1>0 DEF FollowUp, RestOK
    <2> QED BY <2>1, <2>2, <2>3 DEF TypeOK, TasksOK, RowsOK, RestOK
  <1>23. CASE StartRecovery
    <2>1. TasksOK'
      BY <1>23, <1>0 DEF StartRecovery, TasksOK
    <2>2. RowsOK'
      BY <1>23, <1>0 DEF StartRecovery, RowsOK
    <2>3. RestOK'
      BY <1>23, <1>0 DEF StartRecovery, RestOK
    <2> QED BY <2>1, <2>2, <2>3 DEF TypeOK, TasksOK, RowsOK, RestOK
  <1>24. ASSUME NEW o \in Orders, RecoverNext(o)
         PROVE  TypeOK'
    <2>1. TasksOK'
      BY <1>24, <1>0, BeginTyped DEF RecoverNext, Steps, Sites, Flows, LiveSite, RecoverySite, Procs
    <2>2. RowsOK'
      BY <1>24, <1>0 DEF RecoverNext, RowsOK
    <2>3. RestOK'
      BY <1>24, <1>0 DEF RecoverNext, RestOK
    <2> QED BY <2>1, <2>2, <2>3 DEF TypeOK, TasksOK, RowsOK, RestOK
  <1>25. ASSUME NEW o \in Orders, GrowsStale(o)
         PROVE  TypeOK'
    <2>1. TasksOK'
      BY <1>25, <1>0 DEF GrowsStale, TasksOK
    <2>2. RowsOK'
      BY <1>25, <1>0 DEF GrowsStale, RowsOK
    <2>3. RestOK'
      BY <1>25, <1>0 DEF GrowsStale, RestOK
    <2> QED BY <2>1, <2>2, <2>3 DEF TypeOK, TasksOK, RowsOK, RestOK
  <1>26. ASSUME NEW o \in Orders, ReassignPanel(o)
         PROVE  TypeOK'
    <2>1. TasksOK'
      BY <1>26, <1>0 DEF ReassignPanel, TasksOK
    <2>2. RowsOK'
      BY <1>26, <1>0 DEF ReassignPanel, RowsOK
    <2>3. RestOK'
      BY <1>26, <1>0 DEF ReassignPanel, RestOK
    <2> QED BY <2>1, <2>2, <2>3 DEF TypeOK, TasksOK, RowsOK, RestOK
  <1>27. ASSUME NEW o \in Orders, RetryBind(o)
         PROVE  TypeOK'
    <2>1. TasksOK'
      BY <1>27, <1>0 DEF RetryBind, TasksOK
    <2>2. RowsOK'
      BY <1>27, <1>0 DEF RetryBind, RowsOK, ReservationStatuses
    <2>3. RestOK'
      BY <1>27, <1>0 DEF RetryBind, RestOK
    <2> QED BY <2>1, <2>2, <2>3 DEF TypeOK, TasksOK, RowsOK, RestOK
  <1>28. ASSUME NEW o \in Orders, NEW s \in Sites, CreateArrives(o, s)
         PROVE  TypeOK'
    <2>1. TasksOK'
      BY <1>28, <1>0 DEF CreateArrives, TasksOK
    <2>2. RowsOK'
      BY <1>28, <1>0 DEF CreateArrives, RowsOK
    <2>3. RestOK'
      BY <1>28, <1>0 DEF CreateArrives, RestOK
    <2> QED BY <2>1, <2>2, <2>3 DEF TypeOK, TasksOK, RowsOK, RestOK
  <1>29. ASSUME NEW o \in Orders, NEW s \in Sites, CreateIsLost(o, s)
         PROVE  TypeOK'
    <2>1. TasksOK'
      BY <1>29, <1>0 DEF CreateIsLost, TasksOK
    <2>2. RowsOK'
      BY <1>29, <1>0 DEF CreateIsLost, RowsOK
    <2>3. RestOK'
      BY <1>29, <1>0 DEF CreateIsLost, RestOK
    <2> QED BY <2>1, <2>2, <2>3 DEF TypeOK, TasksOK, RowsOK, RestOK
  <1>30. ASSUME NEW o \in Orders, NEW s \in Sites, LockExpires(o, s)
         PROVE  TypeOK'
    <2>1. TasksOK'
      BY <1>30, <1>0 DEF LockExpires, TasksOK
    <2>2. RowsOK'
      BY <1>30, <1>0 DEF LockExpires, RowsOK
    <2>3. RestOK'
      BY <1>30, <1>0 DEF LockExpires, RestOK
    <2> QED BY <2>1, <2>2, <2>3 DEF TypeOK, TasksOK, RowsOK, RestOK
  <1>31. CASE BotCrash
    <2>1. TasksOK'
      BY <1>31, <1>0 DEF BotCrash, TasksOK, TaskRecord, Steps, Sites, IdleTask, LiveSite, Flows
    <2>2. RowsOK'
      BY <1>31, <1>0 DEF BotCrash, RowsOK
    <2>3. RestOK'
      BY <1>31, <1>0 DEF BotCrash, RestOK, Procs
    <2> QED BY <2>1, <2>2, <2>3 DEF TypeOK, TasksOK, RowsOK, RestOK
  <1>32. CASE UNCHANGED vars
    <2>1. TasksOK'
      BY <1>32, <1>0 DEF vars, TasksOK
    <2>2. RowsOK'
      BY <1>32, <1>0 DEF vars, RowsOK
    <2>3. RestOK'
      BY <1>32, <1>0 DEF vars, RestOK
    <2> QED BY <2>1, <2>2, <2>3 DEF TypeOK, TasksOK, RowsOK, RestOK
  <1> QED
    BY <1>1, <1>2, <1>3, <1>4, <1>5, <1>6, <1>7, <1>8, <1>9, <1>10, <1>11, <1>12, <1>13, <1>14, <1>15, <1>16, <1>17, <1>18, <1>19, <1>20, <1>21, <1>22, <1>23, <1>24, <1>25, <1>26, <1>27, <1>28, <1>29, <1>30, <1>31, <1>32 DEF Next, Step

-----------------------------------------------------------------------------
(* What a step does to the processes: one goes on with its order, ends, or *)
(* begins with an order it found in the sweep's batch, in the queue of     *)
(* Mini App jobs, or outside an open case.                                 *)
TaskMoves ==
    /\ held' \subseteq held
    /\ \A v \in Procs : task'[v].pc # "idle" =>
          \/ task[v].pc # "idle" /\ task'[v].order = task[v].order
          \/ task'[v].order \in batch \cup MiniApp
          \/ ~(order[task'[v].order] = "PAID" /\ task'[v].order \in held)
    /\ \A o \in batch' : o \in batch \/ order[o] = "PROVISIONING"

(* A step that decides nothing: no row of an order changes, no request is  *)
(* sent, nobody comes to the claim's far side.                             *)
Quiet ==
    /\ UNCHANGED <<order, service, refunds, created>>
    /\ \A v \in Procs :
          /\ task'[v].pc = "send" => task[v].pc = "send" /\ task'[v].order = task[v].order
          /\ task'[v].pc = "finish" =>
                \/ task[v].pc = "finish" /\ task'[v].order = task[v].order
                \/ task'[v].order \in service

Noisy(w) ==
    \/ Finish(w) \/ Claim(w) \/ SendCreate(w) \/ Persist(w) \/ LadderCompletes(w)
    \/ Refund(w) \/ Adopt(w)

(* What the three ways of changing a process record leave of it. *)
LEMMA GotoMoves ==
    ASSUME TasksOK, NEW w \in Procs, NEW pc, Goto(w, pc)
    PROVE  /\ \A v \in Procs : v # w => task'[v] = task[v]
           /\ task'[w].pc = pc /\ task'[w].order = task[w].order
  BY DEF TasksOK, TaskRecord, Goto

LEMMA LeaveMoves ==
    ASSUME TasksOK, NEW w \in Procs, Leave(w)
    PROVE  /\ \A v \in Procs : v # w => task'[v] = task[v]
           /\ task'[w].pc \in {"release", "idle"}
           /\ task'[w].pc # "idle" => task'[w].order = task[w].order
  <1>1. task'[w] = Done(task[w]) /\ \A v \in Procs : v # w => task'[v] = task[v]
    BY DEF TasksOK, Leave
  <1> QED BY <1>1 DEF Done, IdleTask, TasksOK, TaskRecord

LEMMA BeginMoves ==
    ASSUME TasksOK, NEW w \in Procs, NEW f, NEW o, NEW pc, NEW s, Begin(w, f, o, pc, s)
    PROVE  /\ \A v \in Procs : v # w => task'[v] = task[v]
           /\ task'[w].pc = pc /\ task'[w].order = o
  BY DEF TasksOK, TaskRecord, Begin, IdleTask

(* TaskMoves holds of every step. *)
LEMMA EveryStepMoves == TypeOK /\ [Next]_vars => TaskMoves
  <1> SUFFICES ASSUME TypeOK, [Next]_vars PROVE TaskMoves
    OBVIOUS
  <1>0. TasksOK
    BY TypeParts
  <1>1. ASSUME NEW w \in Procs, EnsureNaming(w)
         PROVE  TaskMoves
    BY <1>1, <1>0, GotoMoves DEF EnsureNaming, TaskMoves, TasksOK
  <1>2. ASSUME NEW w \in Procs, AcquireLock(w)
         PROVE  TaskMoves
    BY <1>2, <1>0 DEF AcquireLock, TaskRecord, TaskMoves, TasksOK
  <1>3. ASSUME NEW w \in Procs, GiveUpLock(w)
         PROVE  TaskMoves
    BY <1>3, <1>0, LeaveMoves DEF GiveUpLock, TaskMoves, TasksOK
  <1>4. ASSUME NEW w \in Procs, ReleaseLock(w)
         PROVE  TaskMoves
    BY <1>4, <1>0 DEF ReleaseLock, IdleTask, TaskRecord, TaskMoves, TasksOK
  <1>5. ASSUME NEW w \in Procs, PipelineBody(w)
         PROVE  TaskMoves
    BY <1>5, <1>0, GotoMoves, LeaveMoves DEF PipelineBody, TaskRecord, TaskMoves, TasksOK
  <1>6. ASSUME NEW w \in Procs, ExecutorBody(w)
         PROVE  TaskMoves
    BY <1>6, <1>0, GotoMoves, LeaveMoves DEF ExecutorBody, TaskMoves, TasksOK
  <1>7. ASSUME NEW w \in Procs, RecoveryBody(w)
         PROVE  TaskMoves
    BY <1>7, <1>0, GotoMoves, LeaveMoves DEF RecoveryBody, TaskMoves, TasksOK
  <1>8. ASSUME NEW w \in Procs, Finish(w)
         PROVE  TaskMoves
    BY <1>8, <1>0, LeaveMoves DEF Finish, SetOrder, MoveOrder, TaskMoves, TasksOK
  <1>9. ASSUME NEW w \in Procs, Claim(w)
         PROVE  TaskMoves
    BY <1>9, <1>0, GotoMoves, LeaveMoves DEF Claim, MoveOrder, TaskMoves, TasksOK
  <1>10. ASSUME NEW w \in Procs, SendCreate(w)
         PROVE  TaskMoves
    BY <1>10, <1>0, GotoMoves DEF SendCreate, TaskMoves, TasksOK
  <1>11. ASSUME NEW w \in Procs, CreateAnswered(w)
         PROVE  TaskMoves
    BY <1>11, <1>0, GotoMoves, LeaveMoves DEF CreateAnswered, TaskMoves, TasksOK
  <1>12. ASSUME NEW w \in Procs, Persist(w)
         PROVE  TaskMoves
    BY <1>12, <1>0, LeaveMoves DEF Persist, PersistService, TaskMoves, TasksOK
  <1>13. ASSUME NEW w \in Procs, PersistFails(w)
         PROVE  TaskMoves
    BY <1>13, <1>0, GotoMoves, LeaveMoves DEF PersistFails, TaskMoves, TasksOK
  <1>14. ASSUME NEW w \in Procs, LadderCompletes(w)
         PROVE  TaskMoves
    BY <1>14, <1>0, LeaveMoves DEF LadderCompletes, PersistService, MoveOrder, TaskMoves, TasksOK
  <1>15. ASSUME NEW w \in Procs, LadderFails(w)
         PROVE  TaskMoves
    BY <1>15, <1>0, GotoMoves DEF LadderFails, TaskMoves, TasksOK
  <1>16. ASSUME NEW w \in Procs, Refund(w)
         PROVE  TaskMoves
    BY <1>16, <1>0, LeaveMoves DEF Refund, FailOrderWithRefund, TaskMoves, TasksOK
  <1>17. ASSUME NEW w \in Procs, Probe(w)
         PROVE  TaskMoves
    BY <1>17, <1>0, GotoMoves, LeaveMoves DEF Probe, TaskMoves, TasksOK
  <1>18. ASSUME NEW w \in Procs, Adopt(w)
         PROVE  TaskMoves
    BY <1>18, <1>0, LeaveMoves DEF Adopt, AdoptPanelAccount, AdoptUnconditionally, TaskMoves, TasksOK
  <1>19. ASSUME NEW w \in Procs, LockLapses(w)
         PROVE  TaskMoves
    BY <1>19, <1>0 DEF LockLapses, TaskMoves, TasksOK
  <1>20. ASSUME NEW w \in Procs, Heartbeat(w)
         PROVE  TaskMoves
    BY <1>20, <1>0 DEF Heartbeat, TaskRecord, TaskMoves, TasksOK
  <1>21. ASSUME NEW w \in Dispatchers, NEW o \in Orders, ReadHead(w, o)
         PROVE  TaskMoves
    BY <1>21, <1>0, BeginMoves DEF ReadHead, Procs, TaskMoves, TasksOK
  <1>22. ASSUME NEW w \in Jobs, NEW o \in Orders, FollowUp(w, o)
         PROVE  TaskMoves
    BY <1>22, <1>0, BeginMoves DEF FollowUp, Procs, TaskMoves, TasksOK
  <1>23. CASE StartRecovery
    BY <1>23, <1>0 DEF StartRecovery, TaskMoves, TasksOK
  <1>24. ASSUME NEW o \in Orders, RecoverNext(o)
         PROVE  TaskMoves
    <2>1. task'[Recovery].order = o /\ \A v \in Procs : v # Recovery => task'[v] = task[v]
      BY <1>24, <1>0, BeginMoves DEF RecoverNext, Procs
    <2> QED BY <1>24, <1>0, <2>1 DEF RecoverNext, TaskMoves, TasksOK
  <1>25. ASSUME NEW o \in Orders, GrowsStale(o)
         PROVE  TaskMoves
    BY <1>25, <1>0 DEF GrowsStale, TaskMoves, TasksOK
  <1>26. ASSUME NEW o \in Orders, ReassignPanel(o)
         PROVE  TaskMoves
    BY <1>26, <1>0 DEF ReassignPanel, TaskMoves, TasksOK
  <1>27. ASSUME NEW o \in Orders, RetryBind(o)
         PROVE  TaskMoves
    BY <1>27, <1>0 DEF RetryBind, TaskMoves, TasksOK
  <1>28. ASSUME NEW o \in Orders, NEW s \in Sites, CreateArrives(o, s)
         PROVE  TaskMoves
    BY <1>28, <1>0 DEF CreateArrives, TaskMoves, TasksOK
  <1>29. ASSUME NEW o \in Orders, NEW s \in Sites, CreateIsLost(o, s)
         PROVE  TaskMoves
    BY <1>29, <1>0 DEF CreateIsLost, TaskMoves, TasksOK
  <1>30. ASSUME NEW o \in Orders, NEW s \in Sites, LockExpires(o, s)
         PROVE  TaskMoves
    BY <1>30, <1>0 DEF LockExpires, TaskMoves, TasksOK
  <1>31. CASE BotCrash
    BY <1>31, <1>0 DEF BotCrash, IdleTask, TaskMoves, TasksOK
  <1>32. CASE UNCHANGED vars
    BY <1>32, <1>0 DEF vars, TaskMoves, TasksOK
  <1> QED
    BY <1>1, <1>2, <1>3, <1>4, <1>5, <1>6, <1>7, <1>8, <1>9, <1>10, <1>11, <1>12, <1>13, <1>14, <1>15, <1>16, <1>17, <1>18, <1>19, <1>20, <1>21, <1>22, <1>23, <1>24, <1>25, <1>26, <1>27, <1>28, <1>29, <1>30, <1>31, <1>32 DEF Next, Step

(* A step decides nothing, or is one of the seven deciding ones. *)
LEMMA QuietOrNoisy == TypeOK /\ [Next]_vars => Quiet \/ \E w \in Procs : Noisy(w)
  <1> SUFFICES ASSUME TypeOK, [Next]_vars PROVE Quiet \/ \E w \in Procs : Noisy(w)
    OBVIOUS
  <1>0. TasksOK
    BY TypeParts
  <1>1. ASSUME NEW w \in Procs, EnsureNaming(w)
         PROVE  Quiet \/ \E v \in Procs : Noisy(v)
    BY <1>1, <1>0, GotoMoves DEF EnsureNaming, Quiet, TasksOK
  <1>2. ASSUME NEW w \in Procs, AcquireLock(w)
         PROVE  Quiet \/ \E v \in Procs : Noisy(v)
    BY <1>2, <1>0 DEF AcquireLock, TaskRecord, Quiet, TasksOK
  <1>3. ASSUME NEW w \in Procs, GiveUpLock(w)
         PROVE  Quiet \/ \E v \in Procs : Noisy(v)
    BY <1>3, <1>0, LeaveMoves DEF GiveUpLock, Quiet, TasksOK
  <1>4. ASSUME NEW w \in Procs, ReleaseLock(w)
         PROVE  Quiet \/ \E v \in Procs : Noisy(v)
    BY <1>4, <1>0 DEF ReleaseLock, IdleTask, TaskRecord, Quiet, TasksOK
  <1>5. ASSUME NEW w \in Procs, PipelineBody(w)
         PROVE  Quiet \/ \E v \in Procs : Noisy(v)
    BY <1>5, <1>0, GotoMoves, LeaveMoves DEF PipelineBody, TaskRecord, Quiet, TasksOK
  <1>6. ASSUME NEW w \in Procs, ExecutorBody(w)
         PROVE  Quiet \/ \E v \in Procs : Noisy(v)
    BY <1>6, <1>0, GotoMoves, LeaveMoves DEF ExecutorBody, Quiet, TasksOK
  <1>7. ASSUME NEW w \in Procs, RecoveryBody(w)
         PROVE  Quiet \/ \E v \in Procs : Noisy(v)
    BY <1>7, <1>0, GotoMoves, LeaveMoves DEF RecoveryBody, Quiet, TasksOK
  <1>8. ASSUME NEW w \in Procs, Finish(w)
         PROVE  Quiet \/ \E v \in Procs : Noisy(v)
    BY <1>8 DEF Noisy
  <1>9. ASSUME NEW w \in Procs, Claim(w)
         PROVE  Quiet \/ \E v \in Procs : Noisy(v)
    BY <1>9 DEF Noisy
  <1>10. ASSUME NEW w \in Procs, SendCreate(w)
         PROVE  Quiet \/ \E v \in Procs : Noisy(v)
    BY <1>10 DEF Noisy
  <1>11. ASSUME NEW w \in Procs, CreateAnswered(w)
         PROVE  Quiet \/ \E v \in Procs : Noisy(v)
    BY <1>11, <1>0, GotoMoves, LeaveMoves DEF CreateAnswered, Quiet, TasksOK
  <1>12. ASSUME NEW w \in Procs, Persist(w)
         PROVE  Quiet \/ \E v \in Procs : Noisy(v)
    BY <1>12 DEF Noisy
  <1>13. ASSUME NEW w \in Procs, PersistFails(w)
         PROVE  Quiet \/ \E v \in Procs : Noisy(v)
    BY <1>13, <1>0, GotoMoves, LeaveMoves DEF PersistFails, Quiet, TasksOK
  <1>14. ASSUME NEW w \in Procs, LadderCompletes(w)
         PROVE  Quiet \/ \E v \in Procs : Noisy(v)
    BY <1>14 DEF Noisy
  <1>15. ASSUME NEW w \in Procs, LadderFails(w)
         PROVE  Quiet \/ \E v \in Procs : Noisy(v)
    BY <1>15, <1>0, GotoMoves DEF LadderFails, Quiet, TasksOK
  <1>16. ASSUME NEW w \in Procs, Refund(w)
         PROVE  Quiet \/ \E v \in Procs : Noisy(v)
    BY <1>16 DEF Noisy
  <1>17. ASSUME NEW w \in Procs, Probe(w)
         PROVE  Quiet \/ \E v \in Procs : Noisy(v)
    BY <1>17, <1>0, GotoMoves, LeaveMoves DEF Probe, Quiet, TasksOK
  <1>18. ASSUME NEW w \in Procs, Adopt(w)
         PROVE  Quiet \/ \E v \in Procs : Noisy(v)
    BY <1>18 DEF Noisy
  <1>19. ASSUME NEW w \in Procs, LockLapses(w)
         PROVE  Quiet \/ \E v \in Procs : Noisy(v)
    BY <1>19, <1>0 DEF LockLapses, Quiet, TasksOK
  <1>20. ASSUME NEW w \in Procs, Heartbeat(w)
         PROVE  Quiet \/ \E v \in Procs : Noisy(v)
    BY <1>20, <1>0 DEF Heartbeat, TaskRecord, Quiet, TasksOK
  <1>21. ASSUME NEW w \in Dispatchers, NEW o \in Orders, ReadHead(w, o)
         PROVE  Quiet \/ \E v \in Procs : Noisy(v)
    BY <1>21, <1>0, BeginMoves DEF ReadHead, Procs, Quiet, TasksOK
  <1>22. ASSUME NEW w \in Jobs, NEW o \in Orders, FollowUp(w, o)
         PROVE  Quiet \/ \E v \in Procs : Noisy(v)
    BY <1>22, <1>0, BeginMoves DEF FollowUp, Procs, Quiet, TasksOK
  <1>23. CASE StartRecovery
    BY <1>23, <1>0 DEF StartRecovery, Quiet, TasksOK
  <1>24. ASSUME NEW o \in Orders, RecoverNext(o)
         PROVE  Quiet \/ \E v \in Procs : Noisy(v)
    BY <1>24, <1>0, BeginMoves DEF RecoverNext, Procs, Quiet, TasksOK
  <1>25. ASSUME NEW o \in Orders, GrowsStale(o)
         PROVE  Quiet \/ \E v \in Procs : Noisy(v)
    BY <1>25, <1>0 DEF GrowsStale, Quiet, TasksOK
  <1>26. ASSUME NEW o \in Orders, ReassignPanel(o)
         PROVE  Quiet \/ \E v \in Procs : Noisy(v)
    BY <1>26, <1>0 DEF ReassignPanel, Quiet, TasksOK
  <1>27. ASSUME NEW o \in Orders, RetryBind(o)
         PROVE  Quiet \/ \E v \in Procs : Noisy(v)
    BY <1>27, <1>0 DEF RetryBind, Quiet, TasksOK
  <1>28. ASSUME NEW o \in Orders, NEW s \in Sites, CreateArrives(o, s)
         PROVE  Quiet \/ \E v \in Procs : Noisy(v)
    BY <1>28, <1>0 DEF CreateArrives, Quiet, TasksOK
  <1>29. ASSUME NEW o \in Orders, NEW s \in Sites, CreateIsLost(o, s)
         PROVE  Quiet \/ \E v \in Procs : Noisy(v)
    BY <1>29, <1>0 DEF CreateIsLost, Quiet, TasksOK
  <1>30. ASSUME NEW o \in Orders, NEW s \in Sites, LockExpires(o, s)
         PROVE  Quiet \/ \E v \in Procs : Noisy(v)
    BY <1>30, <1>0 DEF LockExpires, Quiet, TasksOK
  <1>31. CASE BotCrash
    BY <1>31, <1>0 DEF BotCrash, IdleTask, Quiet, TasksOK
  <1>32. CASE UNCHANGED vars
    BY <1>32, <1>0 DEF vars, Quiet, TasksOK
  <1> QED
    BY <1>1, <1>2, <1>3, <1>4, <1>5, <1>6, <1>7, <1>8, <1>9, <1>10, <1>11, <1>12, <1>13, <1>14, <1>15, <1>16, <1>17, <1>18, <1>19, <1>20, <1>21, <1>22, <1>23, <1>24, <1>25, <1>26, <1>27, <1>28, <1>29, <1>30, <1>31, <1>32 DEF Next, Step

-----------------------------------------------------------------------------
(* CreatedOnce.  Nothing was sent for a PAID order, and what is about to   *)
(* be sent is the first request of an order that left PAID, by one process *)
(* only.                                                                   *)
SendsFirst ==
    /\ \A o \in Orders : order[o] = "PAID" => created[o] = 0
    /\ \A w \in Procs : At(w, "send") => created[OrderOf(w)] = 0 /\ order[OrderOf(w)] # "PAID"
    /\ \A w, v \in Procs : At(w, "send") /\ At(v, "send") /\ w # v => OrderOf(w) # OrderOf(v)
CreateInv == TypeOK /\ SendsFirst /\ CreatedOnce

(* OutcomeAccounted.  An order in the pipeline is not refunded yet, and an *)
(* order is only ever finished for its Service row.                        *)
OutcomeInv ==
    /\ TypeOK /\ OutcomeAccounted
    /\ \A o \in Orders : order[o] \in {"PAID", "PROVISIONING"} => refunds[o] = 0
    /\ \A w \in Procs : At(w, "finish") => OrderOf(w) \in service

(* HeldUntouched.  No process and no sweep has an order of an open case.   *)
HeldInv ==
    /\ TypeOK /\ HeldUntouched
    /\ held \subseteq Held /\ batch \cap held = {}
    /\ \A w \in Procs : ~At(w, "idle") => OrderOf(w) \notin held

(* The initial states satisfy the three invariants.                        *)
LEMMA InitInvs == Init => CreateInv /\ OutcomeInv /\ HeldInv
  <1> SUFFICES ASSUME Init PROVE CreateInv /\ OutcomeInv /\ HeldInv
    OBVIOUS
  <1>1. TypeOK
    <2>1. TasksOK
      BY DEF Init, TasksOK, TaskRecord, IdleTask, Flows, Steps, Sites
    <2>2. RowsOK
      BY ProvisioningAssumption
      DEF Init, RowsOK, OrderStatuses, ReservationStatuses, ProvisioningAssumption
    <2>3. RestOK
      BY DEF Init, RestOK
    <2> QED BY <2>1, <2>2, <2>3, TypeParts
  <1>2. \A w \in Procs : task[w].pc = "idle"
    BY DEF Init, IdleTask
  <1>3. CreateInv
    BY <1>1, <1>2 DEF CreateInv, SendsFirst, CreatedOnce, Init
  <1>4. OutcomeInv
    BY <1>1, <1>2 DEF OutcomeInv, OutcomeAccounted, Init
  <1>5. HeldInv
    BY <1>1, <1>2, ProvisioningAssumption DEF HeldInv, HeldUntouched, Init, ProvisioningAssumption
  <1> QED BY <1>3, <1>4, <1>5

(* What the deciding steps do to the rows of their order.                  *)
LEMMA NoisyRows ==
    ASSUME TypeOK, NEW w \in Procs, Noisy(w)
    PROVE  /\ OrderOf(w) \in Orders
           /\ \A o \in Orders : order'[o] = "PAID" => order[o] = "PAID"
           /\ \A o \in Orders : o # OrderOf(w) =>
                 order'[o] = order[o] /\ refunds'[o] = refunds[o] /\ created'[o] = created[o]
           /\ service \subseteq service'
  <1>0. TasksOK /\ RowsOK /\ RestOK
    BY TypeParts
  <1>1. OrderOf(w) \in Orders
    BY <1>0, OrderIn DEF Noisy, Finish, Claim, SendCreate, Persist, LadderCompletes, Refund, Adopt
  <1>2. CASE Finish(w)
    BY <1>0, <1>1, <1>2 DEF Finish, SetOrder, MoveOrder, Flip, RowsOK
  <1>3. CASE Claim(w)
    BY <1>0, <1>1, <1>3 DEF Claim, MoveOrder, Flip, RowsOK
  <1>4. CASE SendCreate(w)
    BY <1>0, <1>1, <1>4 DEF SendCreate, RowsOK, RestOK
  <1>5. CASE Persist(w)
    BY <1>0, <1>1, <1>5 DEF Persist, PersistService, Flip, RowsOK
  <1>6. CASE LadderCompletes(w)
    BY <1>0, <1>1, <1>6 DEF LadderCompletes, MoveOrder, PersistService, Flip, RowsOK
  <1>7. CASE Refund(w)
    BY <1>0, <1>1, <1>7 DEF Refund, FailOrderWithRefund, Flip, RowsOK
  <1>8. CASE Adopt(w)
    BY <1>0, <1>1, <1>8 DEF Adopt, AdoptPanelAccount, AdoptUnconditionally, Flip, RowsOK
  <1> QED BY <1>1, <1>2, <1>3, <1>4, <1>5, <1>6, <1>7, <1>8 DEF Noisy

(* A step that sends nothing and puts nobody before the request.           *)
LEMMA SendsFirstKept ==
    ASSUME CreateInv, TypeOK', created' = created,
           \A o \in Orders : order'[o] = "PAID" => order[o] = "PAID",
           \A v \in Procs : task'[v].pc = "send" =>
              task[v].pc = "send" /\ task'[v].order = task[v].order
    PROVE  CreateInv'
  <1>1. \A v \in Procs : task'[v].pc = "send" => task[v].order \in Orders
    BY DEF CreateInv, TypeOK
  <1>2. \A o \in Orders : order'[o] = "PAID" => created'[o] = 0
    BY DEF CreateInv, SendsFirst
  <1>3. \A v \in Procs : task'[v].pc = "send" =>
           created'[task'[v].order] = 0 /\ order'[task'[v].order] # "PAID"
    BY <1>1 DEF CreateInv, SendsFirst
  <1>4. \A v, u \in Procs : task'[v].pc = "send" /\ task'[u].pc = "send" /\ v # u =>
           task'[v].order # task'[u].order
    BY DEF CreateInv, SendsFirst
  <1> QED BY <1>2, <1>3, <1>4 DEF CreateInv, SendsFirst, CreatedOnce

(* Only the claim puts a process before the request.                       *)
LEMMA CreateStep == CreateInv /\ [Next]_vars => CreateInv'
  <1> SUFFICES ASSUME CreateInv, [Next]_vars PROVE CreateInv'
    OBVIOUS
  <1>0. TypeOK /\ TypeOK' /\ TasksOK /\ RowsOK /\ RestOK
    BY TypeStep, TypeParts DEF CreateInv
  <1>1. CASE Quiet
    BY <1>0, <1>1, SendsFirstKept DEF Quiet
  <1>2. ASSUME NEW w \in Procs, Noisy(w) PROVE CreateInv'
    <2>0. OrderOf(w) \in Orders /\ \A o \in Orders : order'[o] = "PAID" => order[o] = "PAID"
      BY <1>0, <1>2, NoisyRows
    <2>1. CASE Claim(w)
      <3>1. CASE order[OrderOf(w)] = "PAID"
        <4>1. /\ created' = created /\ order'[OrderOf(w)] = "PROVISIONING"
              /\ task'[w].order = task[w].order
              /\ \A v \in Procs : v # w => task'[v] = task[v]
          BY <1>0, <2>0, <2>1, <3>1, GotoMoves DEF Claim, MoveOrder, Flip, RowsOK
        <4>2. \A o \in Orders : order'[o] = "PAID" => created'[o] = 0
          BY <2>0, <4>1 DEF CreateInv, SendsFirst
        <4>3. \A v \in Procs : task'[v].pc = "send" =>
                 created'[task'[v].order] = 0 /\ order'[task'[v].order] # "PAID"
          <5>1. CASE created[OrderOf(w)] = 0
            BY <1>0, <2>0, <4>1, <5>1 DEF CreateInv, SendsFirst, TasksOK
          <5> QED BY <2>0, <3>1, <5>1 DEF CreateInv, SendsFirst
        <4>4. \A v \in Procs : v # w /\ task[v].pc = "send" => task[v].order # task[w].order
          BY <3>1 DEF CreateInv, SendsFirst
        <4>5. \A v, u \in Procs : task'[v].pc = "send" /\ task'[u].pc = "send" /\ v # u =>
                 task'[v].order # task'[u].order
          BY <4>1, <4>4 DEF CreateInv, SendsFirst
        <4> QED BY <1>0, <4>1, <4>2, <4>3, <4>5 DEF CreateInv, SendsFirst, CreatedOnce
      <3>2. CASE order[OrderOf(w)] # "PAID"
        <4>1. /\ created' = created /\ task'[w].pc # "send"
              /\ \A v \in Procs : v # w => task'[v] = task[v]
          BY <1>0, <2>1, <3>2, LeaveMoves DEF Claim
        <4> QED BY <1>0, <2>0, <4>1, SendsFirstKept
      <3> QED BY <3>1, <3>2
    <2>2. CASE SendCreate(w)
      <3>1. /\ order' = order /\ created[OrderOf(w)] = 0 /\ order[OrderOf(w)] # "PAID"
            /\ \A o \in Orders : created'[o] = IF o = OrderOf(w) THEN 1 ELSE created[o]
        BY <1>0, <2>0, <2>2 DEF SendCreate, RestOK, CreateInv, SendsFirst
      <3>2. task'[w].pc = "answer" /\ \A v \in Procs : v # w => task'[v] = task[v]
        BY <1>0, <2>2, GotoMoves DEF SendCreate
      <3> QED BY <1>0, <2>0, <2>2, <3>1, <3>2 DEF SendCreate, CreateInv, SendsFirst, CreatedOnce
    <2>3. CASE ~Claim(w) /\ ~SendCreate(w)
      <3>1. created' = created /\ Leave(w)
        BY <1>2, <2>3 DEF Noisy, Finish, Persist, LadderCompletes, Refund, Adopt
      <3>2. task'[w].pc # "send" /\ \A v \in Procs : v # w => task'[v] = task[v]
        BY <1>0, <3>1, LeaveMoves
      <3> QED BY <1>0, <2>0, <3>1, <3>2, SendsFirstKept
    <2> QED BY <2>1, <2>2, <2>3
  <1> QED BY <1>0, <1>1, <1>2, QuietOrNoisy

(* Every deciding step leaves its order with a service or a refund.        *)
LEMMA OutcomeStep == OutcomeInv /\ [Next]_vars => OutcomeInv'
  <1> SUFFICES ASSUME OutcomeInv, [Next]_vars PROVE OutcomeInv'
    OBVIOUS
  <1>0. TypeOK /\ TypeOK' /\ TasksOK /\ RowsOK /\ RestOK
    BY TypeStep, TypeParts DEF OutcomeInv
  <1>1. CASE Quiet
    BY <1>0, <1>1 DEF OutcomeInv, OutcomeAccounted, Quiet
  <1>2. ASSUME NEW w \in Procs, Noisy(w) PROVE OutcomeInv'
    <2>0. OrderOf(w) \in Orders /\ service \subseteq service'
      BY <1>0, <1>2, NoisyRows
    <2>1. \A v \in Procs : task'[v].pc = "finish" => task'[v].order \in service'
      <3>1. \A v \in Procs : v # w => task'[v] = task[v]
        BY <1>0, <1>2, GotoMoves, LeaveMoves
        DEF Noisy, Finish, Claim, SendCreate, Persist, LadderCompletes, Refund, Adopt
      <3>2. task'[w].pc # "finish"
        BY <1>0, <1>2, GotoMoves, LeaveMoves
        DEF Noisy, Finish, Claim, SendCreate, Persist, LadderCompletes, Refund, Adopt
      <3> QED BY <2>0, <3>1, <3>2 DEF OutcomeInv
    <2>2. \A o \in Orders :
             /\ order'[o] = "COMPLETED" => o \in service'
             /\ order'[o] = "FAILED" => refunds'[o] = 1
             /\ order'[o] \in {"PAID", "PROVISIONING"} => refunds'[o] = 0
      <3>1. CASE Finish(w)
        BY <1>0, <2>0, <3>1 DEF Finish, SetOrder, MoveOrder, Flip, RowsOK, OutcomeInv, OutcomeAccounted
      <3>2. CASE Claim(w)
        BY <1>0, <2>0, <3>2 DEF Claim, MoveOrder, Flip, RowsOK, OutcomeInv, OutcomeAccounted
      <3>3. CASE SendCreate(w)
        BY <1>0, <3>3 DEF SendCreate, OutcomeInv, OutcomeAccounted
      <3>4. CASE Persist(w)
        BY <1>0, <2>0, <3>4 DEF Persist, PersistService, Flip, RowsOK, OutcomeInv, OutcomeAccounted
      <3>5. CASE LadderCompletes(w)
        BY <1>0, <2>0, <3>5
        DEF LadderCompletes, MoveOrder, PersistService, Flip, RowsOK, OutcomeInv, OutcomeAccounted
      <3>6. CASE Refund(w)
        BY <1>0, <2>0, <3>6
        DEF Refund, FailOrderWithRefund, Flip, RowsOK, OutcomeInv, OutcomeAccounted
      <3>7. CASE Adopt(w)
        BY <1>0, <2>0, <3>7
        DEF Adopt, AdoptPanelAccount, AdoptUnconditionally, Flip, RowsOK, OutcomeInv, OutcomeAccounted
      <3> QED BY <1>2, <3>1, <3>2, <3>3, <3>4, <3>5, <3>6, <3>7 DEF Noisy
    <2> QED BY <1>0, <2>1, <2>2 DEF OutcomeInv, OutcomeAccounted
  <1> QED BY <1>0, <1>1, <1>2, QuietOrNoisy

(* Nobody gets hold of an order with an open case.                         *)
LEMMA HeldStep == HeldInv /\ [Next]_vars => HeldInv'
  <1> SUFFICES ASSUME HeldInv, [Next]_vars PROVE HeldInv'
    OBVIOUS
  <1>0. TypeOK /\ TypeOK' /\ TasksOK /\ RowsOK /\ TaskMoves
    BY TypeStep, TypeParts, EveryStepMoves DEF HeldInv
  <1>1. \A o \in held : o \in Orders /\ order'[o] = order[o] /\ created'[o] = created[o]
    <2>1. CASE Quiet
      BY <1>0, <2>1 DEF Quiet, RowsOK
    <2>2. ASSUME NEW w \in Procs, Noisy(w)
          PROVE  \A o \in held : o \in Orders /\ order'[o] = order[o] /\ created'[o] = created[o]
      <3>1. ~At(w, "idle")
        BY <2>2 DEF Noisy, Finish, Claim, SendCreate, Persist, LadderCompletes, Refund, Adopt
      <3>2. OrderOf(w) \notin held
        BY <3>1 DEF HeldInv
      <3> QED BY <1>0, <2>2, <3>2, NoisyRows DEF RowsOK
    <2> QED BY <1>0, <2>1, <2>2, QuietOrNoisy
  <1>2. held' \subseteq held /\ held \cap MiniApp = {}
    BY <1>0, ProvisioningAssumption DEF TaskMoves, HeldInv, ProvisioningAssumption
  <1>3. \A v \in Procs : task'[v].pc # "idle" => task'[v].order \notin held'
    BY <1>0, <1>2 DEF TaskMoves, HeldInv, HeldUntouched
  <1>4. batch' \cap held' = {}
    BY <1>0, <1>2 DEF TaskMoves, HeldInv, HeldUntouched
  <1> QED BY <1>0, <1>1, <1>2, <1>3, <1>4 DEF HeldInv, HeldUntouched

-----------------------------------------------------------------------------
(* A plain order: the bot's own pipeline alone dispatches it, and its      *)
(* product stays on its panel.                                             *)
Plain == Orders \ (MiniApp \cup Drifting)

(* Past the claim; at a step that may decide the order.                    *)
Committed == {"send", "answer", "persist", "ladder", "orphan", "probe", "adopt"}
Decides(w)  == task[w].pc \in Committed \cup {"claim", "refund"}
Works(w, o) == ~At(w, "idle") /\ OrderOf(w) = o

(* The rows of the order: a Service row means COMPLETED and a refund means *)
(* FAILED, and only a named order that left PAID is stale.                 *)
RowsFit(o) ==
    /\ o \notin drifted
    /\ o \in batch => o \in stale
    /\ o \in stale => order[o] # "PAID" /\ o \in named
    /\ o \in named => o \notin Unnameable
    /\ order[o] = "PROVISIONING" => o \in named
    /\ o \in service => order[o] = "COMPLETED"
    /\ refunds[o] > 0 => order[o] = "FAILED"

(* Its reservation says what became of it.                                 *)
ReservationFits(o) ==
    o \in Reserved \ held =>
        reservation[o] = IF o \in service THEN "CONSUMED"
                         ELSE IF refunds[o] > 0 THEN "RELEASED" ELSE "BOUND"

(* Its one request and its account are at the site that was sold.          *)
RemoteFits(o) ==
    /\ created[o] > 0 => o \in named /\ order[o] # "PAID"
    /\ \A s \in Sites :
          /\ account[o][s] = "own" => s = "sold" /\ created[o] > 0
          /\ <<o, s>> \in flying =>
                /\ s = "sold" /\ account[o][s] # "own" /\ created[o] > 0 /\ o \notin stale
                /\ refunds[o] > 0 => account[o][s] # "none"

(* The way a process came to the order, and what it holds on it.           *)
RouteFits(w, o) ==
    /\ \/ w \in Dispatchers /\ Runs(w, "pipeline")
       \/ w = Recovery /\ Runs(w, "recovery") /\ o \in stale
    /\ task[w].key # "sold" => Runs(w, "pipeline") /\ order[o] # "PAID"
    /\ task[w].site = task[w].key
    /\ At(w, "name") => task[w].key = "sold"
    /\ task[w].pc \in {"lock", "body", "claim"} /\ order[o] = "PAID" => o \in named
    /\ At(w, "body") => task[w].locked /\ LockOf(w) = w
    /\ At(w, "finish") => o \in service
    /\ At(w, "probe") \/ At(w, "adopt") => Runs(w, "recovery")
    /\ task[w].pc \in Committed \cup {"claim"} => o \notin Unnameable

(* It decides under the lock of the sold site, which may only be lost once *)
(* the order was claimed and before it is stale.                           *)
DecisionFits(w, o) ==
    /\ task[w].key = "sold" /\ task[w].locked
    /\ LockOf(w) # w => order[o] = "PROVISIONING" /\ o \notin stale
    /\ At(w, "claim") => order[o] = "PAID"
    /\ At(w, "refund") => order[o] \in {"PAID", "PROVISIONING"}
    /\ task[w].pc \in Committed => order[o] = "PROVISIONING"

(* What it knows of the panel.                                             *)
KnowsPanel(w, o) ==
    /\ At(w, "send") => o \notin stale
    /\ At(w, "refund") => \A s \in Sites : account[o][s] # "own" /\ <<o, s>> \notin flying
    /\ task[w].pc \in {"persist", "ladder", "orphan"} => account[o]["sold"] # "none"

TaskFits(w, o) ==
    /\ RouteFits(w, o)
    /\ Decides(w) /\ o \notin Unnameable => DecisionFits(w, o)
    /\ KnowsPanel(w, o)

(* One process at most decides an order that can be named.                 *)
OneDecides(o) ==
    \A v, w \in Procs :
        Works(v, o) /\ Works(w, o) /\ Decides(v) /\ Decides(w) /\ o \notin Unnameable => v = w

PlainFits(o) ==
    /\ RowsFit(o) /\ ReservationFits(o) /\ RemoteFits(o)
    /\ \A w \in Procs : Works(w, o) => TaskFits(w, o)
    /\ OneDecides(o)

PlainInv == CreateInv /\ HeldInv /\ \A o \in Plain : PlainFits(o)

(* Nothing of the order's rows, panel or locks changes, and whoever works  *)
(* on it was at the same step before, or is on its way out.                *)
Mild(o) ==
    /\ order'[o] = order[o] /\ refunds'[o] = refunds[o] /\ reservation'[o] = reservation[o]
    /\ created'[o] = created[o] /\ account'[o] = account[o]
    /\ (o \in named' <=> o \in named) /\ (o \in service' <=> o \in service)
    /\ (o \in held' <=> o \in held) /\ (o \in stale' <=> o \in stale)
    /\ o \notin drifted'
    /\ o \in batch' => o \in stale'
    /\ \A s \in Sites : <<o, s>> \in flying' <=> <<o, s>> \in flying
    /\ \A v \in Procs : Works(v, o)' =>
          /\ Works(v, o)
          /\ task'[v].flow = task[v].flow /\ task'[v].key = task[v].key
          /\ task'[v].site = task[v].site
          /\ \/ task'[v].pc = "release"
             \/ /\ task'[v].pc = task[v].pc /\ task'[v].locked = task[v].locked
                /\ lock[o][task[v].key] = v => lock'[o][task[v].key] = v

LEMMA MildKeeps ==
    ASSUME NEW o \in Plain, PlainFits(o), Mild(o)
    PROVE  PlainFits(o)'
  <1>1. RowsFit(o)' /\ ReservationFits(o)' /\ RemoteFits(o)'
    <2>1. RowsFit(o)'
      BY DEF PlainFits, RowsFit, Mild
    <2>2. ReservationFits(o)'
      BY DEF PlainFits, ReservationFits, Mild
    <2>3. RemoteFits(o)'
      BY DEF PlainFits, RemoteFits, Mild
    <2> QED BY <2>1, <2>2, <2>3
  <1>2. ASSUME NEW w \in Procs, Works(w, o)' PROVE TaskFits(w, o)'
    <2>1. /\ Works(w, o) /\ TaskFits(w, o) /\ task'[w].order = o /\ task[w].order = o
          /\ task'[w].flow = task[w].flow /\ task'[w].key = task[w].key
          /\ task'[w].site = task[w].site /\ order'[o] = order[o]
          /\ (o \in stale' <=> o \in stale) /\ (o \in service' <=> o \in service)
      BY <1>2 DEF PlainFits, Mild, Works
    <2>2. CASE task'[w].pc = "release"
      BY <2>1, <2>2 DEF TaskFits, RouteFits, Decides, Committed, KnowsPanel
    <2>3. CASE task'[w].pc = task[w].pc /\ task'[w].locked = task[w].locked
               /\ (lock[o][task[w].key] = w => lock'[o][task[w].key] = w)
      <3>0. RouteFits(w, o)
        BY <2>1 DEF TaskFits
      <3>1. RouteFits(w, o)'
        <4>1. \/ w \in Dispatchers /\ task'[w].flow = "pipeline"
              \/ w = Recovery /\ task'[w].flow = "recovery" /\ o \in stale'
          BY <2>1, <3>0 DEF RouteFits
        <4>2. task'[w].pc = "body" => task'[w].locked /\ lock'[task'[w].order][task'[w].key] = w
          BY <2>1, <2>3, <3>0 DEF RouteFits
        <4>3. task'[w].pc \in {"lock", "body", "claim"} /\ order'[o] = "PAID" => o \in named'
          BY <2>1, <2>3, <3>0 DEF RouteFits, Mild
        <4> QED BY <2>1, <2>3, <3>0, <4>1, <4>2, <4>3 DEF RouteFits
      <3>2. Decides(w)' /\ o \notin Unnameable => DecisionFits(w, o)'
        BY <2>1, <2>3 DEF TaskFits, Decides, DecisionFits
      <3>3. KnowsPanel(w, o)'
        BY <2>1, <2>3 DEF TaskFits, KnowsPanel, Mild
      <3> QED BY <3>1, <3>2, <3>3 DEF TaskFits
    <2> QED BY <1>2, <2>2, <2>3 DEF Mild
  <1>3. OneDecides(o)'
    <2>1. \A w \in Procs : Works(w, o)' /\ Decides(w)' => Works(w, o) /\ Decides(w)
      BY DEF Mild, Decides, Committed
    <2> QED BY <2>1 DEF PlainFits, OneDecides
  <1> QED BY <1>1, <1>2, <1>3 DEF PlainFits

(* What a step of process w must leave alone for the others.               *)
Gentle(w, o) ==
    /\ \A v \in Procs : v # w => task'[v] = task[v]
    /\ order'[o] # order[o] => Works(w, o) /\ Decides(w) /\ order'[o] # "PAID"
    /\ o \in service => o \in service'
    /\ o \in named => o \in named'
    /\ o \in stale' <=> o \in stale
    /\ \A v \in Procs, s \in Sites : v # w /\ lock[o][s] = v => lock'[o][s] = v
    /\ \/ /\ account'[o] = account[o]
          /\ \A s \in Sites : <<o, s>> \in flying' <=> <<o, s>> \in flying
       \/ Works(w, o) /\ Decides(w) /\ o \notin Unnameable

LEMMA OthersKept ==
    ASSUME TypeOK, NEW o \in Plain, PlainFits(o), NEW w \in Procs, Gentle(w, o),
           NEW v \in Procs, v # w, Works(v, o)'
    PROVE  Works(v, o) /\ TaskFits(v, o)'
  <1>1. /\ Works(v, o) /\ TaskFits(v, o) /\ task'[v] = task[v] /\ task[v].order = o
        /\ task[v].key \in Sites
        /\ (order'[o] = "PAID" => order[o] = "PAID") /\ (o \in service => o \in service')
        /\ (o \in stale' <=> o \in stale)
        /\ (lock[o][task[v].key] = v => lock'[o][task[v].key] = v)
    <2>1. task'[v] = task[v] /\ Works(v, o) /\ task[v].order = o
      BY DEF Gentle, Works
    <2>2. task[v].key \in Sites
      BY DEF TypeOK, TaskRecord
    <2> QED BY <2>1, <2>2 DEF Gentle, PlainFits
  <1>2. RouteFits(v, o)'
    <2>1. RouteFits(v, o)
      BY <1>1 DEF TaskFits
    <2>2. \/ v \in Dispatchers /\ task'[v].flow = "pipeline"
          \/ v = Recovery /\ task'[v].flow = "recovery" /\ o \in stale'
      BY <1>1, <2>1 DEF RouteFits
    <2>3. task'[v].pc = "body" => task'[v].locked /\ lock'[task'[v].order][task'[v].key] = v
      BY <1>1, <2>1 DEF RouteFits
    <2>4. task'[v].pc \in {"lock", "body", "claim"} /\ order'[o] = "PAID" => o \in named'
      BY <1>1, <2>1 DEF RouteFits, Gentle
    <2> QED BY <1>1, <2>1, <2>2, <2>3, <2>4 DEF RouteFits
  <1>3. CASE Works(w, o) /\ Decides(w) /\ o \notin Unnameable
    <2>1. ~Decides(v)
      BY <1>1, <1>3 DEF PlainFits, OneDecides
    <2> QED BY <1>1, <1>2, <2>1 DEF TaskFits, Decides, Committed, KnowsPanel
  <1>4. CASE ~(Works(w, o) /\ Decides(w) /\ o \notin Unnameable)
    <2>1. /\ account'[o] = account[o]
          /\ \A s \in Sites : <<o, s>> \in flying' <=> <<o, s>> \in flying
      BY <1>4 DEF Gentle
    <2>2. KnowsPanel(v, o)'
      BY <1>1, <2>1 DEF TaskFits, KnowsPanel
    <2>3. Decides(v)' /\ o \notin Unnameable => DecisionFits(v, o)'
      <3>1. o \notin Unnameable => order'[o] = order[o]
        BY <1>4 DEF Gentle
      <3> QED BY <1>1, <3>1 DEF TaskFits, Decides, DecisionFits
    <2> QED BY <1>1, <1>2, <2>2, <2>3 DEF TaskFits
  <1> QED BY <1>3, <1>4

(* A gentle step of w keeps the invariant when it fits what it changes and *)
(* comes to decide only when nobody else does.                             *)
LEMMA PlainKept ==
    ASSUME TypeOK, NEW o \in Plain, PlainFits(o), NEW w \in Procs, Gentle(w, o),
           RowsFit(o)', ReservationFits(o)', RemoteFits(o)',
           Works(w, o)' => TaskFits(w, o)',
           Works(w, o)' /\ Decides(w)' /\ o \notin Unnameable =>
              \/ Works(w, o) /\ Decides(w)
              \/ \A v \in Procs : v # w /\ Works(v, o) => ~Decides(v)
    PROVE  PlainFits(o)'
  <1>1. \A v \in Procs : Works(v, o)' => TaskFits(v, o)'
    BY OthersKept
  <1>2. OneDecides(o)'
    <2>1. ASSUME NEW v \in Procs, v # w, Works(v, o)', Decides(v)' PROVE Works(v, o) /\ Decides(v)
      BY <2>1, OthersKept DEF Gentle, Decides
    <2>2. ASSUME NEW v \in Procs, NEW u \in Procs, Works(v, o)', Works(u, o)', Decides(v)', Decides(u)',
                 o \notin Unnameable, v # u
          PROVE  FALSE
      <3>1. CASE v # w /\ u # w
        BY <2>1, <2>2, <3>1 DEF PlainFits, OneDecides
      <3>2. CASE v = w
        BY <2>1, <2>2, <3>2 DEF PlainFits, OneDecides
      <3>3. CASE u = w
        BY <2>1, <2>2, <3>3 DEF PlainFits, OneDecides
      <3> QED BY <3>1, <3>2, <3>3
    <2> QED BY <2>2 DEF OneDecides
  <1> QED BY <1>1, <1>2 DEF PlainFits

(* What the three ways of changing a process record leave of its fields.   *)
LEMMA GotoKeeps ==
    ASSUME TasksOK, NEW w \in Procs, NEW pc, Goto(w, pc)
    PROVE  /\ \A v \in Procs : v # w => task'[v] = task[v]
           /\ task'[w].pc = pc /\ task'[w].order = task[w].order /\ task'[w].flow = task[w].flow
           /\ task'[w].key = task[w].key /\ task'[w].site = task[w].site
           /\ task'[w].locked = task[w].locked
  BY DEF TasksOK, TaskRecord, Goto

LEMMA LeaveKeeps ==
    ASSUME TasksOK, NEW w \in Procs, Leave(w)
    PROVE  /\ \A v \in Procs : v # w => task'[v] = task[v]
           /\ task'[w].pc \in {"release", "idle"}
           /\ task'[w].pc # "idle" =>
                 /\ task'[w].order = task[w].order /\ task'[w].flow = task[w].flow
                 /\ task'[w].key = task[w].key /\ task'[w].site = task[w].site
  <1>1. task'[w] = Done(task[w]) /\ \A v \in Procs : v # w => task'[v] = task[v]
    BY DEF TasksOK, Leave
  <1> QED BY <1>1 DEF Done, IdleTask, TasksOK, TaskRecord

LEMMA BeginKeeps ==
    ASSUME TasksOK, NEW w \in Procs, NEW f, NEW o, NEW pc, NEW s, Begin(w, f, o, pc, s)
    PROVE  /\ \A v \in Procs : v # w => task'[v] = task[v]
           /\ task'[w].pc = pc /\ task'[w].order = o /\ task'[w].flow = f
           /\ task'[w].key = s /\ task'[w].site = s
  BY DEF TasksOK, TaskRecord, Begin, IdleTask

(* The step of a process that is busy with another order.                  *)
Aside(o) ==
    /\ order'[o] = order[o] /\ refunds'[o] = refunds[o] /\ reservation'[o] = reservation[o]
    /\ created'[o] = created[o] /\ account'[o] = account[o] /\ lock'[o] = lock[o]
    /\ (o \in named' <=> o \in named) /\ (o \in service' <=> o \in service)
    /\ UNCHANGED <<held, stale, drifted>>
    /\ o \in batch' => o \in batch
    /\ \A s \in Sites : <<o, s>> \in flying' <=> <<o, s>> \in flying
    /\ \A v \in Procs : Works(v, o)' => task'[v] = task[v]

LEMMA AsideMild ==
    ASSUME NEW o \in Plain, PlainFits(o), Aside(o)
    PROVE  PlainFits(o)'
  <1>1. Mild(o)
    BY DEF Aside, Mild, PlainFits, RowsFit, Works
  <1> QED BY <1>1, MildKeeps

LEMMA Elsewhere ==
    ASSUME TypeOK, NEW o \in Plain, PlainFits(o), NEW w \in Procs, OrderOf(w) # o, Step(w)
    PROVE  PlainFits(o)'
  <1>0. TasksOK /\ RowsOK /\ RestOK /\ o \in Orders
    BY TypeParts DEF Plain
  <1>1. CASE EnsureNaming(w)
    <2>1. \A v \in Procs : Works(v, o)' => task'[v] = task[v]
      BY <1>1, <1>0, GotoKeeps, LeaveKeeps DEF EnsureNaming, Works, TasksOK
    <2>2. Aside(o)
      BY <1>1, <1>0, <2>1 DEF EnsureNaming, Aside, RowsOK, RestOK
    <2> QED BY <2>2, AsideMild
  <1>2. CASE AcquireLock(w)
    <2>1. \A v \in Procs : Works(v, o)' => task'[v] = task[v]
      BY <1>2, <1>0 DEF AcquireLock, Works, TasksOK, TaskRecord
    <2>2. Aside(o)
      BY <1>2, <1>0, <2>1 DEF AcquireLock, Aside, RowsOK, RestOK
    <2> QED BY <2>2, AsideMild
  <1>3. CASE GiveUpLock(w)
    <2>1. \A v \in Procs : Works(v, o)' => task'[v] = task[v]
      BY <1>3, <1>0, GotoKeeps, LeaveKeeps DEF GiveUpLock, Works, TasksOK
    <2>2. Aside(o)
      BY <1>3, <1>0, <2>1 DEF GiveUpLock, Aside, RowsOK, RestOK
    <2> QED BY <2>2, AsideMild
  <1>4. CASE ReleaseLock(w)
    <2>1. \A v \in Procs : Works(v, o)' => task'[v] = task[v]
      BY <1>4, <1>0 DEF ReleaseLock, Works, TasksOK, TaskRecord, IdleTask
    <2>2. Aside(o)
      BY <1>4, <1>0, <2>1 DEF ReleaseLock, Aside, RowsOK, RestOK, IdleTask
    <2> QED BY <2>2, AsideMild
  <1>5. CASE PipelineBody(w)
    <2>1. \A v \in Procs : Works(v, o)' => task'[v] = task[v]
      BY <1>5, <1>0, GotoKeeps, LeaveKeeps DEF PipelineBody, Works, TasksOK, TaskRecord
    <2>2. Aside(o)
      BY <1>5, <1>0, <2>1 DEF PipelineBody, Aside, RowsOK, RestOK
    <2> QED BY <2>2, AsideMild
  <1>6. CASE ExecutorBody(w)
    <2>1. \A v \in Procs : Works(v, o)' => task'[v] = task[v]
      BY <1>6, <1>0, GotoKeeps, LeaveKeeps DEF ExecutorBody, Works, TasksOK
    <2>2. Aside(o)
      BY <1>6, <1>0, <2>1 DEF ExecutorBody, Aside, RowsOK, RestOK
    <2> QED BY <2>2, AsideMild
  <1>7. CASE RecoveryBody(w)
    <2>1. \A v \in Procs : Works(v, o)' => task'[v] = task[v]
      BY <1>7, <1>0, GotoKeeps, LeaveKeeps DEF RecoveryBody, Works, TasksOK
    <2>2. Aside(o)
      BY <1>7, <1>0, <2>1 DEF RecoveryBody, Aside, RowsOK, RestOK
    <2> QED BY <2>2, AsideMild
  <1>8. CASE Finish(w)
    <2>1. \A v \in Procs : Works(v, o)' => task'[v] = task[v]
      BY <1>8, <1>0, GotoKeeps, LeaveKeeps DEF Finish, Works, TasksOK
    <2>2. Aside(o)
      BY <1>8, <1>0, <2>1 DEF Finish, Aside, RowsOK, RestOK, SetOrder, MoveOrder, Flip
    <2> QED BY <2>2, AsideMild
  <1>9. CASE Claim(w)
    <2>1. \A v \in Procs : Works(v, o)' => task'[v] = task[v]
      BY <1>9, <1>0, GotoKeeps, LeaveKeeps DEF Claim, Works, TasksOK
    <2>2. Aside(o)
      BY <1>9, <1>0, <2>1 DEF Claim, Aside, RowsOK, RestOK, MoveOrder, Flip
    <2> QED BY <2>2, AsideMild
  <1>10. CASE SendCreate(w)
    <2>1. \A v \in Procs : Works(v, o)' => task'[v] = task[v]
      BY <1>10, <1>0, GotoKeeps, LeaveKeeps DEF SendCreate, Works, TasksOK
    <2>2. Aside(o)
      BY <1>10, <1>0, <2>1 DEF SendCreate, Aside, RowsOK, RestOK
    <2> QED BY <2>2, AsideMild
  <1>11. CASE CreateAnswered(w)
    <2>1. \A v \in Procs : Works(v, o)' => task'[v] = task[v]
      BY <1>11, <1>0, GotoKeeps, LeaveKeeps DEF CreateAnswered, Works, TasksOK
    <2>2. Aside(o)
      BY <1>11, <1>0, <2>1 DEF CreateAnswered, Aside, RowsOK, RestOK
    <2> QED BY <2>2, AsideMild
  <1>12. CASE Persist(w)
    <2>1. \A v \in Procs : Works(v, o)' => task'[v] = task[v]
      BY <1>12, <1>0, GotoKeeps, LeaveKeeps DEF Persist, Works, TasksOK
    <2>2. Aside(o)
      BY <1>12, <1>0, <2>1 DEF Persist, Aside, RowsOK, RestOK, PersistService, Flip, Consumed
    <2> QED BY <2>2, AsideMild
  <1>13. CASE PersistFails(w)
    <2>1. \A v \in Procs : Works(v, o)' => task'[v] = task[v]
      BY <1>13, <1>0, GotoKeeps, LeaveKeeps DEF PersistFails, Works, TasksOK
    <2>2. Aside(o)
      BY <1>13, <1>0, <2>1 DEF PersistFails, Aside, RowsOK, RestOK
    <2> QED BY <2>2, AsideMild
  <1>14. CASE LadderCompletes(w)
    <2>1. \A v \in Procs : Works(v, o)' => task'[v] = task[v]
      BY <1>14, <1>0, GotoKeeps, LeaveKeeps DEF LadderCompletes, Works, TasksOK
    <2>2. Aside(o)
      BY <1>14, <1>0, <2>1 DEF LadderCompletes, Aside, RowsOK, RestOK, MoveOrder, PersistService, Flip, Consumed
    <2> QED BY <2>2, AsideMild
  <1>15. CASE LadderFails(w)
    <2>1. \A v \in Procs : Works(v, o)' => task'[v] = task[v]
      BY <1>15, <1>0, GotoKeeps, LeaveKeeps DEF LadderFails, Works, TasksOK
    <2>2. Aside(o)
      BY <1>15, <1>0, <2>1 DEF LadderFails, Aside, RowsOK, RestOK
    <2> QED BY <2>2, AsideMild
  <1>16. CASE Refund(w)
    <2>1. \A v \in Procs : Works(v, o)' => task'[v] = task[v]
      BY <1>16, <1>0, GotoKeeps, LeaveKeeps DEF Refund, Works, TasksOK
    <2>2. Aside(o)
      BY <1>16, <1>0, <2>1 DEF Refund, Aside, RowsOK, RestOK, FailOrderWithRefund, Flip
    <2> QED BY <2>2, AsideMild
  <1>17. CASE Probe(w)
    <2>1. \A v \in Procs : Works(v, o)' => task'[v] = task[v]
      BY <1>17, <1>0, GotoKeeps, LeaveKeeps DEF Probe, Works, TasksOK
    <2>2. Aside(o)
      BY <1>17, <1>0, <2>1 DEF Probe, Aside, RowsOK, RestOK
    <2> QED BY <2>2, AsideMild
  <1>18. CASE Adopt(w)
    <2>1. \A v \in Procs : Works(v, o)' => task'[v] = task[v]
      BY <1>18, <1>0, GotoKeeps, LeaveKeeps DEF Adopt, Works, TasksOK
    <2>2. Aside(o)
      BY <1>18, <1>0, <2>1 DEF Adopt, Aside, RowsOK, RestOK, AdoptPanelAccount, AdoptUnconditionally, Flip, Consumed
    <2> QED BY <2>2, AsideMild
  <1>19. CASE LockLapses(w)
    <2>1. \A v \in Procs : Works(v, o)' => task'[v] = task[v]
      BY <1>19, <1>0 DEF LockLapses, Works, TasksOK, TaskRecord
    <2>2. Aside(o)
      BY <1>19, <1>0, <2>1 DEF LockLapses, Aside, RowsOK, RestOK
    <2> QED BY <2>2, AsideMild
  <1>20. CASE Heartbeat(w)
    <2>1. \A v \in Procs : Works(v, o)' => task'[v] = task[v]
      BY <1>20, <1>0 DEF Heartbeat, Works, TasksOK, TaskRecord
    <2>2. Aside(o)
      BY <1>20, <1>0, <2>1 DEF Heartbeat, Aside, RowsOK, RestOK
    <2> QED BY <2>2, AsideMild
  <1> QED BY <1>1, <1>2, <1>3, <1>4, <1>5, <1>6, <1>7, <1>8, <1>9, <1>10, <1>11, <1>12, <1>13, <1>14, <1>15, <1>16, <1>17, <1>18, <1>19, <1>20 DEF Step

(* A process that leaves its order alone.                                  *)
LEMMA LeaveMild ==
    ASSUME TypeOK, NEW o \in Plain, PlainFits(o), NEW w \in Procs, ~At(w, "idle"), Leave(w),
           UNCHANGED <<refunds, reservation, service, named, held, drifted, External>>,
           order'[o] = order[o]
    PROVE  PlainFits(o)'
  <1>0. TasksOK
    BY TypeParts
  <1>1. \A v \in Procs : Works(v, o)' =>
           /\ Works(v, o)
           /\ task'[v].flow = task[v].flow /\ task'[v].key = task[v].key
           /\ task'[v].site = task[v].site
           /\ task'[v].pc = "release" \/ task'[v] = task[v]
    BY <1>0, LeaveKeeps DEF Works
  <1>2. Mild(o)
    BY <1>1 DEF Mild, PlainFits, RowsFit
  <1> QED BY <1>2, MildKeeps

(* What is known of a process that works on a plain order.                 *)
LEMMA OwnFacts ==
    ASSUME TypeOK, NEW o \in Plain, PlainFits(o), NEW w \in Procs, ~At(w, "idle"), OrderOf(w) = o
    PROVE  /\ o \in Orders /\ TasksOK /\ RowsOK /\ RestOK /\ Works(w, o)
           /\ RouteFits(w, o) /\ KnowsPanel(w, o)
           /\ Decides(w) /\ o \notin Unnameable => DecisionFits(w, o)
           /\ RowsFit(o) /\ ReservationFits(o) /\ RemoteFits(o)
           /\ refunds[o] \in Nat /\ created[o] \in Nat /\ order[o] \in OrderStatuses
  <1>1. Works(w, o)
    BY DEF Works
  <1> QED BY <1>1, TypeParts DEF PlainFits, TaskFits, Plain, RowsOK, RestOK

(* The order gets its name, or is given up as unnameable.                  *)
LEMMA EnsureNamingPlain ==
    ASSUME TypeOK, NEW o \in Plain, PlainFits(o), NEW w \in Procs, OrderOf(w) = o, EnsureNaming(w)
    PROVE  PlainFits(o)'
  <1>0. ~At(w, "idle")
    BY DEF EnsureNaming
  <1>1. /\ o \in Orders /\ TasksOK /\ RowsOK /\ RestOK /\ Works(w, o)
        /\ RouteFits(w, o) /\ KnowsPanel(w, o)
        /\ Decides(w) /\ o \notin Unnameable => DecisionFits(w, o)
        /\ RowsFit(o) /\ ReservationFits(o) /\ RemoteFits(o)
        /\ refunds[o] \in Nat /\ created[o] \in Nat /\ order[o] \in OrderStatuses
    BY <1>0, OwnFacts
  <1>2. /\ \A v \in Procs : v # w => task'[v] = task[v]
        /\ task'[w].order = o /\ task'[w].flow = task[w].flow
        /\ task'[w].key = task[w].key /\ task'[w].site = task[w].site
        /\ \/ task'[w].pc = "lock" /\ o \notin Unnameable /\ named' = named \cup {o}
           \/ task'[w].pc = "refund" /\ o \in Unnameable /\ named' = named
        /\ UNCHANGED <<order, service, refunds, reservation, held, drifted, External>>
    BY <1>1, GotoKeeps DEF EnsureNaming
  <1>3. Gentle(w, o)
    BY <1>2 DEF Gentle
  <1>4. RowsFit(o)' /\ ReservationFits(o)' /\ RemoteFits(o)'
    <2>1. RowsFit(o)'
      BY <1>1, <1>2 DEF RowsFit
    <2>2. ReservationFits(o)'
      BY <1>1, <1>2 DEF ReservationFits
    <2>3. RemoteFits(o)'
      BY <1>1, <1>2 DEF RemoteFits
    <2> QED BY <2>1, <2>2, <2>3
  <1>5. TaskFits(w, o)'
    <2>1. o \in Unnameable => \A s \in Sites : account[o][s] # "own" /\ <<o, s>> \notin flying
      BY <1>1 DEF RowsFit, RemoteFits
    <2>2. RouteFits(w, o)'
      BY <1>1, <1>2 DEF RouteFits, EnsureNaming, Committed
    <2>3. KnowsPanel(w, o)'
      BY <1>2, <2>1 DEF KnowsPanel
    <2>4. ~(Decides(w)' /\ o \notin Unnameable)
      BY <1>2 DEF Decides, Committed
    <2> QED BY <2>2, <2>3, <2>4 DEF TaskFits
  <1>6. ~(Decides(w)' /\ o \notin Unnameable)
    BY <1>2 DEF Decides, Committed
  <1> QED BY <1>3, <1>4, <1>5, <1>6, PlainKept

(* The lock was free.                                                      *)
LEMMA AcquireLockPlain ==
    ASSUME TypeOK, NEW o \in Plain, PlainFits(o), NEW w \in Procs, OrderOf(w) = o, AcquireLock(w)
    PROVE  PlainFits(o)'
  <1>0. ~At(w, "idle")
    BY DEF AcquireLock
  <1>1. /\ o \in Orders /\ TasksOK /\ RowsOK /\ RestOK /\ Works(w, o)
        /\ RouteFits(w, o) /\ KnowsPanel(w, o)
        /\ Decides(w) /\ o \notin Unnameable => DecisionFits(w, o)
        /\ RowsFit(o) /\ ReservationFits(o) /\ RemoteFits(o)
        /\ refunds[o] \in Nat /\ created[o] \in Nat /\ order[o] \in OrderStatuses
    BY <1>0, OwnFacts
  <1>2. /\ \A v \in Procs : v # w => task'[v] = task[v]
        /\ task'[w].order = o /\ task'[w].flow = task[w].flow
        /\ task'[w].key = task[w].key /\ task'[w].site = task[w].site
        /\ task'[w].pc = "body" /\ task'[w].locked /\ task[w].key \in Sites
        /\ lock[o][task[w].key] = Free /\ lock'[o][task[w].key] = w
        /\ \A s \in Sites : s # task[w].key => lock'[o][s] = lock[o][s]
        /\ UNCHANGED <<rows, stale, panel, batch, sweeps, bounds>>
    BY <1>1 DEF AcquireLock, TasksOK, TaskRecord, RestOK, RouteFits
  <1>3. Gentle(w, o)
    BY <1>2, ProvisioningAssumption DEF Gentle, ProvisioningAssumption
  <1>4. RowsFit(o)' /\ ReservationFits(o)' /\ RemoteFits(o)'
    <2>1. RowsFit(o)'
      BY <1>1, <1>2 DEF RowsFit
    <2>2. ReservationFits(o)'
      BY <1>1, <1>2 DEF ReservationFits
    <2>3. RemoteFits(o)'
      BY <1>1, <1>2 DEF RemoteFits
    <2> QED BY <2>1, <2>2, <2>3
  <1>5. TaskFits(w, o)' /\ ~Decides(w)'
    <2>1. RouteFits(w, o)'
      BY <1>1, <1>2 DEF RouteFits, AcquireLock, Committed
    <2>2. KnowsPanel(w, o)' /\ ~Decides(w)'
      BY <1>2 DEF KnowsPanel, Decides, Committed
    <2> QED BY <2>1, <2>2 DEF TaskFits
  <1> QED BY <1>3, <1>4, <1>5, PlainKept

(* Whoever finds the order PAID under the lock is alone with it.           *)
LEMMA PipelineBodyPlain ==
    ASSUME TypeOK, NEW o \in Plain, PlainFits(o), NEW w \in Procs, OrderOf(w) = o, PipelineBody(w)
    PROVE  PlainFits(o)'
  <1>0. ~At(w, "idle")
    BY DEF PipelineBody
  <1>1. /\ o \in Orders /\ TasksOK /\ RowsOK /\ RestOK /\ Works(w, o)
        /\ RouteFits(w, o) /\ KnowsPanel(w, o)
        /\ Decides(w) /\ o \notin Unnameable => DecisionFits(w, o)
        /\ RowsFit(o) /\ ReservationFits(o) /\ RemoteFits(o)
        /\ refunds[o] \in Nat /\ created[o] \in Nat /\ order[o] \in OrderStatuses
    BY <1>0, OwnFacts
  <1>2. CASE Leave(w) /\ UNCHANGED <<rows, External>>
    BY <1>0, <1>2, LeaveMild
  <1>3. CASE Goto(w, "finish") /\ o \in service /\ UNCHANGED <<rows, External>>
    <2>1. /\ \A v \in Procs : v # w => task'[v] = task[v]
          /\ task'[w].order = o /\ task'[w].flow = task[w].flow
          /\ task'[w].key = task[w].key /\ task'[w].site = task[w].site
          /\ task'[w].pc = "finish"
      BY <1>1, <1>3, GotoKeeps
    <2>2. Gentle(w, o)
      BY <1>3, <2>1 DEF Gentle
    <2>3. RowsFit(o)' /\ ReservationFits(o)' /\ RemoteFits(o)'
      BY <1>1, <1>3 DEF RowsFit, ReservationFits, RemoteFits
    <2>4. TaskFits(w, o)' /\ ~Decides(w)'
      <3>1. RouteFits(w, o)'
        BY <1>1, <1>3, <2>1 DEF RouteFits, Committed
      <3>2. KnowsPanel(w, o)' /\ ~Decides(w)'
        BY <2>1 DEF KnowsPanel, Decides, Committed
      <3> QED BY <3>1, <3>2 DEF TaskFits
    <2> QED BY <2>2, <2>3, <2>4, PlainKept
  <1>4. ASSUME o \notin service, order[o] = "PAID", NEW pc \in {"claim", "refund"},
               task' = [task EXCEPT ![w].pc = pc, ![w].site = LiveSite(o)],
               UNCHANGED <<rows, External>>
        PROVE  PlainFits(o)'
    <2>1. /\ \A v \in Procs : v # w => task'[v] = task[v]
          /\ task'[w].order = o /\ task'[w].flow = task[w].flow
          /\ task'[w].key = task[w].key /\ task'[w].site = LiveSite(o)
          /\ task'[w].pc = pc /\ task'[w].locked = task[w].locked
      BY <1>1, <1>4 DEF TasksOK, TaskRecord
    <2>2. Gentle(w, o)
      BY <1>4, <2>1 DEF Gentle
    <2>3. RowsFit(o)' /\ ReservationFits(o)' /\ RemoteFits(o)'
      BY <1>1, <1>4 DEF RowsFit, ReservationFits, RemoteFits
    <2>4. /\ task[w].key = "sold" /\ LiveSite(o) = "sold" /\ o \in named /\ o \notin Unnameable
          /\ task[w].locked /\ lock[o]["sold"] = w /\ o \notin stale
          /\ \A s \in Sites : account[o][s] # "own" /\ <<o, s>> \notin flying
      BY <1>1, <1>4 DEF PipelineBody, RouteFits, RowsFit, RemoteFits, LiveSite
    <2>5. TaskFits(w, o)'
      <3>1. RouteFits(w, o)'
        BY <1>1, <1>4, <2>1, <2>4 DEF RouteFits, Committed
      <3>2. KnowsPanel(w, o)'
        BY <1>4, <2>1, <2>4 DEF KnowsPanel
      <3>3. DecisionFits(w, o)'
        BY <1>4, <2>1, <2>4 DEF DecisionFits, Committed
      <3> QED BY <3>1, <3>2, <3>3 DEF TaskFits
    <2>6. ASSUME NEW v \in Procs, v # w, Works(v, o) PROVE ~Decides(v)
      <3>1. Decides(v) => DecisionFits(v, o)
        BY <2>4, <2>6 DEF PlainFits, TaskFits
      <3>2. task[v].order = o
        BY <2>6 DEF Works
      <3> QED BY <1>4, <2>4, <2>6, <3>1, <3>2 DEF DecisionFits
    <2> QED BY <2>2, <2>3, <2>5, <2>6, PlainKept
  <1> QED BY <1>2, <1>3, <1>4 DEF PipelineBody

(* A stale order is recovered under the lock that its claimant held.       *)
LEMMA RecoveryBodyPlain ==
    ASSUME TypeOK, NEW o \in Plain, PlainFits(o), NEW w \in Procs, OrderOf(w) = o, RecoveryBody(w)
    PROVE  PlainFits(o)'
  <1>0. ~At(w, "idle")
    BY DEF RecoveryBody
  <1>1. /\ o \in Orders /\ TasksOK /\ RowsOK /\ RestOK /\ Works(w, o)
        /\ RouteFits(w, o) /\ KnowsPanel(w, o)
        /\ Decides(w) /\ o \notin Unnameable => DecisionFits(w, o)
        /\ RowsFit(o) /\ ReservationFits(o) /\ RemoteFits(o)
        /\ refunds[o] \in Nat /\ created[o] \in Nat /\ order[o] \in OrderStatuses
    BY <1>0, OwnFacts
  <1>2. CASE Leave(w) /\ UNCHANGED <<rows, External>>
    BY <1>0, <1>2, LeaveMild
  <1>3. ASSUME order[o] = "PROVISIONING", NEW pc \in {"finish", "probe"}, Goto(w, pc),
               pc = "finish" => o \in service, UNCHANGED <<rows, External>>
        PROVE  PlainFits(o)'
    <2>1. /\ \A v \in Procs : v # w => task'[v] = task[v]
          /\ task'[w].order = o /\ task'[w].flow = task[w].flow
          /\ task'[w].key = task[w].key /\ task'[w].site = task[w].site
          /\ task'[w].pc = pc /\ task'[w].locked = task[w].locked
      BY <1>1, <1>3, GotoKeeps
    <2>2. Gentle(w, o)
      BY <1>3, <2>1 DEF Gentle
    <2>3. RowsFit(o)' /\ ReservationFits(o)' /\ RemoteFits(o)'
      BY <1>1, <1>3 DEF RowsFit, ReservationFits, RemoteFits
    <2>4. /\ task[w].flow = "recovery" /\ task[w].key = "sold" /\ o \notin Unnameable
          /\ task[w].locked /\ lock[o]["sold"] = w /\ o \in stale
      BY <1>1 DEF RecoveryBody, RouteFits, RowsFit
    <2>5. TaskFits(w, o)'
      <3>1. RouteFits(w, o)'
        BY <1>1, <1>3, <2>1, <2>4 DEF RouteFits, Committed
      <3>2. KnowsPanel(w, o)'
        BY <1>3, <2>1 DEF KnowsPanel
      <3>3. DecisionFits(w, o)'
        BY <1>3, <2>1, <2>4 DEF DecisionFits, Committed
      <3> QED BY <3>1, <3>2, <3>3 DEF TaskFits
    <2>6. ASSUME NEW v \in Procs, v # w, Works(v, o) PROVE ~Decides(v)
      <3>1. Decides(v) => DecisionFits(v, o)
        BY <2>4, <2>6 DEF PlainFits, TaskFits
      <3>2. task[v].order = o
        BY <2>6 DEF Works
      <3> QED BY <2>4, <2>6, <3>1, <3>2 DEF DecisionFits
    <2> QED BY <2>2, <2>3, <2>5, <2>6, PlainKept
  <1> QED BY <1>2, <1>3 DEF RecoveryBody

(* An order with its Service row is COMPLETED already.                     *)
LEMMA FinishPlain ==
    ASSUME TypeOK, NEW o \in Plain, PlainFits(o), NEW w \in Procs, OrderOf(w) = o, Finish(w)
    PROVE  PlainFits(o)'
  <1>0. ~At(w, "idle")
    BY DEF Finish
  <1>1. /\ o \in Orders /\ TasksOK /\ RowsOK /\ RestOK /\ Works(w, o)
        /\ RouteFits(w, o) /\ KnowsPanel(w, o)
        /\ Decides(w) /\ o \notin Unnameable => DecisionFits(w, o)
        /\ RowsFit(o) /\ ReservationFits(o) /\ RemoteFits(o)
        /\ refunds[o] \in Nat /\ created[o] \in Nat /\ order[o] \in OrderStatuses
    BY <1>0, OwnFacts
  <1>2. order[o] = "COMPLETED"
    BY <1>1 DEF Finish, RouteFits, RowsFit
  <1>3. Leave(w) /\ UNCHANGED <<refunds, reservation, service, named, held, drifted, External>>
    BY DEF Finish, SetOrder, MoveOrder
  <1>4. order'[o] = order[o]
    BY <1>1, <1>2 DEF Finish, SetOrder, MoveOrder, Flip, RowsOK
  <1> QED BY <1>0, <1>3, <1>4, LeaveMild

(* The claimant of a plain order finds it PAID: nobody else decides.       *)
LEMMA ClaimPlain ==
    ASSUME TypeOK, NEW o \in Plain, PlainFits(o), NEW w \in Procs, OrderOf(w) = o, Claim(w)
    PROVE  PlainFits(o)'
  <1>0. ~At(w, "idle")
    BY DEF Claim
  <1>1. /\ o \in Orders /\ TasksOK /\ RowsOK /\ RestOK /\ Works(w, o)
        /\ RouteFits(w, o) /\ KnowsPanel(w, o)
        /\ Decides(w) /\ o \notin Unnameable => DecisionFits(w, o)
        /\ RowsFit(o) /\ ReservationFits(o) /\ RemoteFits(o)
        /\ refunds[o] \in Nat /\ created[o] \in Nat /\ order[o] \in OrderStatuses
    BY <1>0, OwnFacts
  <1>2. order[o] = "PAID" /\ o \in named /\ o \notin Unnameable /\ DecisionFits(w, o)
    BY <1>1 DEF Claim, RouteFits, DecisionFits, Decides, Committed
  <1>3. PICK pc \in {"send", "refund"} : Goto(w, pc)
    BY <1>2 DEF Claim
  <1>4. /\ \A v \in Procs : v # w => task'[v] = task[v]
        /\ task'[w].order = o /\ task'[w].flow = task[w].flow
        /\ task'[w].key = task[w].key /\ task'[w].site = task[w].site
        /\ task'[w].pc = pc /\ task'[w].locked = task[w].locked
        /\ order'[o] = "PROVISIONING"
        /\ UNCHANGED <<refunds, reservation, service, named, held, drifted, External>>
    BY <1>1, <1>2, <1>3, GotoKeeps DEF Claim, MoveOrder, Flip, RowsOK
  <1>5. Decides(w) /\ Gentle(w, o)
    BY <1>1, <1>4 DEF Gentle, Decides, Committed, Claim
  <1>6. RowsFit(o)' /\ ReservationFits(o)' /\ RemoteFits(o)'
    BY <1>1, <1>2, <1>4 DEF RowsFit, ReservationFits, RemoteFits
  <1>7. TaskFits(w, o)'
    <2>1. RouteFits(w, o)'
      BY <1>1, <1>2, <1>4 DEF RouteFits, Committed
    <2>2. KnowsPanel(w, o)'
      BY <1>1, <1>2, <1>4 DEF KnowsPanel, RowsFit, RemoteFits
    <2>3. DecisionFits(w, o)'
      BY <1>2, <1>4 DEF DecisionFits, Committed, Claim, RowsFit
    <2> QED BY <2>1, <2>2, <2>3 DEF TaskFits
  <1> QED BY <1>1, <1>5, <1>6, <1>7, PlainKept

(* The one request goes to the site that was sold.                         *)
LEMMA SendCreatePlain ==
    ASSUME TypeOK, CreateInv, NEW o \in Plain, PlainFits(o), NEW w \in Procs, OrderOf(w) = o, SendCreate(w)
    PROVE  PlainFits(o)'
  <1>0. ~At(w, "idle")
    BY DEF SendCreate
  <1>1. /\ o \in Orders /\ TasksOK /\ RowsOK /\ RestOK /\ Works(w, o)
        /\ RouteFits(w, o) /\ KnowsPanel(w, o)
        /\ Decides(w) /\ o \notin Unnameable => DecisionFits(w, o)
        /\ RowsFit(o) /\ ReservationFits(o) /\ RemoteFits(o)
        /\ refunds[o] \in Nat /\ created[o] \in Nat /\ order[o] \in OrderStatuses
    BY <1>0, OwnFacts
  <1>2. /\ \A v \in Procs : v # w => task'[v] = task[v]
        /\ task'[w].order = o /\ task'[w].flow = task[w].flow
        /\ task'[w].key = task[w].key /\ task'[w].site = task[w].site
        /\ task'[w].pc = "answer" /\ task'[w].locked = task[w].locked
        /\ flying' = flying \cup {<<o, task[w].site>>} /\ created'[o] = created[o] + 1
        /\ UNCHANGED <<rows, stale, account, lock, batch, sweeps, bounds>>
    BY <1>1, GotoKeeps DEF SendCreate, RestOK
  <1>3. /\ Decides(w) /\ o \notin Unnameable /\ task[w].site = "sold"
        /\ order[o] = "PROVISIONING" /\ o \in named /\ o \notin stale /\ created[o] = 0
    BY <1>1 DEF SendCreate, Decides, Committed, RouteFits, DecisionFits, RowsFit, KnowsPanel,
                CreateInv, SendsFirst
  <1>4. Gentle(w, o)
    BY <1>1, <1>2, <1>3 DEF Gentle
  <1>5. RowsFit(o)' /\ ReservationFits(o)' /\ RemoteFits(o)'
    <2>1. RowsFit(o)' /\ ReservationFits(o)'
      BY <1>1, <1>2 DEF RowsFit, ReservationFits
    <2>2. ~(refunds[o] > 0)
      BY <1>1, <1>3 DEF RowsFit
    <2>3. RemoteFits(o)'
      BY <1>1, <1>2, <1>3, <2>2 DEF RemoteFits
    <2> QED BY <2>1, <2>3
  <1>6. TaskFits(w, o)'
    <2>1. RouteFits(w, o)'
      BY <1>1, <1>2, <1>3 DEF RouteFits, Committed
    <2>2. KnowsPanel(w, o)'
      BY <1>2 DEF KnowsPanel
    <2>3. DecisionFits(w, o)'
      BY <1>1, <1>2, <1>3 DEF DecisionFits, Committed
    <2> QED BY <2>1, <2>2, <2>3 DEF TaskFits
  <1> QED BY <1>1, <1>3, <1>4, <1>5, <1>6, PlainKept

(* A process past the claim goes on to a step whose knowledge it has.      *)
LEMMA GoesOn ==
    ASSUME TypeOK, NEW o \in Plain, PlainFits(o), NEW w \in Procs, OrderOf(w) = o,
           task[w].pc \in Committed, NEW pc \in {"persist", "ladder", "orphan", "refund", "adopt"},
           Goto(w, pc), UNCHANGED <<rows, External>>,
           pc = "adopt" => Runs(w, "recovery"),
           pc = "refund" => \A s \in Sites : account[o][s] # "own" /\ <<o, s>> \notin flying,
           pc \in {"persist", "ladder", "orphan"} => account[o]["sold"] # "none"
    PROVE  PlainFits(o)'
  <1>0. ~At(w, "idle") /\ Decides(w)
    BY DEF Committed, Decides
  <1>1. /\ o \in Orders /\ TasksOK /\ RowsOK /\ RestOK /\ Works(w, o)
        /\ RouteFits(w, o) /\ KnowsPanel(w, o)
        /\ Decides(w) /\ o \notin Unnameable => DecisionFits(w, o)
        /\ RowsFit(o) /\ ReservationFits(o) /\ RemoteFits(o)
    BY <1>0, OwnFacts
  <1>2. /\ \A v \in Procs : v # w => task'[v] = task[v]
        /\ task'[w].order = o /\ task'[w].flow = task[w].flow
        /\ task'[w].key = task[w].key /\ task'[w].site = task[w].site
        /\ task'[w].pc = pc /\ task'[w].locked = task[w].locked
    BY <1>1, GotoKeeps
  <1>3. Gentle(w, o)
    BY <1>2 DEF Gentle
  <1>4. RowsFit(o)' /\ ReservationFits(o)' /\ RemoteFits(o)'
    BY <1>1 DEF RowsFit, ReservationFits, RemoteFits
  <1>5. o \notin Unnameable /\ DecisionFits(w, o) /\ order[o] = "PROVISIONING"
    BY <1>0, <1>1 DEF RouteFits, DecisionFits
  <1>6. TaskFits(w, o)'
    <2>1. RouteFits(w, o)'
      BY <1>1, <1>2, <1>5 DEF RouteFits, Committed
    <2>2. KnowsPanel(w, o)'
      BY <1>2 DEF KnowsPanel
    <2>3. DecisionFits(w, o)'
      BY <1>2, <1>5 DEF DecisionFits, Committed
    <2> QED BY <2>1, <2>2, <2>3 DEF TaskFits
  <1> QED BY <1>0, <1>1, <1>3, <1>4, <1>6, PlainKept

(* An answer, or the refusal for certain of the only request.              *)
LEMMA CreateAnsweredPlain ==
    ASSUME TypeOK, NEW o \in Plain, PlainFits(o), NEW w \in Procs, OrderOf(w) = o, CreateAnswered(w)
    PROVE  PlainFits(o)'
  <1>0. ~At(w, "idle")
    BY DEF CreateAnswered
  <1>1. /\ o \in Orders /\ TasksOK /\ RowsOK /\ RestOK /\ Works(w, o)
        /\ RouteFits(w, o) /\ KnowsPanel(w, o)
        /\ Decides(w) /\ o \notin Unnameable => DecisionFits(w, o)
        /\ RowsFit(o) /\ ReservationFits(o) /\ RemoteFits(o)
        /\ refunds[o] \in Nat /\ created[o] \in Nat /\ order[o] \in OrderStatuses
    BY <1>0, OwnFacts
  <1>2. task[w].pc \in Committed /\ task[w].site = "sold"
    BY <1>1 DEF CreateAnswered, Committed, RouteFits, DecisionFits, Decides
  <1>3. CASE Leave(w)
    BY <1>0, <1>3, LeaveMild DEF CreateAnswered
  <1>4. CASE account[o]["sold"] # "none" /\ Goto(w, "persist")
    BY <1>2, <1>4, GoesOn DEF CreateAnswered
  <1>5. CASE account[o]["sold"] # "own" /\ <<o, "sold">> \notin flying /\ Goto(w, "refund")
    <2>1. \A s \in Sites : account[o][s] # "own" /\ <<o, s>> \notin flying
      BY <1>1, <1>5 DEF RemoteFits
    <2> QED BY <1>2, <1>5, <2>1, GoesOn DEF CreateAnswered
  <1> QED BY <1>2, <1>3, <1>4, <1>5 DEF CreateAnswered

(* The account exists and its row does not.                                *)
LEMMA PersistFailsPlain ==
    ASSUME TypeOK, NEW o \in Plain, PlainFits(o), NEW w \in Procs, OrderOf(w) = o, PersistFails(w)
    PROVE  PlainFits(o)'
  <1>0. ~At(w, "idle")
    BY DEF PersistFails
  <1>1. /\ o \in Orders /\ TasksOK /\ RowsOK /\ RestOK /\ Works(w, o)
        /\ RouteFits(w, o) /\ KnowsPanel(w, o)
        /\ Decides(w) /\ o \notin Unnameable => DecisionFits(w, o)
        /\ RowsFit(o) /\ ReservationFits(o) /\ RemoteFits(o)
        /\ refunds[o] \in Nat /\ created[o] \in Nat /\ order[o] \in OrderStatuses
    BY <1>0, OwnFacts
  <1>2. CASE Leave(w)
    BY <1>0, <1>2, LeaveMild DEF PersistFails
  <1>3. CASE Goto(w, "ladder")
    BY <1>1, <1>3, GoesOn DEF PersistFails, Committed, KnowsPanel
  <1> QED BY <1>2, <1>3 DEF PersistFails

(* The last rung: the account is left behind.                              *)
LEMMA LadderFailsPlain ==
    ASSUME TypeOK, NEW o \in Plain, PlainFits(o), NEW w \in Procs, OrderOf(w) = o, LadderFails(w)
    PROVE  PlainFits(o)'
  <1>0. ~At(w, "idle")
    BY DEF LadderFails
  <1>1. /\ o \in Orders /\ TasksOK /\ RowsOK /\ RestOK /\ Works(w, o)
        /\ RouteFits(w, o) /\ KnowsPanel(w, o)
        /\ Decides(w) /\ o \notin Unnameable => DecisionFits(w, o)
        /\ RowsFit(o) /\ ReservationFits(o) /\ RemoteFits(o)
        /\ refunds[o] \in Nat /\ created[o] \in Nat /\ order[o] \in OrderStatuses
    BY <1>0, OwnFacts
  <1> QED BY <1>1, GoesOn DEF LadderFails, Committed, KnowsPanel

(* By now the only request has arrived or is lost.                         *)
LEMMA ProbePlain ==
    ASSUME TypeOK, NEW o \in Plain, PlainFits(o), NEW w \in Procs, OrderOf(w) = o, Probe(w)
    PROVE  PlainFits(o)'
  <1>0. ~At(w, "idle")
    BY DEF Probe
  <1>1. /\ o \in Orders /\ TasksOK /\ RowsOK /\ RestOK /\ Works(w, o)
        /\ RouteFits(w, o) /\ KnowsPanel(w, o)
        /\ Decides(w) /\ o \notin Unnameable => DecisionFits(w, o)
        /\ RowsFit(o) /\ ReservationFits(o) /\ RemoteFits(o)
        /\ refunds[o] \in Nat /\ created[o] \in Nat /\ order[o] \in OrderStatuses
    BY <1>0, OwnFacts
  <1>2. CASE Leave(w)
    BY <1>0, <1>2, LeaveMild DEF Probe
  <1>3. /\ task[w].pc \in Committed /\ Runs(w, "recovery") /\ task[w].site = "sold" /\ o \in stale
    BY <1>1, ProvisioningAssumption
    DEF Probe, Committed, RouteFits, DecisionFits, Decides, ProvisioningAssumption
  <1>4. CASE Goto(w, "adopt")
    BY <1>3, <1>4, GoesOn DEF Probe
  <1>5. CASE account[o]["sold"] = "none" /\ Goto(w, "refund")
    <2>1. \A s \in Sites : account[o][s] # "own" /\ <<o, s>> \notin flying
      BY <1>1, <1>3, <1>5 DEF RemoteFits
    <2> QED BY <1>3, <1>5, <2>1, GoesOn DEF Probe
  <1> QED BY <1>2, <1>3, <1>4, <1>5 DEF Probe

(* The process that decides the order leaves with it COMPLETED or FAILED.  *)
LEMMA DecidedPlain ==
    ASSUME TypeOK, NEW o \in Plain, PlainFits(o), NEW w \in Procs, OrderOf(w) = o, Decides(w),
           Leave(w), External' = External, held' = held, drifted' = drifted, named' = named,
           RowsFit(o)', ReservationFits(o)', RemoteFits(o)',
           order'[o] # order[o] => order'[o] # "PAID", o \in service => o \in service'
    PROVE  PlainFits(o)'
  <1>0. ~At(w, "idle")
    BY DEF Decides, Committed
  <1>1. TasksOK /\ Works(w, o) /\ RouteFits(w, o)
    BY <1>0, OwnFacts
  <1>2. /\ \A v \in Procs : v # w => task'[v] = task[v]
        /\ task'[w].pc \in {"release", "idle"}
        /\ task'[w].pc # "idle" =>
              /\ task'[w].order = task[w].order /\ task'[w].flow = task[w].flow
              /\ task'[w].key = task[w].key /\ task'[w].site = task[w].site
    BY <1>1, LeaveKeeps
  <1>3. Gentle(w, o)
    BY <1>1, <1>2 DEF Gentle
  <1>4. ~Decides(w)'
    BY <1>2 DEF Decides, Committed
  <1>5. ASSUME Works(w, o)' PROVE TaskFits(w, o)'
    <2>1. RouteFits(w, o)'
      BY <1>1, <1>2, <1>5 DEF RouteFits, Committed, Works
    <2>2. KnowsPanel(w, o)'
      BY <1>2, <1>5 DEF KnowsPanel, Works
    <2> QED BY <1>4, <2>1, <2>2 DEF TaskFits
  <1> QED BY <1>3, <1>4, <1>5, PlainKept

(* The Service row, the reservation and the order together.                *)
LEMMA PersistPlain ==
    ASSUME TypeOK, NEW o \in Plain, PlainFits(o), NEW w \in Procs, OrderOf(w) = o, Persist(w)
    PROVE  PlainFits(o)'
  <1>0. ~At(w, "idle")
    BY DEF Persist
  <1>1. /\ o \in Orders /\ TasksOK /\ RowsOK /\ RestOK /\ Works(w, o)
        /\ RouteFits(w, o) /\ KnowsPanel(w, o)
        /\ Decides(w) /\ o \notin Unnameable => DecisionFits(w, o)
        /\ RowsFit(o) /\ ReservationFits(o) /\ RemoteFits(o)
        /\ refunds[o] \in Nat /\ created[o] \in Nat /\ order[o] \in OrderStatuses
    BY <1>0, OwnFacts
  <1>2. /\ Decides(w) /\ o \notin Unnameable /\ order[o] = "PROVISIONING" /\ o \in named
        /\ o \notin service /\ refunds[o] = 0
    BY <1>1, ProvisioningAssumption
    DEF Persist, Committed, Decides, RouteFits, DecisionFits, RowsFit, ProvisioningAssumption
  <1>3. /\ Leave(w) /\ External' = External
        /\ UNCHANGED <<named, refunds, held, drifted>>
        /\ \/ /\ service' = service \cup {o} /\ order'[o] = "COMPLETED"
              /\ reservation'[o] = IF reservation[o] = "BOUND" THEN "CONSUMED" ELSE reservation[o]
           \/ UNCHANGED rows
    BY <1>1, <1>2 DEF Persist, PersistService, Flip, Consumed, RowsOK
  <1>4. RowsFit(o)' /\ ReservationFits(o)' /\ RemoteFits(o)'
    <2>1. RowsFit(o)'
      BY <1>1, <1>2, <1>3 DEF RowsFit
    <2>2. ReservationFits(o)'
      BY <1>1, <1>2, <1>3 DEF ReservationFits
    <2>3. RemoteFits(o)'
      BY <1>1, <1>2, <1>3 DEF RemoteFits
    <2> QED BY <2>1, <2>2, <2>3
  <1> QED BY <1>2, <1>3, <1>4, DecidedPlain

(* The second persist does the same.                                       *)
LEMMA LadderCompletesPlain ==
    ASSUME TypeOK, NEW o \in Plain, PlainFits(o), NEW w \in Procs, OrderOf(w) = o, LadderCompletes(w)
    PROVE  PlainFits(o)'
  <1>0. ~At(w, "idle")
    BY DEF LadderCompletes
  <1>1. /\ o \in Orders /\ TasksOK /\ RowsOK /\ RestOK /\ Works(w, o)
        /\ RouteFits(w, o) /\ KnowsPanel(w, o)
        /\ Decides(w) /\ o \notin Unnameable => DecisionFits(w, o)
        /\ RowsFit(o) /\ ReservationFits(o) /\ RemoteFits(o)
        /\ refunds[o] \in Nat /\ created[o] \in Nat /\ order[o] \in OrderStatuses
    BY <1>0, OwnFacts
  <1>2. /\ Decides(w) /\ o \notin Unnameable /\ order[o] = "PROVISIONING" /\ o \in named
        /\ o \notin service /\ refunds[o] = 0
    BY <1>1, ProvisioningAssumption
    DEF LadderCompletes, Committed, Decides, RouteFits, DecisionFits, RowsFit, ProvisioningAssumption
  <1>3. /\ Leave(w) /\ External' = External
        /\ UNCHANGED <<named, refunds, held, drifted>>
        /\ \/ /\ service' = service \cup {o} /\ order'[o] = "COMPLETED"
              /\ reservation'[o] = IF reservation[o] = "BOUND" THEN "CONSUMED" ELSE reservation[o]
           \/ UNCHANGED rows
    BY <1>1, <1>2 DEF LadderCompletes, PersistService, MoveOrder, Flip, Consumed, RowsOK
  <1>4. RowsFit(o)' /\ ReservationFits(o)' /\ RemoteFits(o)'
    <2>1. RowsFit(o)'
      BY <1>1, <1>2, <1>3 DEF RowsFit
    <2>2. ReservationFits(o)'
      BY <1>1, <1>2, <1>3 DEF ReservationFits
    <2>3. RemoteFits(o)'
      BY <1>1, <1>2, <1>3 DEF RemoteFits
    <2> QED BY <2>1, <2>2, <2>3
  <1> QED BY <1>2, <1>3, <1>4, DecidedPlain

(* The recovery does the same with the account it found.                   *)
LEMMA AdoptPlain ==
    ASSUME TypeOK, NEW o \in Plain, PlainFits(o), NEW w \in Procs, OrderOf(w) = o, Adopt(w)
    PROVE  PlainFits(o)'
  <1>0. ~At(w, "idle")
    BY DEF Adopt
  <1>1. /\ o \in Orders /\ TasksOK /\ RowsOK /\ RestOK /\ Works(w, o)
        /\ RouteFits(w, o) /\ KnowsPanel(w, o)
        /\ Decides(w) /\ o \notin Unnameable => DecisionFits(w, o)
        /\ RowsFit(o) /\ ReservationFits(o) /\ RemoteFits(o)
        /\ refunds[o] \in Nat /\ created[o] \in Nat /\ order[o] \in OrderStatuses
    BY <1>0, OwnFacts
  <1>2. /\ Decides(w) /\ o \notin Unnameable /\ order[o] = "PROVISIONING" /\ o \in named
        /\ o \notin service /\ refunds[o] = 0
        /\ Runs(w, "recovery")
    BY <1>1, ProvisioningAssumption
    DEF Adopt, Committed, Decides, RouteFits, DecisionFits, RowsFit, ProvisioningAssumption
  <1>3. /\ Leave(w) /\ External' = External
        /\ UNCHANGED <<named, refunds, held, drifted>>
        /\ \/ /\ service' = service \cup {o} /\ order'[o] = "COMPLETED"
              /\ reservation'[o] = IF reservation[o] = "BOUND" THEN "CONSUMED" ELSE reservation[o]
           \/ UNCHANGED rows
    BY <1>1, <1>2 DEF Adopt, AdoptPanelAccount, AdoptUnconditionally, Flip, Consumed, RowsOK
  <1>4. RowsFit(o)' /\ ReservationFits(o)' /\ RemoteFits(o)'
    <2>1. RowsFit(o)'
      BY <1>1, <1>2, <1>3 DEF RowsFit
    <2>2. ReservationFits(o)'
      BY <1>1, <1>2, <1>3 DEF ReservationFits
    <2>3. RemoteFits(o)'
      BY <1>1, <1>2, <1>3 DEF RemoteFits
    <2> QED BY <2>1, <2>2, <2>3
  <1> QED BY <1>2, <1>3, <1>4, DecidedPlain

(* Whoever flips the order refunds it and frees its reservation.           *)
LEMMA RefundPlain ==
    ASSUME TypeOK, NEW o \in Plain, PlainFits(o), NEW w \in Procs, OrderOf(w) = o, Refund(w)
    PROVE  PlainFits(o)'
  <1>0. ~At(w, "idle")
    BY DEF Refund
  <1>1. /\ o \in Orders /\ TasksOK /\ RowsOK /\ RestOK /\ Works(w, o)
        /\ RouteFits(w, o) /\ KnowsPanel(w, o)
        /\ Decides(w) /\ o \notin Unnameable => DecisionFits(w, o)
        /\ RowsFit(o) /\ ReservationFits(o) /\ RemoteFits(o)
        /\ refunds[o] \in Nat /\ created[o] \in Nat /\ order[o] \in OrderStatuses
    BY <1>0, OwnFacts
  <1>2. Decides(w)
    BY DEF Refund, Decides, Committed
  <1>3. /\ Leave(w) /\ External' = External
        /\ UNCHANGED <<named, service, held, drifted>>
        /\ order'[o] # order[o] => order'[o] = "FAILED"
        /\ \/ order[o] \in {"PAID", "PROVISIONING"} /\ order'[o] = "FAILED" /\ refunds[o] = 0
              /\ refunds'[o] = refunds[o] + 1
              /\ reservation'[o] = IF reservation[o] = "BOUND" THEN "RELEASED" ELSE reservation[o]
           \/ UNCHANGED <<refunds, reservation>> /\ order'[o] = order[o]
    <2>1. order[o] \in {"PAID", "PROVISIONING"} => refunds[o] = 0
      BY <1>1 DEF RowsFit
    <2> QED BY <1>1, <2>1 DEF Refund, FailOrderWithRefund, Flip, RowsOK
  <1>4. RowsFit(o)' /\ ReservationFits(o)' /\ RemoteFits(o)'
    <2>1. RowsFit(o)'
      BY <1>1, <1>3 DEF RowsFit
    <2>2. ReservationFits(o)'
      BY <1>1, <1>3 DEF ReservationFits, RowsFit
    <2>3. \A s \in Sites : <<o, s>> \in flying => account[o][s] # "none"
      BY <1>1 DEF Refund, KnowsPanel, RemoteFits
    <2>4. RemoteFits(o)'
      BY <1>1, <1>3, <2>3 DEF RemoteFits
    <2> QED BY <2>1, <2>2, <2>4
  <1> QED BY <1>2, <1>3, <1>4, DecidedPlain

(* A lock lapses while its owner waits, before the order is stale.         *)
LEMMA LockLapsesPlain ==
    ASSUME TypeOK, NEW o \in Plain, PlainFits(o), NEW w \in Procs, OrderOf(w) = o, LockLapses(w)
    PROVE  PlainFits(o)'
  <1>0. ~At(w, "idle")
    BY DEF LockLapses
  <1>1. /\ o \in Orders /\ TasksOK /\ RowsOK /\ RestOK /\ Works(w, o)
        /\ RouteFits(w, o) /\ KnowsPanel(w, o)
        /\ Decides(w) /\ o \notin Unnameable => DecisionFits(w, o)
        /\ RowsFit(o) /\ ReservationFits(o) /\ RemoteFits(o)
        /\ refunds[o] \in Nat /\ created[o] \in Nat /\ order[o] \in OrderStatuses
    BY <1>0, OwnFacts
  <1>2. /\ \A v \in Procs : task'[v] = task[v]
        /\ \A v \in Procs, s \in Sites : v # w /\ lock[o][s] = v => lock'[o][s] = v
        /\ UNCHANGED <<rows, stale, panel, task, batch>>
    BY <1>1 DEF LockLapses, RestOK
  <1>3. Decides(w) /\ Gentle(w, o)
    BY <1>2 DEF Gentle, LockLapses, Decides, Committed
  <1>4. RowsFit(o)' /\ ReservationFits(o)' /\ RemoteFits(o)'
    BY <1>1, <1>2 DEF RowsFit, ReservationFits, RemoteFits
  <1>5. order[o] = "PROVISIONING" /\ o \notin stale /\ o \notin Unnameable /\ DecisionFits(w, o)
    BY <1>1 DEF LockLapses, RouteFits, DecisionFits, Decides, Committed
  <1>6. TaskFits(w, o)'
    <2>1. RouteFits(w, o)'
      BY <1>1, <1>2 DEF RouteFits, LockLapses
    <2>2. KnowsPanel(w, o)'
      BY <1>1, <1>2 DEF KnowsPanel
    <2>3. DecisionFits(w, o)'
      BY <1>2, <1>5 DEF DecisionFits
    <2> QED BY <2>1, <2>2, <2>3 DEF TaskFits
  <1> QED BY <1>1, <1>3, <1>4, <1>6, PlainKept

(* Every step keeps what is known of a plain order.                        *)
LEMMA PlainStep ==
    ASSUME CreateInv, HeldInv, NEW o \in Plain, PlainFits(o), [Next]_vars
    PROVE  PlainFits(o)'
  <1>0. /\ TypeOK /\ TasksOK /\ RowsOK /\ RestOK /\ ProvisioningAssumption
        /\ o \in Orders /\ o \notin MiniApp /\ o \notin Drifting
        /\ RowsFit(o) /\ ReservationFits(o) /\ RemoteFits(o)
    BY TypeParts, ProvisioningAssumption DEF CreateInv, Plain, PlainFits
  <1>1. ASSUME NEW w \in Procs, Step(w) PROVE PlainFits(o)'
    <2>1. CASE OrderOf(w) # o
      BY <1>0, <1>1, <2>1, Elsewhere
    <2>2. CASE OrderOf(w) = o
      <3>1. CASE GiveUpLock(w)
        BY <1>0, <3>1, LeaveMild DEF GiveUpLock
      <3>2. CASE ReleaseLock(w)
        <4>1. \A v \in Procs : Works(v, o)' => v # w /\ task'[v] = task[v]
          BY <1>0, <3>2 DEF ReleaseLock, Works, IdleTask, TasksOK, TaskRecord
        <4>2. \A v \in Procs, s \in Sites : v # w /\ lock[o][s] = v => lock'[o][s] = v
          BY <1>0, <2>2, <3>2 DEF ReleaseLock, RestOK
        <4>3. Gentle(w, o)
          <5>1. \A v \in Procs : v # w => task'[v] = task[v]
            BY <1>0, <3>2 DEF ReleaseLock, TasksOK
          <5> QED BY <3>2, <4>2, <5>1 DEF ReleaseLock, Gentle
        <4>4. RowsFit(o)' /\ ReservationFits(o)' /\ RemoteFits(o)'
          BY <1>0, <3>2 DEF ReleaseLock, RowsFit, ReservationFits, RemoteFits
        <4> QED BY <1>0, <4>1, <4>3, <4>4, PlainKept
      <3>3. CASE ExecutorBody(w)
        BY <1>0, <2>2, <3>3, OwnFacts DEF ExecutorBody, RouteFits
      <3>4. CASE Heartbeat(w)
        <4>1. \A v \in Procs : /\ task'[v].pc = task[v].pc /\ task'[v].order = task[v].order
                               /\ task'[v].flow = task[v].flow /\ task'[v].key = task[v].key
                               /\ task'[v].site = task[v].site /\ task'[v].locked = task[v].locked
          BY <1>0, <3>4 DEF Heartbeat, TasksOK, TaskRecord
        <4>2. Mild(o)
          BY <1>0, <3>4, <4>1 DEF Heartbeat, Mild, Works, RowsFit
        <4> QED BY <1>0, <4>2, MildKeeps
      <3> QED
        BY <1>0, <1>1, <2>2, <3>1, <3>2, <3>3, <3>4, EnsureNamingPlain, AcquireLockPlain,
           PipelineBodyPlain, RecoveryBodyPlain, FinishPlain, ClaimPlain, SendCreatePlain,
           CreateAnsweredPlain, PersistPlain, PersistFailsPlain, LadderCompletesPlain,
           LadderFailsPlain, RefundPlain, ProbePlain, AdoptPlain, LockLapsesPlain DEF Step
    <2> QED BY <2>1, <2>2
  <1>2. ASSUME NEW w \in Dispatchers, NEW p \in Orders, ReadHead(w, p) PROVE PlainFits(o)'
    <2>0. w \in Procs
      BY DEF Procs
    <2>1. CASE p # o
      <3>1. \A v \in Procs : Works(v, o)' => task'[v] = task[v]
        BY <1>0, <1>2, <2>0, <2>1, BeginKeeps DEF ReadHead, Works
      <3>2. Aside(o)
        BY <1>2, <3>1 DEF ReadHead, Aside
      <3> QED BY <1>0, <3>2, AsideMild
    <2>2. CASE p = o
      <3>1. PICK pc \in {"lock", "name"}, s \in {"sold", "generated"} :
               /\ Begin(w, "pipeline", o, pc, s)
               /\ pc = "name" => s = "sold"
               /\ s # "sold" => order[o] # "PAID"
               /\ pc = "lock" /\ order[o] = "PAID" => o \in named
        BY <1>0, <1>2, <2>2 DEF ReadHead, RowsFit
      <3>2. /\ \A v \in Procs : v # w => task'[v] = task[v]
            /\ task'[w].pc = pc /\ task'[w].order = o /\ task'[w].flow = "pipeline"
            /\ task'[w].key = s /\ task'[w].site = s
        BY <1>0, <2>0, <3>1, BeginKeeps
      <3>3. UNCHANGED <<rows, External>>
        BY <1>2 DEF ReadHead
      <3>4. Gentle(w, o)
        BY <3>2, <3>3 DEF Gentle
      <3>5. RowsFit(o)' /\ ReservationFits(o)' /\ RemoteFits(o)'
        BY <1>0, <3>3 DEF RowsFit, ReservationFits, RemoteFits
      <3>6. ~Decides(w)'
        BY <3>2 DEF Decides, Committed
      <3>7. TaskFits(w, o)'
        <4>1. RouteFits(w, o)'
          BY <3>1, <3>2, <3>3 DEF RouteFits, Committed
        <4>2. KnowsPanel(w, o)'
          BY <3>2 DEF KnowsPanel
        <4> QED BY <3>6, <4>1, <4>2 DEF TaskFits
      <3> QED BY <1>0, <2>0, <3>4, <3>5, <3>6, <3>7, PlainKept
    <2> QED BY <2>1, <2>2
  <1>3. ASSUME NEW w \in Jobs, NEW p \in Orders, FollowUp(w, p) PROVE PlainFits(o)'
    <2>1. \A v \in Procs : Works(v, o)' => task'[v] = task[v]
      BY <1>0, <1>3, BeginKeeps DEF FollowUp, Works, Procs
    <2>2. Aside(o)
      BY <1>3, <2>1 DEF FollowUp, Aside
    <2> QED BY <1>0, <2>2, AsideMild
  <1>4. CASE StartRecovery
    <2>1. Mild(o)
      BY <1>0, <1>4 DEF StartRecovery, Mild, Works, RowsFit
    <2> QED BY <1>0, <2>1, MildKeeps
  <1>5. ASSUME NEW p \in Orders, RecoverNext(p) PROVE PlainFits(o)'
    <2>0. Recovery \in Procs
      BY DEF Procs
    <2>1. CASE p # o
      <3>1. \A v \in Procs : Works(v, o)' => task'[v] = task[v]
        BY <1>0, <1>5, <2>0, <2>1, BeginKeeps DEF RecoverNext, Works
      <3>2. Aside(o)
        BY <1>5, <3>1 DEF RecoverNext, Aside
      <3> QED BY <1>0, <3>2, AsideMild
    <2>2. CASE p = o
      <3>1. o \in stale /\ o \in named /\ order[o] # "PAID"
        BY <1>0, <1>5, <2>2 DEF RecoverNext, RowsFit
      <3>2. PICK pc \in {"lock", "finish"} :
               Begin(Recovery, "recovery", o, pc, "sold") /\ (pc = "finish" => o \in service)
        BY <1>0, <1>5, <2>2, <3>1 DEF RecoverNext, RowsFit, RecoverySite
      <3>3. /\ \A v \in Procs : v # Recovery => task'[v] = task[v]
            /\ task'[Recovery].pc = pc /\ task'[Recovery].order = o
            /\ task'[Recovery].flow = "recovery"
            /\ task'[Recovery].key = "sold" /\ task'[Recovery].site = "sold"
        BY <1>0, <2>0, <3>2, BeginKeeps
      <3>4. UNCHANGED <<rows, stale, panel, lock>> /\ batch' \subseteq batch
        BY <1>5 DEF RecoverNext
      <3>5. Gentle(Recovery, o)
        BY <3>3, <3>4 DEF Gentle
      <3>6. RowsFit(o)' /\ ReservationFits(o)' /\ RemoteFits(o)'
        BY <1>0, <3>4 DEF RowsFit, ReservationFits, RemoteFits
      <3>7. ~Decides(Recovery)'
        BY <3>3 DEF Decides, Committed
      <3>8. TaskFits(Recovery, o)'
        <4>1. RouteFits(Recovery, o)'
          BY <3>1, <3>2, <3>3, <3>4 DEF RouteFits, Committed
        <4>2. KnowsPanel(Recovery, o)'
          BY <3>3 DEF KnowsPanel
        <4> QED BY <3>7, <4>1, <4>2 DEF TaskFits
      <3> QED BY <1>0, <2>0, <3>5, <3>6, <3>7, <3>8, PlainKept
    <2> QED BY <2>1, <2>2
  <1>6. ASSUME NEW p \in Orders, GrowsStale(p) PROVE PlainFits(o)'
    <2>1. CASE p # o
      <3>1. Mild(o)
        BY <1>0, <1>6, <2>1 DEF GrowsStale, Mild, Works, RowsFit
      <3> QED BY <1>0, <3>1, MildKeeps
    <2>2. CASE p = o
      <3>1. /\ order[o] = "PROVISIONING" /\ o \in stale'
            /\ UNCHANGED <<rows, panel, lock, task, batch>>
            /\ \A s \in Sites : <<o, s>> \notin flying
            /\ \A v \in Procs : Works(v, o) =>
                  ~At(v, "send") /\ (task[v].locked => LockOf(v) = v)
        BY <1>0, <1>6, <2>2 DEF GrowsStale, Works
      <3>2. RowsFit(o)' /\ ReservationFits(o)' /\ RemoteFits(o)'
        <4>1. RowsFit(o)' /\ ReservationFits(o)'
          BY <1>0, <3>1 DEF RowsFit, ReservationFits
        <4>2. RemoteFits(o)'
          BY <1>0, <3>1 DEF RemoteFits
        <4> QED BY <4>1, <4>2
      <3>3. ASSUME NEW v \in Procs, Works(v, o) PROVE TaskFits(v, o)'
        <4>1. TaskFits(v, o) /\ task[v].order = o
          BY <3>3 DEF PlainFits, Works
        <4>2. RouteFits(v, o)'
          BY <3>1, <3>3, <4>1 DEF TaskFits, RouteFits
        <4>3. KnowsPanel(v, o)'
          BY <3>1, <3>3, <4>1 DEF TaskFits, KnowsPanel
        <4>4. Decides(v)' /\ o \notin Unnameable => DecisionFits(v, o)'
          BY <3>1, <3>3, <4>1 DEF TaskFits, Decides, DecisionFits
        <4> QED BY <4>2, <4>3, <4>4 DEF TaskFits
      <3>4. OneDecides(o)' /\ \A v \in Procs : Works(v, o)' <=> Works(v, o)
        BY <3>1 DEF PlainFits, OneDecides, Works, Decides
      <3> QED BY <3>2, <3>3, <3>4 DEF PlainFits
    <2> QED BY <2>1, <2>2
  <1>7. ASSUME NEW p \in Orders, ReassignPanel(p) PROVE PlainFits(o)'
    <2>1. Mild(o)
      BY <1>0, <1>7 DEF ReassignPanel, Mild, Works, RowsFit
    <2> QED BY <1>0, <2>1, MildKeeps
  <1>8. ASSUME NEW p \in Orders, RetryBind(p) PROVE PlainFits(o)'
    <2>1. CASE p # o
      <3>1. Mild(o)
        BY <1>0, <1>8, <2>1 DEF RetryBind, Mild, Works, RowsFit, RowsOK
      <3> QED BY <1>0, <3>1, MildKeeps
    <2>2. CASE p = o
      <3>1. order[o] = "PAID" /\ reservation'[o] = "BOUND"
        BY <1>0, <1>8, <2>2 DEF RetryBind, HeldInv, HeldUntouched, RowsOK
      <3>2. UNCHANGED <<order, named, service, refunds, drifted, task, External>>
        BY <1>8 DEF RetryBind
      <3>3. ReservationFits(o)'
        BY <1>0, <3>1, <3>2 DEF ReservationFits, RowsFit
      <3>4. RowsFit(o)' /\ RemoteFits(o)'
        BY <1>0, <3>2 DEF RowsFit, RemoteFits
      <3>5. ASSUME NEW v \in Procs, Works(v, o) PROVE TaskFits(v, o)'
        BY <3>2, <3>5
        DEF PlainFits, TaskFits, RouteFits, DecisionFits, KnowsPanel, Decides
      <3>6. OneDecides(o)' /\ \A v \in Procs : Works(v, o)' <=> Works(v, o)
        BY <3>2 DEF PlainFits, OneDecides, Works, Decides
      <3> QED BY <3>3, <3>4, <3>5, <3>6 DEF PlainFits
    <2> QED BY <2>1, <2>2
  <1>9. ASSUME NEW p \in Orders, NEW s \in Sites, CreateArrives(p, s) \/ CreateIsLost(p, s)
        PROVE  PlainFits(o)'
    <2>1. CASE p # o
      <3>1. Mild(o)
        BY <1>0, <1>9, <2>1 DEF CreateArrives, CreateIsLost, Mild, Works, RowsFit, RestOK
      <3> QED BY <1>0, <3>1, MildKeeps
    <2>2. CASE p = o
      <3>1. /\ <<o, s>> \in flying /\ flying' = flying \ {<<o, s>>}
            /\ \A t \in Sites : account'[o][t] # account[o][t] =>
                  t = s /\ account[o][t] = "none" /\ account'[o][t] = "own"
            /\ UNCHANGED <<rows, stale, created, lock, task, batch>>
        BY <1>0, <1>9, <2>2 DEF CreateArrives, CreateIsLost, RestOK
      <3>2. RowsFit(o)' /\ ReservationFits(o)'
        BY <1>0, <3>1 DEF RowsFit, ReservationFits
      <3>3. RemoteFits(o)'
        <4>1. s = "sold" /\ created[o] > 0 /\ \A t \in Sites : <<o, t>> \notin flying'
          BY <1>0, <3>1 DEF RemoteFits
        <4> QED BY <1>0, <3>1, <4>1 DEF RemoteFits
      <3>4. ASSUME NEW v \in Procs, Works(v, o) PROVE TaskFits(v, o)'
        <4>1. TaskFits(v, o) /\ task[v].order = o
          BY <3>4 DEF PlainFits, Works
        <4>2. RouteFits(v, o)'
          BY <3>1, <4>1 DEF TaskFits, RouteFits
        <4>3. KnowsPanel(v, o)'
          BY <3>1, <4>1 DEF TaskFits, KnowsPanel, Sites
        <4>4. Decides(v)' /\ o \notin Unnameable => DecisionFits(v, o)'
          BY <3>1, <4>1 DEF TaskFits, Decides, DecisionFits
        <4> QED BY <4>2, <4>3, <4>4 DEF TaskFits
      <3>5. OneDecides(o)' /\ \A v \in Procs : Works(v, o)' <=> Works(v, o)
        BY <3>1 DEF PlainFits, OneDecides, Works, Decides
      <3> QED BY <3>2, <3>3, <3>4, <3>5 DEF PlainFits
    <2> QED BY <2>1, <2>2
  <1>10. ASSUME NEW p \in Orders, NEW s \in Sites, LockExpires(p, s) PROVE PlainFits(o)'
    <2>1. \A v \in Procs, t \in Sites : lock[o][t] = v => lock'[o][t] = v
      BY <1>0, <1>10 DEF LockExpires, RestOK, ProvisioningAssumption
    <2>2. \A v \in Procs : task[v].key \in Sites
      BY <1>0 DEF TasksOK, TaskRecord
    <2>3. Mild(o)
      BY <1>0, <1>10, <2>1, <2>2 DEF LockExpires, Mild, Works, RowsFit
    <2> QED BY <1>0, <2>3, MildKeeps
  <1>11. CASE BotCrash
    <2>1. \A v \in Procs : ~Works(v, o)'
      BY <1>0, <1>11 DEF BotCrash, Works, IdleTask
    <2>2. Mild(o)
      BY <1>0, <1>11, <2>1 DEF BotCrash, Mild, RowsFit
    <2> QED BY <1>0, <2>2, MildKeeps
  <1>12. CASE UNCHANGED vars
    <2>1. Mild(o)
      BY <1>0, <1>12 DEF vars, Mild, Works, RowsFit
    <2> QED BY <1>0, <2>1, MildKeeps
  <1> QED
    BY <1>1, <1>2, <1>3, <1>4, <1>5, <1>6, <1>7, <1>8, <1>9, <1>10, <1>11, <1>12 DEF Next

LEMMA InitPlain == Init => PlainInv
  <1> SUFFICES ASSUME Init PROVE PlainInv
    OBVIOUS
  <1>1. CreateInv /\ HeldInv
    BY InitInvs
  <1>2. ASSUME NEW o \in Plain PROVE PlainFits(o)
    <2>1. \A w \in Procs : ~Works(w, o)
      BY DEF Init, IdleTask, Works
    <2>2. RowsFit(o) /\ ReservationFits(o) /\ RemoteFits(o)
      BY DEF Init, Plain, RowsFit, ReservationFits, RemoteFits
    <2> QED BY <2>1, <2>2 DEF PlainFits, OneDecides
  <1> QED BY <1>1, <1>2 DEF PlainInv

(* Whatever is paid back to the buyer or recorded for him, every step      *)
(* keeps the plain orders fitting.                                         *)
LEMMA PlainInvStep == PlainInv /\ [Next]_vars => PlainInv'
  <1> SUFFICES ASSUME PlainInv, [Next]_vars PROVE PlainInv'
    OBVIOUS
  <1>1. CreateInv' /\ HeldInv'
    BY CreateStep, HeldStep DEF PlainInv
  <1>2. ASSUME NEW o \in Plain PROVE PlainFits(o)'
    BY PlainStep DEF PlainInv
  <1> QED BY <1>1, <1>2 DEF PlainInv, Plain

(* A refund is decided by one process, while its order is in the pipeline. *)
LEMMA RefundsByRefund ==
    ASSUME TypeOK, [Next]_vars, NEW o \in Orders, refunds'[o] # refunds[o]
    PROVE  \E w \in Procs : Refund(w) /\ OrderOf(w) = o
  <1>0. TasksOK /\ RowsOK /\ RestOK
    BY TypeParts
  <1>1. PICK w \in Procs : Noisy(w)
    BY QuietOrNoisy DEF Quiet
  <1>2. Refund(w)
    BY <1>1 DEF Noisy, Finish, Claim, SendCreate, Persist, LadderCompletes, Adopt, SetOrder,
                MoveOrder, PersistService, AdoptPanelAccount, AdoptUnconditionally
  <1>3. OrderOf(w) = o
    BY <1>0, <1>1, NoisyRows
  <1> QED BY <1>2, <1>3

(* An account appears by the arrival of a request.                         *)
LEMMA AccountsArrive ==
    ASSUME TypeOK, [Next]_vars, NEW o \in Orders, NEW s \in Sites, account'[o][s] # account[o][s]
    PROVE  <<o, s>> \in flying /\ account[o][s] = "none" /\ refunds'[o] = refunds[o]
  <1>0. TasksOK /\ RowsOK /\ RestOK
    BY TypeParts
  <1>1. ASSUME NEW w \in Procs, Step(w) PROVE account' = account
    BY <1>1 DEF Step, EnsureNaming, AcquireLock, GiveUpLock, ReleaseLock, PipelineBody, ExecutorBody,
                RecoveryBody, Finish, Claim, SendCreate, CreateAnswered, Persist, PersistFails,
                LadderCompletes, LadderFails, Refund, Probe, Adopt, LockLapses, Heartbeat
  <1>2. PICK p \in Orders, t \in Sites : CreateArrives(p, t)
    BY <1>1 DEF Next, vars, ReadHead, FollowUp, StartRecovery, RecoverNext, GrowsStale, ReassignPanel,
                RetryBind, CreateIsLost, LockExpires, BotCrash
  <1> QED BY <1>0, <1>2 DEF CreateArrives, RestOK

(* What RefundProvesAbsence says of one order.                             *)
AbsenceProved(o) ==
    /\ refunds'[o] # refunds[o] =>
          \/ \A s \in Sites : account[o][s] # "own" /\ <<o, s>> \notin flying
          \/ \E w \in Procs : At(w, "orphan") /\ OrderOf(w) = o
    /\ \A s \in Sites : account'[o][s] # account[o][s] => refunds[o] = 0

LEMMA AbsenceStep ==
    ASSUME PlainInv, [Next]_vars, NEW o \in Plain
    PROVE  AbsenceProved(o)
  <1>0. TypeOK /\ o \in Orders /\ PlainFits(o) /\ RemoteFits(o) /\ RowsOK
    BY TypeParts DEF PlainInv, CreateInv, Plain, PlainFits
  <1>1. ASSUME refunds'[o] # refunds[o]
        PROVE  \/ \A s \in Sites : account[o][s] # "own" /\ <<o, s>> \notin flying
               \/ \E w \in Procs : At(w, "orphan") /\ OrderOf(w) = o
    <2>1. PICK w \in Procs : Refund(w) /\ OrderOf(w) = o
      BY <1>0, <1>1, RefundsByRefund
    <2>2. KnowsPanel(w, o)
      BY <1>0, <2>1, OwnFacts DEF Refund
    <2> QED BY <2>1, <2>2 DEF Refund, KnowsPanel
  <1>2. ASSUME NEW s \in Sites, account'[o][s] # account[o][s] PROVE refunds[o] = 0
    <2>1. <<o, s>> \in flying /\ account[o][s] = "none"
      BY <1>0, <1>2, AccountsArrive
    <2> QED BY <1>0, <2>1 DEF RemoteFits, RowsOK
  <1> QED BY <1>1, <1>2 DEF AbsenceProved

-----------------------------------------------------------------------------
(* The rows, the panel, the locks and the processes keep their shape,      *)
(* whatever the code interleaves.                                          *)
THEOREM ProvisioningTypeCorrect == Spec => []TypeOK
  <1>1. Init => TypeOK
    BY InitInvs DEF CreateInv
  <1> QED BY <1>1, TypeStep, PTL DEF Spec

(* However many handlers, sweeps, jobs and recoveries dispatch an order,   *)
(* and however often the bot crashes, one create request at most reaches   *)
(* the panel: the claim PAID -> PROVISIONING is never undone.              *)
THEOREM OneCreateRequest == Spec => []CreatedOnce
  <1>1. CreateInv => CreatedOnce
    BY DEF CreateInv
  <1> QED BY <1>1, InitInvs, CreateStep, PTL DEF Spec

(* No silent charge, with any number of orders and processes: a completed  *)
(* order has its Service row and a failed one exactly one refund.          *)
THEOREM ChargesAccounted == Spec => []OutcomeAccounted
  <1>1. OutcomeInv => OutcomeAccounted
    BY DEF OutcomeInv
  <1> QED BY <1>1, InitInvs, OutcomeStep, PTL DEF Spec

(* While an unbound username waits for the OWNER, the order stays PAID and *)
(* no panel request is made for it, however often it is dispatched.        *)
THEOREM HeldOrdersWait == Spec => []HeldUntouched
  <1>1. HeldInv => HeldUntouched
    BY DEF HeldInv
  <1> QED BY <1>1, InitInvs, HeldStep, PTL DEF Spec

(* Service or money, never both, for every order that the bot's pipeline   *)
(* dispatches alone and whose product stays on its panel, with any number  *)
(* of handlers, crashes and lapsed locks, beside orders of any other kind. *)
THEOREM ServiceOrMoney == Spec => [](\A o \in Plain : refunds[o] > 0 => o \notin service)
  <1>1. PlainInv => \A o \in Plain : refunds[o] > 0 => o \notin service
    BY DEF PlainInv, PlainFits, RowsFit
  <1> QED BY <1>1, InitPlain, PlainInvStep, PTL DEF Spec

(* Without Mini App orders and moved products every order is plain: nobody *)
(* has both the service and the money.                                     *)
THEOREM NeverBoth ==
    ASSUME MiniApp = {}, Drifting = {}
    PROVE  Spec => []NoServiceAndRefund
  <1>1. PlainInv => NoServiceAndRefund
    BY DEF PlainInv, PlainFits, RowsFit, Plain, NoServiceAndRefund
  <1> QED BY <1>1, InitPlain, PlainInvStep, PTL DEF Spec

(* Then the username of a service stays taken, and that of a refunded      *)
(* order is free again.                                                    *)
THEOREM UsernameFollows ==
    ASSUME MiniApp = {}, Drifting = {}
    PROVE  Spec => []ReservationFollows
  <1>1. PlainInv => ReservationFollows
    <2>1. ASSUME PlainInv, NEW o \in Reserved \ held
          PROVE  /\ o \in service  => reservation[o] = "CONSUMED"
                 /\ refunds[o] > 0 => reservation[o] = "RELEASED"
      <3>1. o \in Plain
        BY <2>1, ProvisioningAssumption DEF Plain, ProvisioningAssumption
      <3> QED BY <2>1, <3>1 DEF PlainInv, PlainFits, RowsFit, ReservationFits
    <2> QED BY <2>1 DEF ReservationFollows
  <1> QED BY <1>1, InitPlain, PlainInvStep, PTL DEF Spec

(* Then a refund is paid only in the knowledge that the panel has no       *)
(* account of the order and never will have one, or on the ladder's last   *)
(* rung.                                                                   *)
THEOREM RefundKnowsAbsence ==
    ASSUME MiniApp = {}, Drifting = {}
    PROVE  Spec => RefundProvesAbsence
  <1>1. PlainInv /\ [Next]_vars =>
           [\A o \in Orders :
              /\ refunds'[o] # refunds[o] =>
                    \/ \A s \in Sites : account[o][s] # "own" /\ <<o, s>> \notin flying
                    \/ \E w \in Procs : At(w, "orphan") /\ OrderOf(w) = o
              /\ \A s \in Sites : account'[o][s] # account[o][s] => refunds[o] = 0]_vars
    BY AbsenceStep DEF AbsenceProved, Plain
  <1> QED BY <1>1, InitPlain, PlainInvStep, PTL DEF Spec, RefundProvesAbsence
=============================================================================
