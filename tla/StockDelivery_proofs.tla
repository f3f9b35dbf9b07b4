------------------------ MODULE StockDelivery_proofs ------------------------
(***************************************************************************)
(* Theorems about StockDelivery, for every set of orders, any number of    *)
(* items, failures and crashes.                                            *)
(***************************************************************************)
EXTENDS StockDelivery, FiniteSetTheorems, TLAPS

USE DEF rows, buyer, At, OrderOf, ItemOf

(* TypeOK in three parts: rows, processes, the rest.                       *)
RowsOK ==
    /\ order \in [Orders -> {"PAID", "COMPLETED"}] /\ record \in [Orders -> RecordStatus]
    /\ item \in [Items -> [status : ItemStatus, order : Orders \cup {NoOrder}]]
    /\ \A i \in Items : item[i].status \in {"RESERVED", "DELIVERED"} <=> item[i].order # NoOrder
RestOK ==
    /\ claimed \subseteq Orders /\ batch \in [Procs -> SUBSET Orders]
    /\ torn \subseteq Items /\ sent \subseteq Items \X Orders /\ handed \subseteq Orders
    /\ freed \subseteq Items /\ failures \in Nat /\ crashes \in Nat

(* What a process works on, by where it is.                                *)
OnItem == {"claim", "mark", "send", "putBack", "finalize", "refinalize", "free"}
TaskType == [pc : Steps, order : Orders \cup {NoOrder}, item : Items \cup {NoItem},
             tries : 0 .. ClaimRetries, reads : 0 .. ReadAttempts]
TasksOK ==
    /\ task \in [Procs -> TaskType]
    /\ \A w \in Procs : /\ task[w].pc \notin {"idle", "free"} => task[w].order \in Orders
                        /\ task[w].pc \in OnItem => task[w].item \in Items
                        /\ task[w].tries < ClaimRetries /\ task[w].reads < ReadAttempts

TypeInv == RowsOK /\ RestOK /\ TasksOK

LEMMA TypeInvTypes == TypeInv => TypeOK
  BY DEF TypeInv, RowsOK, RestOK, TasksOK, TaskType, TypeOK

LEMMA CountersFit ==
    /\ 0 \in 0 .. ClaimRetries /\ 0 \in 0 .. ReadAttempts
    /\ 0 < ClaimRetries /\ 0 < ReadAttempts
  BY StockAssumption

(* The ways a process record changes keep its type.                        *)
LEMMA GotoTyped ==
    ASSUME TasksOK, NEW w \in Procs, NEW pc \in Steps, Goto(w, pc), task[w].order \in Orders,
           pc \in OnItem => task[w].item \in Items
    PROVE  TasksOK'
  BY DEF TasksOK, TaskType, Goto

LEMMA BeginTyped ==
    ASSUME TasksOK, NEW w \in Procs, NEW o \in Orders, NEW pc \in Steps \ OnItem, Begin(w, pc, o)
    PROVE  TasksOK'
  <1>1. [IdleTask EXCEPT !.pc = pc, !.order = o] \in TaskType
    BY CountersFit DEF TaskType, IdleTask
  <1> QED BY <1>1, CountersFit DEF TasksOK, Begin, IdleTask, OnItem

LEMMA LeaveTyped ==
    ASSUME TasksOK, NEW w \in Procs, Leave(w)
    PROVE  TasksOK'
  BY CountersFit DEF TasksOK, TaskType, Leave, IdleTask, OnItem, Steps

LEMMA HoldTyped ==
    ASSUME TasksOK, NEW w \in Procs, NEW i \in Items, NEW pc \in Steps, Hold(w, pc, i),
           pc = "free" \/ task[w].order \in Orders
    PROVE  TasksOK'
  <1>1. [task[w] EXCEPT !.pc = pc, !.item = i, !.tries = 0] \in TaskType
    BY CountersFit DEF TasksOK, TaskType
  <1> QED BY <1>1, CountersFit DEF TasksOK, TaskType, Hold

LEMMA SetRecordTyped ==
    ASSUME RowsOK, NEW o \in Orders, NEW from, NEW to \in RecordStatus, SetRecord(o, from, to)
    PROVE  /\ record' \in [Orders -> RecordStatus]
           /\ \A p \in Orders : record'[p] # record[p] => p = o /\ record'[p] = to
  BY DEF RowsOK, SetRecord

LEMMA FreeTyped ==
    ASSUME RowsOK, NEW i \in Items, NEW s \in {"AVAILABLE", "DISABLED"}, Free(i, s)
    PROVE  /\ item' \in [Items -> [status : ItemStatus, order : Orders \cup {NoOrder}]]
           /\ \A j \in Items : item'[j].status \in {"RESERVED", "DELIVERED"} <=> item'[j].order # NoOrder
           /\ \A j \in Items \ {i} : item'[j] = item[j]
           /\ item'[i].order = NoOrder
  BY DEF RowsOK, Free, ItemStatus

LEMMA InitTyped == Init => TypeInv
  BY StockAssumption DEF Init, TypeInv, RowsOK, RestOK, TasksOK, TaskType, IdleTask, RecordStatus,
     ItemStatus, Steps, OnItem, Items, NoItem

(* Every step keeps the types. *)
LEMMA TypeStep == TypeInv /\ [Next]_vars => TypeInv'
  <1> SUFFICES ASSUME TypeInv, [Next]_vars PROVE TypeInv'
    OBVIOUS
  <1>0. RowsOK /\ RestOK /\ TasksOK
    BY DEF TypeInv
  <1>1. ASSUME NEW w \in Procs, FindHeld(w) PROVE TypeInv'
    <2>1. RowsOK'
      BY <1>1, <1>0 DEF FindHeld, Held, RowsOK
    <2>2. RestOK'
      BY <1>1, <1>0 DEF FindHeld, Held, RestOK
    <2>3. TasksOK'
      BY <1>1, <1>0, GotoTyped, BeginTyped, LeaveTyped, HoldTyped DEF FindHeld, Go, RowsOK, Held, TasksOK, Steps, OnItem, TaskType
    <2> QED BY <2>1, <2>2, <2>3 DEF TypeInv
  <1>2. ASSUME NEW w \in Procs, FindCandidate(w) PROVE TypeInv'
    <2>1. RowsOK'
      BY <1>2, <1>0 DEF FindCandidate, Available, RowsOK
    <2>2. RestOK'
      BY <1>2, <1>0 DEF FindCandidate, Available, RestOK
    <2>3. TasksOK'
      BY <1>2, <1>0, GotoTyped, BeginTyped, LeaveTyped, HoldTyped DEF FindCandidate, Available, TasksOK, Steps, OnItem, TaskType
    <2> QED BY <2>1, <2>2, <2>3 DEF TypeInv
  <1>3. ASSUME NEW w \in Procs, ClaimItem(w) PROVE TypeInv'
    <2>1. RowsOK'
      <3>1. task[w].item \in Items /\ task[w].order \in Orders
        BY <1>3, <1>0 DEF ClaimItem, TasksOK, OnItem
      <3>2. CASE item' = item
        BY <3>2, <1>3, <1>0 DEF ClaimItem, RowsOK
      <3>3. CASE item' = [item EXCEPT ![ItemOf(w)] = [status |-> "RESERVED", order |-> OrderOf(w)]]
        BY <3>1, <3>3, <1>3, <1>0, StockAssumption DEF ClaimItem, RowsOK, ItemStatus
      <3> QED BY <3>2, <3>3, <1>3 DEF ClaimItem
    <2>2. RestOK'
      BY <1>3, <1>0 DEF ClaimItem, Held, Go, RestOK
    <2>3. TasksOK'
      <3>1. OrderOf(w) \in Orders /\ ItemOf(w) \in Items
        BY <1>3, <1>0 DEF ClaimItem, TasksOK, OnItem
      <3>2. CASE \E j \in Items, pc \in {"converge", "send", "mark"} : Hold(w, pc, j)
        BY <3>1, <3>2, <1>0, HoldTyped DEF Steps
      <3>3. CASE Begin(w, "dry", OrderOf(w))
        BY <3>1, <3>3, <1>0, BeginTyped DEF Steps, OnItem
      <3>4. CASE /\ task' = [task EXCEPT ![w].pc = "find", ![w].item = NoItem, ![w].tries = @ + 1]
                 /\ task[w].tries + 1 < ClaimRetries
        BY <3>1, <3>4, <1>0 DEF TasksOK, TaskType, Steps, OnItem
      <3> QED BY <1>3, <3>1, <3>2, <3>3, <3>4 DEF ClaimItem, Held, Go
    <2> QED BY <2>1, <2>2, <2>3 DEF TypeInv
  <1>4. ASSUME NEW w \in Procs, Mark(w) PROVE TypeInv'
    <2>1. RowsOK'
      BY <1>4, <1>0, FreeTyped, SetRecordTyped DEF TasksOK, TaskType, OnItem, Procs, Mark, RowsOK, RecordStatus
    <2>2. RestOK'
      BY <1>4, <1>0 DEF Mark, RestOK
    <2>3. TasksOK'
      BY <1>4, <1>0, GotoTyped, BeginTyped, LeaveTyped, HoldTyped DEF Mark, TasksOK, Steps, OnItem, TaskType
    <2> QED BY <2>1, <2>2, <2>3 DEF TypeInv
  <1>5. ASSUME NEW w \in Procs, RunDry(w) PROVE TypeInv'
    <2>1. RowsOK'
      BY <1>5, <1>0, FreeTyped, SetRecordTyped DEF TasksOK, TaskType, OnItem, Procs, RunDry, RowsOK, RecordStatus
    <2>2. RestOK'
      BY <1>5, <1>0 DEF RunDry, RestOK
    <2>3. TasksOK'
      BY <1>5, <1>0, GotoTyped, BeginTyped, LeaveTyped, HoldTyped DEF RunDry, TasksOK, Steps, OnItem, TaskType
    <2> QED BY <2>1, <2>2, <2>3 DEF TypeInv
  <1>6. ASSUME NEW w \in Procs, DiscardItem(w) PROVE TypeInv'
    <2>1. RowsOK'
      BY <1>6, <1>0, FreeTyped, SetRecordTyped DEF TasksOK, TaskType, OnItem, Procs, DiscardItem, Mine, RowsOK, RecordStatus
    <2>2. RestOK'
      BY <1>6, <1>0 DEF DiscardItem, Mine, RestOK
    <2>3. TasksOK'
      BY <1>6, <1>0, GotoTyped, BeginTyped, LeaveTyped, HoldTyped DEF DiscardItem, Mine, TasksOK, Steps, OnItem, TaskType
    <2> QED BY <2>1, <2>2, <2>3 DEF TypeInv
  <1>7. ASSUME NEW w \in Procs, SendContent(w) PROVE TypeInv'
    <2>1. RowsOK'
      BY <1>7, <1>0 DEF SendContent, RowsOK
    <2>2. RestOK'
      BY <1>7, <1>0 DEF TasksOK, TaskType, OnItem, Procs, SendContent, RestOK
    <2>3. TasksOK'
      BY <1>7, <1>0, GotoTyped, BeginTyped, LeaveTyped, HoldTyped DEF SendContent, TasksOK, Steps, OnItem, TaskType
    <2> QED BY <2>1, <2>2, <2>3 DEF TypeInv
  <1>8. ASSUME NEW w \in Procs, SendFails(w) PROVE TypeInv'
    <2>1. RowsOK'
      BY <1>8, <1>0 DEF SendFails, Fails, RowsOK
    <2>2. RestOK'
      BY <1>8, <1>0 DEF TasksOK, TaskType, OnItem, Procs, SendFails, Fails, RestOK
    <2>3. TasksOK'
      BY <1>8, <1>0, GotoTyped, BeginTyped, LeaveTyped, HoldTyped DEF SendFails, Fails, TasksOK, Steps, OnItem, TaskType
    <2> QED BY <2>1, <2>2, <2>3 DEF TypeInv
  <1>9. ASSUME NEW w \in Procs, PutBack(w) PROVE TypeInv'
    <2>1. RowsOK'
      BY <1>9, <1>0, FreeTyped, SetRecordTyped DEF TasksOK, TaskType, OnItem, Procs, PutBack, Mine, RowsOK, RecordStatus
    <2>2. RestOK'
      BY <1>9, <1>0 DEF TasksOK, TaskType, OnItem, Procs, PutBack, Mine, RestOK
    <2>3. TasksOK'
      BY <1>9, <1>0, GotoTyped, BeginTyped, LeaveTyped, HoldTyped DEF PutBack, Mine, TasksOK, Steps, OnItem, TaskType
    <2> QED BY <2>1, <2>2, <2>3 DEF TypeInv
  <1>10. ASSUME NEW w \in Procs, Unmark(w) PROVE TypeInv'
    <2>1. RowsOK'
      BY <1>10, <1>0, FreeTyped, SetRecordTyped DEF TasksOK, TaskType, OnItem, Procs, Unmark, RowsOK, RecordStatus
    <2>2. RestOK'
      BY <1>10, <1>0 DEF Unmark, RestOK
    <2>3. TasksOK'
      BY <1>10, <1>0, GotoTyped, BeginTyped, LeaveTyped, HoldTyped DEF Unmark, TasksOK, Steps, OnItem, TaskType
    <2> QED BY <2>1, <2>2, <2>3 DEF TypeInv
  <1>11. ASSUME NEW w \in Procs, Finalize(w) PROVE TypeInv'
    <2>1. RowsOK'
      BY <1>11, <1>0, SetRecordTyped DEF TasksOK, TaskType, OnItem, Procs, Finalize, Mine, Close, RowsOK, RecordStatus, ItemStatus
    <2>2. RestOK'
      BY <1>11, <1>0 DEF Finalize, Mine, Close, RestOK
    <2>3. TasksOK'
      BY <1>11, <1>0, GotoTyped, BeginTyped, LeaveTyped, HoldTyped DEF Finalize, Mine, Close, TasksOK, Steps, OnItem, TaskType
    <2> QED BY <2>1, <2>2, <2>3 DEF TypeInv
  <1>12. ASSUME NEW w \in Procs, FinalizeFails(w) PROVE TypeInv'
    <2>1. RowsOK'
      BY <1>12, <1>0 DEF FinalizeFails, Fails, RowsOK
    <2>2. RestOK'
      BY <1>12, <1>0 DEF FinalizeFails, Fails, RestOK
    <2>3. TasksOK'
      BY <1>12, <1>0, GotoTyped, BeginTyped, LeaveTyped, HoldTyped DEF FinalizeFails, Fails, TasksOK, Steps, OnItem, TaskType
    <2> QED BY <2>1, <2>2, <2>3 DEF TypeInv
  <1>13. ASSUME NEW w \in Procs, Converge(w) PROVE TypeInv'
    <2>1. RowsOK'
      BY <1>13, <1>0, SetRecordTyped DEF TasksOK, TaskType, OnItem, Procs, Converge, Close, RowsOK, RecordStatus
    <2>2. RestOK'
      BY <1>13, <1>0 DEF Converge, Close, RestOK
    <2>3. TasksOK'
      BY <1>13, <1>0, GotoTyped, BeginTyped, LeaveTyped, HoldTyped DEF Converge, Close, TasksOK, Steps, OnItem, TaskType
    <2> QED BY <2>1, <2>2, <2>3 DEF TypeInv
  <1>14. CASE HandOver
    <2>1. RowsOK'
      BY <1>14, <1>0, FreeTyped, SetRecordTyped DEF HandOver, Close, Fails, RowsOK, RecordStatus
    <2>2. RestOK'
      BY <1>14, <1>0 DEF TasksOK, TaskType, OnItem, Procs, HandOver, Close, Fails, RestOK
    <2>3. TasksOK'
      BY <1>14, <1>0, GotoTyped, BeginTyped, LeaveTyped, HoldTyped DEF HandOver, Close, Fails, TasksOK, Steps, OnItem, TaskType, Procs
    <2> QED BY <2>1, <2>2, <2>3 DEF TypeInv
  <1>15. CASE HandOverFails
    <2>1. RowsOK'
      BY <1>15, <1>0, FreeTyped, SetRecordTyped DEF HandOverFails, Close, Fails, RowsOK, RecordStatus
    <2>2. RestOK'
      BY <1>15, <1>0 DEF TasksOK, TaskType, OnItem, Procs, HandOverFails, Close, Fails, RestOK
    <2>3. TasksOK'
      BY <1>15, <1>0, GotoTyped, BeginTyped, LeaveTyped, HoldTyped DEF HandOverFails, Close, Fails, TasksOK, Steps, OnItem, TaskType, Procs
    <2> QED BY <2>1, <2>2, <2>3 DEF TypeInv
  <1>16. CASE HandBack
    <2>1. RowsOK'
      BY <1>16, <1>0, FreeTyped, SetRecordTyped DEF HandBack, Close, Fails, RowsOK, RecordStatus
    <2>2. RestOK'
      BY <1>16, <1>0 DEF HandBack, Close, Fails, RestOK
    <2>3. TasksOK'
      BY <1>16, <1>0, GotoTyped, BeginTyped, LeaveTyped, HoldTyped DEF HandBack, Close, Fails, TasksOK, Steps, OnItem, TaskType, Procs
    <2> QED BY <2>1, <2>2, <2>3 DEF TypeInv
  <1>17. CASE RecordHanded
    <2>1. RowsOK'
      BY <1>17, <1>0, FreeTyped, SetRecordTyped DEF TasksOK, TaskType, OnItem, Procs, RecordHanded, Close, Fails, RowsOK, RecordStatus
    <2>2. RestOK'
      BY <1>17, <1>0 DEF RecordHanded, Close, Fails, RestOK
    <2>3. TasksOK'
      BY <1>17, <1>0, GotoTyped, BeginTyped, LeaveTyped, HoldTyped DEF RecordHanded, Close, Fails, TasksOK, Steps, OnItem, TaskType, Procs
    <2> QED BY <2>1, <2>2, <2>3 DEF TypeInv
  <1>18. CASE CloseHanded
    <2>1. RowsOK'
      BY <1>18, <1>0, FreeTyped, SetRecordTyped DEF CloseHanded, Close, Fails, RowsOK, RecordStatus
    <2>2. RestOK'
      BY <1>18, <1>0 DEF CloseHanded, Close, Fails, RestOK
    <2>3. TasksOK'
      BY <1>18, <1>0, GotoTyped, BeginTyped, LeaveTyped, HoldTyped DEF CloseHanded, Close, Fails, TasksOK, Steps, OnItem, TaskType, Procs
    <2> QED BY <2>1, <2>2, <2>3 DEF TypeInv
  <1>19. CASE SweepSelect
    <2>1. RowsOK'
      BY <1>19, <1>0 DEF SweepSelect, RowsOK
    <2>2. RestOK'
      BY <1>19, <1>0 DEF SweepSelect, RestOK
    <2>3. TasksOK'
      BY <1>19, <1>0, GotoTyped, BeginTyped, LeaveTyped, HoldTyped DEF SweepSelect, TasksOK, Steps, OnItem, TaskType
    <2> QED BY <2>1, <2>2, <2>3 DEF TypeInv
  <1>20. CASE Retry
    <2>1. RowsOK'
      BY <1>20, <1>0 DEF Retry, RetryBatch, RowsOK
    <2>2. RestOK'
      BY <1>20, <1>0 DEF Retry, RetryBatch, RestOK
    <2>3. TasksOK'
      BY <1>20, <1>0, GotoTyped, BeginTyped, LeaveTyped, HoldTyped DEF Retry, RetryBatch, TasksOK, Steps, OnItem, TaskType
    <2> QED BY <2>1, <2>2, <2>3 DEF TypeInv
  <1>21. CASE FreeReserved
    <2>1. RowsOK'
      BY <1>21, <1>0, FreeTyped, SetRecordTyped DEF TasksOK, TaskType, OnItem, Procs, FreeReserved, RowsOK, RecordStatus
    <2>2. RestOK'
      BY <1>21, <1>0 DEF TasksOK, TaskType, OnItem, Procs, FreeReserved, RestOK, Procs
    <2>3. TasksOK'
      BY <1>21, <1>0, GotoTyped, BeginTyped, LeaveTyped, HoldTyped DEF FreeReserved, TasksOK, Steps, OnItem, TaskType, Procs
    <2> QED BY <2>1, <2>2, <2>3 DEF TypeInv
  <1>22. CASE BotCrash
    <2>1. RowsOK'
      BY <1>22, <1>0 DEF BotCrash, RowsOK
    <2>2. RestOK'
      BY <1>22, <1>0 DEF BotCrash, RestOK
    <2>3. TasksOK'
      BY <1>22, <1>0, CountersFit DEF BotCrash, TasksOK, TaskType, IdleTask, OnItem, Steps
    <2> QED BY <2>1, <2>2, <2>3 DEF TypeInv
  <1>23. ASSUME NEW o \in Orders, SweepNext(o) PROVE TypeInv'
    <2>1. RowsOK'
      BY <1>23, <1>0 DEF SweepNext, Enter, RowsOK, RecordStatus
    <2>2. RestOK'
      BY <1>23, <1>0 DEF SweepNext, Enter, RestOK
    <2>3. TasksOK'
      BY <1>23, <1>0, GotoTyped, BeginTyped, LeaveTyped, HoldTyped DEF SweepNext, Enter, TasksOK, Steps, OnItem, TaskType, Procs
    <2> QED BY <2>1, <2>2, <2>3 DEF TypeInv
  <1>24. ASSUME NEW o \in Orders, Press(o) PROVE TypeInv'
    <2>1. RowsOK'
      BY <1>24, <1>0 DEF Press, Enter, RowsOK, RecordStatus
    <2>2. RestOK'
      BY <1>24, <1>0 DEF Press, Enter, RestOK
    <2>3. TasksOK'
      BY <1>24, <1>0, GotoTyped, BeginTyped, LeaveTyped, HoldTyped DEF Press, Enter, TasksOK, Steps, OnItem, TaskType, Procs
    <2> QED BY <2>1, <2>2, <2>3 DEF TypeInv
  <1>25. ASSUME NEW o \in Orders, RetryNext(o) PROVE TypeInv'
    <2>1. RowsOK'
      BY <1>25, <1>0 DEF RetryNext, RowsOK
    <2>2. RestOK'
      BY <1>25, <1>0 DEF RetryNext, RestOK
    <2>3. TasksOK'
      BY <1>25, <1>0, GotoTyped, BeginTyped, LeaveTyped, HoldTyped DEF RetryNext, TasksOK, Steps, OnItem, TaskType, Procs
    <2> QED BY <2>1, <2>2, <2>3 DEF TypeInv
  <1>26. ASSUME NEW o \in Orders, SubmitUserInfo(o) PROVE TypeInv'
    <2>1. RowsOK'
      BY <1>26, <1>0 DEF SubmitUserInfo, RowsOK, RecordStatus
    <2>2. RestOK'
      BY <1>26, <1>0 DEF SubmitUserInfo, RestOK
    <2>3. TasksOK'
      BY <1>26, <1>0, GotoTyped, BeginTyped, LeaveTyped, HoldTyped DEF SubmitUserInfo, TasksOK, Steps, OnItem, TaskType
    <2> QED BY <2>1, <2>2, <2>3 DEF TypeInv
  <1>27. ASSUME NEW o \in Orders, ClaimDelivery(o) PROVE TypeInv'
    <2>1. RowsOK'
      BY <1>27, <1>0 DEF ClaimDelivery, RowsOK
    <2>2. RestOK'
      BY <1>27, <1>0 DEF ClaimDelivery, RestOK
    <2>3. TasksOK'
      BY <1>27, <1>0, GotoTyped, BeginTyped, LeaveTyped, HoldTyped DEF ClaimDelivery, TasksOK, Steps, OnItem, TaskType, Procs
    <2> QED BY <2>1, <2>2, <2>3 DEF TypeInv
  <1>28. ASSUME NEW i \in Items, AddItem(i) PROVE TypeInv'
    <2>1. RowsOK'
      BY <1>28, <1>0, FreeTyped, SetRecordTyped DEF AddItem, RetryBatch, Fails, RowsOK, RecordStatus
    <2>2. RestOK'
      <3>1. RetryBatch \subseteq Orders
        BY DEF RetryBatch
      <3>2. batch' \in [Procs -> SUBSET Orders]
        BY <3>1, <1>28, <1>0 DEF AddItem, RestOK
      <3> QED BY <3>2, <1>28, <1>0 DEF AddItem, Fails, RestOK
    <2>3. TasksOK'
      BY <1>28, <1>0, GotoTyped, BeginTyped, LeaveTyped, HoldTyped DEF AddItem, RetryBatch, Fails, TasksOK, Steps, OnItem, TaskType
    <2> QED BY <2>1, <2>2, <2>3 DEF TypeInv
  <1>29. ASSUME NEW i \in Items, DisableItem(i) PROVE TypeInv'
    <2>1. RowsOK'
      BY <1>29, <1>0, FreeTyped, SetRecordTyped DEF DisableItem, RowsOK, RecordStatus
    <2>2. RestOK'
      BY <1>29, <1>0 DEF DisableItem, RestOK
    <2>3. TasksOK'
      BY <1>29, <1>0, GotoTyped, BeginTyped, LeaveTyped, HoldTyped DEF DisableItem, TasksOK, Steps, OnItem, TaskType
    <2> QED BY <2>1, <2>2, <2>3 DEF TypeInv
  <1>30. ASSUME NEW i \in Items, CheckReserved(i) PROVE TypeInv'
    <2>1. RowsOK'
      BY <1>30, <1>0 DEF CheckReserved, RowsOK
    <2>2. RestOK'
      BY <1>30, <1>0 DEF CheckReserved, RestOK
    <2>3. TasksOK'
      BY <1>30, <1>0, GotoTyped, BeginTyped, LeaveTyped, HoldTyped DEF CheckReserved, TasksOK, Steps, OnItem, TaskType, Procs
    <2> QED BY <2>1, <2>2, <2>3 DEF TypeInv
  <1>31. CASE UNCHANGED vars
    BY <1>31 DEF vars, TypeInv, RowsOK, RestOK, TasksOK
  <1> QED
    BY <1>1, <1>2, <1>3, <1>4, <1>5, <1>6, <1>7, <1>8, <1>9, <1>10, <1>11, <1>12, <1>13, <1>14, <1>15, <1>16, <1>17, <1>18, <1>19, <1>20, <1>21, <1>22, <1>23, <1>24, <1>25, <1>26, <1>27, <1>28, <1>29, <1>30, <1>31
       DEF Next, SweepStep, Step, Deliver, Procs

LEMMA TypeAlways == Spec => []TypeInv
  BY InitTyped, TypeStep, PTL DEF Spec

-----------------------------------------------------------------------------
(* What was closed has reached its buyer.                                  *)

Reached(o) == o \in handed \/ \E i \in Items : <<i, o>> \in sent

ClosedReached == \A o \in Orders : order[o] = "COMPLETED" \/ record[o] = "DELIVERED" => Reached(o)
WrittenOffSent == \A i \in Items : item[i].status = "DELIVERED" => <<i, item[i].order>> \in sent
ClosingAt(w) ==
    /\ At(w, "finalize") \/ At(w, "refinalize") => <<ItemOf(w), OrderOf(w)>> \in sent
    /\ At(w, "handed") \/ At(w, "close") => OrderOf(w) \in handed
    /\ At(w, "converge") => Reached(OrderOf(w))
ClosingReached == \A w \in Procs : ClosingAt(w)

DeliveryInv == ClosedReached /\ WrittenOffSent /\ ClosingReached

(* An item that was never taken back is bound to the order it is sent for. *)
OneItemEach ==
    \A i, j \in Items : item[i].order = item[j].order /\ item[i].order # NoOrder => i = j
HeldAt(w) == At(w, "mark") \/ At(w, "send") =>
    ItemOf(w) \in freed \cup torn \/ item[ItemOf(w)].order = OrderOf(w)
HeldWhileSending == \A w \in Procs : HeldAt(w)
SentIsHeld ==
    \A i \in Items, o \in Orders : <<i, o>> \in sent /\ i \notin freed =>
        item[i].order = o /\ i \notin torn

ResumeInv == OneItemEach /\ HeldWhileSending /\ SentIsHeld

(* What the helpers leave in the task of w, and that they touch no other.  *)
Others(w) == \A v \in Procs \ {w} : task'[v] = task[v]

LEMMA GotoHas ==
    ASSUME TasksOK, NEW w \in Procs, NEW pc \in Steps, Goto(w, pc)
    PROVE  /\ Others(w) /\ task'[w].pc = pc
           /\ task'[w].order = task[w].order /\ task'[w].item = task[w].item
  BY DEF TasksOK, TaskType, Goto, Others

LEMMA BeginHas ==
    ASSUME TasksOK, NEW w \in Procs, NEW pc \in Steps, NEW o \in Orders, Begin(w, pc, o)
    PROVE  Others(w) /\ task'[w].pc = pc /\ task'[w].order = o
  BY DEF TasksOK, TaskType, Begin, IdleTask, Others

LEMMA LeaveHas ==
    ASSUME TasksOK, NEW w \in Procs, Leave(w)
    PROVE  Others(w) /\ task'[w].pc = "idle"
  BY DEF TasksOK, TaskType, Leave, IdleTask, Others

LEMMA HoldHas ==
    ASSUME TasksOK, NEW w \in Procs, NEW pc \in Steps, NEW i \in Items, Hold(w, pc, i)
    PROVE  /\ Others(w) /\ task'[w].pc = pc
           /\ task'[w].order = task[w].order /\ task'[w].item = i
  BY DEF TasksOK, TaskType, Hold, Others

(* Entering the delivery of an order reads what is recorded of it.         *)
LEMMA EnterHas ==
    ASSUME TasksOK, RowsOK, NEW w \in Procs, NEW o \in Orders, Enter(w, o)
    PROVE  /\ Others(w)
           /\ \/ task'[w].pc \in {"idle", "existing", "dry"}
              \/ /\ task'[w].pc = "converge" /\ task'[w].order = o
                 /\ record[o] = "DELIVERED" \/ order[o] = "COMPLETED"
           /\ \A q \in Orders : record'[q] = "DELIVERED" => record[q] = "DELIVERED"
  <1>1. Others(w) /\ \/ task'[w].pc \in {"idle", "existing", "dry"}
                     \/ /\ task'[w].pc = "converge" /\ task'[w].order = o
                        /\ record[o] = "DELIVERED" \/ order[o] = "COMPLETED"
    <2>1. CASE Begin(w, "existing", o) \/ Begin(w, "dry", o)
      BY <2>1, BeginHas DEF Steps
    <2>2. CASE Begin(w, "converge", o) /\ (record[o] = "DELIVERED" \/ order[o] = "COMPLETED")
      BY <2>2, BeginHas DEF Steps
    <2>3. CASE Leave(w)
      BY <2>3, LeaveHas
    <2> QED BY <2>1, <2>2, <2>3 DEF Enter
  <1>2. \A q \in Orders : record'[q] = "DELIVERED" => record[q] = "DELIVERED"
    BY DEF Enter, RowsOK
  <1> QED BY <1>1, <1>2

(* So only w is to be looked at.                                           *)
LEMMA ClosingLocal ==
    ASSUME ClosingReached, NEW w \in Procs, Others(w),
           sent \subseteq sent', handed \subseteq handed', ClosingAt(w)'
    PROVE  ClosingReached'
  BY DEF ClosingReached, ClosingAt, Reached, Others

LEMMA HeldLocal ==
    ASSUME HeldWhileSending, NEW w \in Procs, Others(w),
           UNCHANGED <<item, freed, torn>>, HeldAt(w)'
    PROVE  HeldWhileSending'
  BY DEF HeldWhileSending, HeldAt, Others

(* A delivery is recorded after it happened. *)
LEMMA DeliveryStep == TypeInv /\ DeliveryInv /\ [Next]_vars => DeliveryInv'
  <1> SUFFICES ASSUME TypeInv, DeliveryInv, [Next]_vars PROVE DeliveryInv'
    OBVIOUS
  <1>0. /\ RowsOK /\ RestOK /\ TasksOK
        /\ ClosedReached /\ WrittenOffSent /\ ClosingReached
    BY DEF TypeInv, DeliveryInv
  <1> USE StockAssumption DEF Procs
  <1>1. ASSUME NEW w \in Procs, FindHeld(w) PROVE DeliveryInv'
    <2>1. ClosedReached'
      BY <1>1, <1>0 DEF FindHeld, Held, Go, Hold, Goto, RowsOK, RestOK, TasksOK, OnItem, Reached, ClosingAt, HeldAt, ClosedReached, WrittenOffSent, ClosingReached
    <2>2. WrittenOffSent'
      BY <1>1, <1>0 DEF FindHeld, Held, Go, Hold, Goto, RowsOK, RestOK, TasksOK, OnItem, Reached, ClosingAt, HeldAt, ClosedReached, WrittenOffSent, ClosingReached
    <2>3. ClosingReached'
      <3>1. Others(w) /\ sent \subseteq sent' /\ handed \subseteq handed'
        BY <1>1, <1>0, GotoHas, BeginHas, LeaveHas, HoldHas DEF FindHeld, Held, Go, RowsOK, TasksOK, TaskType, OnItem, Steps
      <3>2. ClosingAt(w)'
        BY <1>1, <1>0, GotoHas, BeginHas, LeaveHas, HoldHas DEF FindHeld, Held, Go, RowsOK, TasksOK, TaskType, OnItem, Steps, ClosingReached, ClosingAt, ClosedReached, Reached, WrittenOffSent, ItemStatus
      <3> QED BY <3>1, <3>2, <1>0, ClosingLocal
    <2> QED BY <2>1, <2>2, <2>3 DEF DeliveryInv
  <1>2. ASSUME NEW w \in Procs, FindCandidate(w) PROVE DeliveryInv'
    <2>1. ClosedReached'
      BY <1>2, <1>0 DEF FindCandidate, Begin, IdleTask, RowsOK, RestOK, TasksOK, OnItem, Reached, ClosingAt, HeldAt, ClosedReached, WrittenOffSent, ClosingReached
    <2>2. WrittenOffSent'
      BY <1>2, <1>0 DEF FindCandidate, Begin, IdleTask, RowsOK, RestOK, TasksOK, OnItem, Reached, ClosingAt, HeldAt, ClosedReached, WrittenOffSent, ClosingReached
    <2>3. ClosingReached'
      <3>1. Others(w) /\ sent \subseteq sent' /\ handed \subseteq handed'
        BY <1>2, <1>0, GotoHas, BeginHas, LeaveHas, HoldHas DEF FindCandidate, Others, TasksOK, TaskType, OnItem, Steps
      <3>2. ClosingAt(w)'
        BY <1>2, <1>0, GotoHas, BeginHas, LeaveHas, HoldHas DEF FindCandidate, Others, TasksOK, TaskType, OnItem, Steps, ClosingReached, ClosingAt, ClosedReached, Reached
      <3> QED BY <3>1, <3>2, <1>0, ClosingLocal
    <2> QED BY <2>1, <2>2, <2>3 DEF DeliveryInv
  <1>3. ASSUME NEW w \in Procs, ClaimItem(w) PROVE DeliveryInv'
    <2> DEFINE i == ItemOf(w)  o == OrderOf(w)
    <2>1. i \in Items /\ o \in Orders /\ UNCHANGED <<order, record, sent, handed>>
      BY <1>3, <1>0 DEF ClaimItem, TasksOK, OnItem
    <2>2. ClosedReached'
      BY <2>1, <1>0 DEF ClosedReached, Reached
    <2>3. Others(w)
      BY <1>3, <1>0, BeginHas, HoldHas DEF ClaimItem, Held, Go, Others, TasksOK, TaskType, OnItem, Steps
    <2>4. CASE /\ item' = [item EXCEPT ![i] = [status |-> "RESERVED", order |-> o]]
               /\ Hold(w, Go(o), i)
      <3>1. WrittenOffSent'
        BY <2>1, <2>4, <1>0 DEF WrittenOffSent, RowsOK
      <3>2. ClosingAt(w)'
        BY <2>1, <2>4, <1>0, HoldHas DEF ClosingAt, Go, Steps
      <3> QED BY <2>1, <2>2, <2>3, <3>1, <3>2, <1>0, ClosingLocal DEF DeliveryInv
    <2>5. CASE item' = item
      <3>1. WrittenOffSent'
        BY <2>1, <2>5, <1>0 DEF WrittenOffSent
      <3>2. ASSUME NEW j \in Held(o), Hold(w, IF o \notin Generic /\ item[j].status = "DELIVERED"
                                              THEN "converge" ELSE Go(o), j)
            PROVE  ClosingAt(w)'
        <4>1. j \in Items /\ item[j].order = o
          BY <3>2 DEF Held
        <4>2. CASE item[j].status = "DELIVERED"
          BY <4>1, <4>2, <3>2, <2>1, <1>0, HoldHas DEF ClosingAt, Reached, WrittenOffSent, Go, Steps
        <4>3. CASE item[j].status # "DELIVERED"
          BY <4>1, <4>3, <3>2, <2>1, <1>0, HoldHas DEF ClosingAt, Go, Steps
        <4> QED BY <4>2, <4>3
      <3>3. ASSUME ~\E j \in Held(o) : Hold(w, IF o \notin Generic /\ item[j].status = "DELIVERED"
                                               THEN "converge" ELSE Go(o), j)
            PROVE  ClosingAt(w)'
        <4>1. task'[w].pc \in {"find", "dry"} \/ Hold(w, Go(o), i)
          BY <3>3, <1>3, <2>1, <1>0, BeginHas DEF ClaimItem, TasksOK, TaskType, OnItem, Steps
        <4> QED BY <4>1, <2>1, <1>0, HoldHas DEF ClosingAt, Go, Steps
      <3>4. ClosingAt(w)'
        BY <3>2, <3>3
      <3> QED BY <2>1, <2>2, <2>3, <3>1, <3>4, <1>0, ClosingLocal DEF DeliveryInv
    <2> QED BY <1>3, <2>4, <2>5 DEF ClaimItem
  <1>4. ASSUME NEW w \in Procs, Mark(w) PROVE DeliveryInv'
    <2>1. ClosedReached'
      BY <1>4, <1>0 DEF Mark, SetRecord, Goto, RowsOK, RestOK, TasksOK, OnItem, Reached, ClosingAt, HeldAt, ClosedReached, WrittenOffSent, ClosingReached
    <2>2. WrittenOffSent'
      BY <1>4, <1>0 DEF Mark, SetRecord, Goto, RowsOK, RestOK, TasksOK, OnItem, Reached, ClosingAt, HeldAt, ClosedReached, WrittenOffSent, ClosingReached
    <2>3. ClosingReached'
      <3>1. Others(w) /\ sent \subseteq sent' /\ handed \subseteq handed'
        BY <1>4, <1>0, GotoHas, BeginHas, LeaveHas, HoldHas DEF Mark, TasksOK, TaskType, OnItem, Steps
      <3>2. ClosingAt(w)'
        BY <1>4, <1>0, GotoHas, BeginHas, LeaveHas, HoldHas DEF Mark, TasksOK, TaskType, OnItem, Steps, ClosingReached, ClosingAt, ClosedReached, Reached
      <3> QED BY <3>1, <3>2, <1>0, ClosingLocal
    <2> QED BY <2>1, <2>2, <2>3 DEF DeliveryInv
  <1>5. ASSUME NEW w \in Procs, RunDry(w) PROVE DeliveryInv'
    <2>1. ClosedReached'
      BY <1>5, <1>0 DEF RunDry, SetRecord, Leave, IdleTask, RowsOK, RestOK, TasksOK, OnItem, Reached, ClosingAt, HeldAt, ClosedReached, WrittenOffSent, ClosingReached
    <2>2. WrittenOffSent'
      BY <1>5, <1>0 DEF RunDry, SetRecord, Leave, IdleTask, RowsOK, RestOK, TasksOK, OnItem, Reached, ClosingAt, HeldAt, ClosedReached, WrittenOffSent, ClosingReached
    <2>3. ClosingReached'
      <3>1. Others(w) /\ sent \subseteq sent' /\ handed \subseteq handed'
        BY <1>5, <1>0, GotoHas, BeginHas, LeaveHas, HoldHas DEF RunDry, TasksOK, TaskType, OnItem, Steps
      <3>2. ClosingAt(w)'
        BY <1>5, <1>0, GotoHas, BeginHas, LeaveHas, HoldHas DEF RunDry, TasksOK, TaskType, OnItem, Steps, ClosingReached, ClosingAt, ClosedReached, Reached
      <3> QED BY <3>1, <3>2, <1>0, ClosingLocal
    <2> QED BY <2>1, <2>2, <2>3 DEF DeliveryInv
  <1>6. ASSUME NEW w \in Procs, DiscardItem(w) PROVE DeliveryInv'
    <2>1. ClosedReached'
      BY <1>6, <1>0 DEF DiscardItem, Mine, Free, Begin, IdleTask, RowsOK, RestOK, TasksOK, OnItem, Reached, ClosingAt, HeldAt, ClosedReached, WrittenOffSent, ClosingReached
    <2>2. WrittenOffSent'
      BY <1>6, <1>0 DEF DiscardItem, Mine, Free, Begin, IdleTask, RowsOK, RestOK, TasksOK, OnItem, Reached, ClosingAt, HeldAt, ClosedReached, WrittenOffSent, ClosingReached
    <2>3. ClosingReached'
      <3>1. Begin(w, "dry", OrderOf(w)) => Others(w) /\ task'[w].pc = "dry"
        BY <1>6, <1>0, BeginHas DEF DiscardItem, TasksOK, Steps
      <3>2. task' = [task EXCEPT ![w].pc = "existing", ![w].item = NoItem, ![w].reads = @ + 1]
                => Others(w) /\ task'[w].pc = "existing"
        BY <1>0 DEF TasksOK, TaskType, Others
      <3>3. Others(w) /\ task'[w].pc \in {"dry", "existing"} /\ UNCHANGED <<sent, handed>>
        BY <3>1, <3>2, <1>6 DEF DiscardItem
      <3>4. ClosingAt(w)'
        BY <3>3 DEF ClosingAt
      <3> QED BY <3>3, <3>4, <1>0, ClosingLocal
    <2> QED BY <2>1, <2>2, <2>3 DEF DeliveryInv
  <1>7. ASSUME NEW w \in Procs, SendContent(w) PROVE DeliveryInv'
    <2>1. ClosedReached'
      BY <1>7, <1>0 DEF SendContent, Goto, RowsOK, RestOK, TasksOK, OnItem, Reached, ClosingAt, HeldAt, ClosedReached, WrittenOffSent, ClosingReached
    <2>2. WrittenOffSent'
      BY <1>7, <1>0 DEF SendContent, Goto, RowsOK, RestOK, TasksOK, OnItem, Reached, ClosingAt, HeldAt, ClosedReached, WrittenOffSent, ClosingReached
    <2>3. ClosingReached'
      <3>1. Others(w) /\ sent \subseteq sent' /\ handed \subseteq handed'
        BY <1>7, <1>0, GotoHas, BeginHas, LeaveHas, HoldHas DEF SendContent, TasksOK, TaskType, OnItem, Steps
      <3>2. ClosingAt(w)'
        BY <1>7, <1>0, GotoHas, BeginHas, LeaveHas, HoldHas DEF SendContent, TasksOK, TaskType, OnItem, Steps, ClosingReached, ClosingAt, ClosedReached, Reached
      <3> QED BY <3>1, <3>2, <1>0, ClosingLocal
    <2> QED BY <2>1, <2>2, <2>3 DEF DeliveryInv
  <1>8. ASSUME NEW w \in Procs, SendFails(w) PROVE DeliveryInv'
    <2>1. ClosedReached'
      BY <1>8, <1>0 DEF SendFails, Goto, RowsOK, RestOK, TasksOK, OnItem, Reached, ClosingAt, HeldAt, ClosedReached, WrittenOffSent, ClosingReached
    <2>2. WrittenOffSent'
      BY <1>8, <1>0 DEF SendFails, Goto, RowsOK, RestOK, TasksOK, OnItem, Reached, ClosingAt, HeldAt, ClosedReached, WrittenOffSent, ClosingReached
    <2>3. ClosingReached'
      <3>1. Others(w) /\ sent \subseteq sent' /\ handed \subseteq handed'
        BY <1>8, <1>0, GotoHas, BeginHas, LeaveHas, HoldHas DEF SendFails, TasksOK, TaskType, OnItem, Steps
      <3>2. ClosingAt(w)'
        BY <1>8, <1>0, GotoHas, BeginHas, LeaveHas, HoldHas DEF SendFails, TasksOK, TaskType, OnItem, Steps, ClosingReached, ClosingAt, ClosedReached, Reached
      <3> QED BY <3>1, <3>2, <1>0, ClosingLocal
    <2> QED BY <2>1, <2>2, <2>3 DEF DeliveryInv
  <1>9. ASSUME NEW w \in Procs, PutBack(w) PROVE DeliveryInv'
    <2>1. ClosedReached'
      BY <1>9, <1>0 DEF PutBack, Mine, Free, Begin, IdleTask, RowsOK, RestOK, TasksOK, OnItem, Reached, ClosingAt, HeldAt, ClosedReached, WrittenOffSent, ClosingReached
    <2>2. WrittenOffSent'
      BY <1>9, <1>0 DEF PutBack, Mine, Free, Begin, IdleTask, RowsOK, RestOK, TasksOK, OnItem, Reached, ClosingAt, HeldAt, ClosedReached, WrittenOffSent, ClosingReached
    <2>3. ClosingReached'
      <3>1. Others(w) /\ sent \subseteq sent' /\ handed \subseteq handed'
        BY <1>9, <1>0, GotoHas, BeginHas, LeaveHas, HoldHas DEF PutBack, TasksOK, TaskType, OnItem, Steps
      <3>2. ClosingAt(w)'
        BY <1>9, <1>0, GotoHas, BeginHas, LeaveHas, HoldHas DEF PutBack, TasksOK, TaskType, OnItem, Steps, ClosingReached, ClosingAt, ClosedReached, Reached
      <3> QED BY <3>1, <3>2, <1>0, ClosingLocal
    <2> QED BY <2>1, <2>2, <2>3 DEF DeliveryInv
  <1>10. ASSUME NEW w \in Procs, Unmark(w) PROVE DeliveryInv'
    <2>1. ClosedReached'
      BY <1>10, <1>0 DEF Unmark, SetRecord, Leave, IdleTask, RowsOK, RestOK, TasksOK, OnItem, Reached, ClosingAt, HeldAt, ClosedReached, WrittenOffSent, ClosingReached
    <2>2. WrittenOffSent'
      BY <1>10, <1>0 DEF Unmark, SetRecord, Leave, IdleTask, RowsOK, RestOK, TasksOK, OnItem, Reached, ClosingAt, HeldAt, ClosedReached, WrittenOffSent, ClosingReached
    <2>3. ClosingReached'
      <3>1. Others(w) /\ sent \subseteq sent' /\ handed \subseteq handed'
        BY <1>10, <1>0, GotoHas, BeginHas, LeaveHas, HoldHas DEF Unmark, TasksOK, TaskType, OnItem, Steps
      <3>2. ClosingAt(w)'
        BY <1>10, <1>0, GotoHas, BeginHas, LeaveHas, HoldHas DEF Unmark, TasksOK, TaskType, OnItem, Steps, ClosingReached, ClosingAt, ClosedReached, Reached
      <3> QED BY <3>1, <3>2, <1>0, ClosingLocal
    <2> QED BY <2>1, <2>2, <2>3 DEF DeliveryInv
  <1>11. ASSUME NEW w \in Procs, Finalize(w) PROVE DeliveryInv'
    <2>1. ClosedReached'
      BY <1>11, <1>0 DEF Finalize, Mine, Close, SetRecord, Leave, IdleTask, RowsOK, RestOK, TasksOK, OnItem, Reached, ClosingAt, HeldAt, ClosedReached, WrittenOffSent, ClosingReached
    <2>2. WrittenOffSent'
      <3>1. <<task[w].item, task[w].order>> \in sent /\ task[w].item \in Items
        BY <1>11, <1>0 DEF Finalize, ClosingReached, ClosingAt, TasksOK, OnItem
      <3>2. CASE Mine(w)
        BY <3>1, <3>2, <1>11, <1>0 DEF Finalize, Mine, RowsOK, WrittenOffSent
      <3>3. CASE ~Mine(w)
        BY <3>3, <1>11, <1>0 DEF Finalize, WrittenOffSent
      <3> QED BY <3>2, <3>3
    <2>3. ClosingReached'
      <3>1. Others(w) /\ sent \subseteq sent' /\ handed \subseteq handed'
        BY <1>11, <1>0, GotoHas, BeginHas, LeaveHas, HoldHas DEF Finalize, TasksOK, TaskType, OnItem, Steps
      <3>2. ClosingAt(w)'
        BY <1>11, <1>0, GotoHas, BeginHas, LeaveHas, HoldHas DEF Finalize, TasksOK, TaskType, OnItem, Steps, ClosingReached, ClosingAt, ClosedReached, Reached
      <3> QED BY <3>1, <3>2, <1>0, ClosingLocal
    <2> QED BY <2>1, <2>2, <2>3 DEF DeliveryInv
  <1>12. ASSUME NEW w \in Procs, FinalizeFails(w) PROVE DeliveryInv'
    <2>1. ClosedReached'
      BY <1>12, <1>0 DEF FinalizeFails, Goto, Leave, IdleTask, RowsOK, RestOK, TasksOK, OnItem, Reached, ClosingAt, HeldAt, ClosedReached, WrittenOffSent, ClosingReached
    <2>2. WrittenOffSent'
      BY <1>12, <1>0 DEF FinalizeFails, Goto, Leave, IdleTask, RowsOK, RestOK, TasksOK, OnItem, Reached, ClosingAt, HeldAt, ClosedReached, WrittenOffSent, ClosingReached
    <2>3. ClosingReached'
      <3>1. Others(w) /\ sent \subseteq sent' /\ handed \subseteq handed'
        BY <1>12, <1>0, GotoHas, BeginHas, LeaveHas, HoldHas DEF FinalizeFails, TasksOK, TaskType, OnItem, Steps
      <3>2. ClosingAt(w)'
        BY <1>12, <1>0, GotoHas, BeginHas, LeaveHas, HoldHas DEF FinalizeFails, TasksOK, TaskType, OnItem, Steps, ClosingReached, ClosingAt, ClosedReached, Reached
      <3> QED BY <3>1, <3>2, <1>0, ClosingLocal
    <2> QED BY <2>1, <2>2, <2>3 DEF DeliveryInv
  <1>13. ASSUME NEW w \in Procs, Converge(w) PROVE DeliveryInv'
    <2>1. ClosedReached'
      BY <1>13, <1>0 DEF Converge, Close, SetRecord, Leave, IdleTask, RowsOK, RestOK, TasksOK, OnItem, Reached, ClosingAt, HeldAt, ClosedReached, WrittenOffSent, ClosingReached
    <2>2. WrittenOffSent'
      BY <1>13, <1>0 DEF Converge, Close, SetRecord, Leave, IdleTask, RowsOK, RestOK, TasksOK, OnItem, Reached, ClosingAt, HeldAt, ClosedReached, WrittenOffSent, ClosingReached
    <2>3. ClosingReached'
      <3>1. Others(w) /\ sent \subseteq sent' /\ handed \subseteq handed'
        BY <1>13, <1>0, GotoHas, BeginHas, LeaveHas, HoldHas DEF Converge, TasksOK, TaskType, OnItem, Steps
      <3>2. ClosingAt(w)'
        BY <1>13, <1>0, GotoHas, BeginHas, LeaveHas, HoldHas DEF Converge, TasksOK, TaskType, OnItem, Steps, ClosingReached, ClosingAt, ClosedReached, Reached
      <3> QED BY <3>1, <3>2, <1>0, ClosingLocal
    <2> QED BY <2>1, <2>2, <2>3 DEF DeliveryInv
  <1>14. CASE HandOver
    <2>1. ClosedReached'
      BY <1>14, <1>0 DEF HandOver, Goto, RowsOK, RestOK, TasksOK, OnItem, Reached, ClosingAt, HeldAt, ClosedReached, WrittenOffSent, ClosingReached
    <2>2. WrittenOffSent'
      BY <1>14, <1>0 DEF HandOver, Goto, RowsOK, RestOK, TasksOK, OnItem, Reached, ClosingAt, HeldAt, ClosedReached, WrittenOffSent, ClosingReached
    <2>3. ClosingReached'
      <3>1. Others(Updates) /\ sent \subseteq sent' /\ handed \subseteq handed'
        BY <1>14, <1>0, GotoHas, BeginHas, LeaveHas, HoldHas DEF HandOver, TasksOK, TaskType, OnItem, Steps
      <3>2. ClosingAt(Updates)'
        BY <1>14, <1>0, GotoHas, BeginHas, LeaveHas, HoldHas DEF HandOver, TasksOK, TaskType, OnItem, Steps, ClosingReached, ClosingAt, ClosedReached, Reached
      <3> QED BY <3>1, <3>2, <1>0, ClosingLocal
    <2> QED BY <2>1, <2>2, <2>3 DEF DeliveryInv
  <1>15. CASE HandOverFails
    <2>1. ClosedReached'
      BY <1>15, <1>0 DEF HandOverFails, Goto, RowsOK, RestOK, TasksOK, OnItem, Reached, ClosingAt, HeldAt, ClosedReached, WrittenOffSent, ClosingReached
    <2>2. WrittenOffSent'
      BY <1>15, <1>0 DEF HandOverFails, Goto, RowsOK, RestOK, TasksOK, OnItem, Reached, ClosingAt, HeldAt, ClosedReached, WrittenOffSent, ClosingReached
    <2>3. ClosingReached'
      <3>1. Others(Updates) /\ sent \subseteq sent' /\ handed \subseteq handed'
        BY <1>15, <1>0, GotoHas, BeginHas, LeaveHas, HoldHas DEF HandOverFails, TasksOK, TaskType, OnItem, Steps
      <3>2. ClosingAt(Updates)'
        BY <1>15, <1>0, GotoHas, BeginHas, LeaveHas, HoldHas DEF HandOverFails, TasksOK, TaskType, OnItem, Steps, ClosingReached, ClosingAt, ClosedReached, Reached
      <3> QED BY <3>1, <3>2, <1>0, ClosingLocal
    <2> QED BY <2>1, <2>2, <2>3 DEF DeliveryInv
  <1>16. CASE HandBack
    <2>1. ClosedReached'
      BY <1>16, <1>0 DEF HandBack, Leave, IdleTask, RowsOK, RestOK, TasksOK, OnItem, Reached, ClosingAt, HeldAt, ClosedReached, WrittenOffSent, ClosingReached
    <2>2. WrittenOffSent'
      BY <1>16, <1>0 DEF HandBack, Leave, IdleTask, RowsOK, RestOK, TasksOK, OnItem, Reached, ClosingAt, HeldAt, ClosedReached, WrittenOffSent, ClosingReached
    <2>3. ClosingReached'
      <3>1. Others(Updates) /\ sent \subseteq sent' /\ handed \subseteq handed'
        BY <1>16, <1>0, GotoHas, BeginHas, LeaveHas, HoldHas DEF HandBack, TasksOK, TaskType, OnItem, Steps
      <3>2. ClosingAt(Updates)'
        BY <1>16, <1>0, GotoHas, BeginHas, LeaveHas, HoldHas DEF HandBack, TasksOK, TaskType, OnItem, Steps, ClosingReached, ClosingAt, ClosedReached, Reached
      <3> QED BY <3>1, <3>2, <1>0, ClosingLocal
    <2> QED BY <2>1, <2>2, <2>3 DEF DeliveryInv
  <1>17. CASE RecordHanded
    <2>1. ClosedReached'
      BY <1>17, <1>0 DEF RecordHanded, SetRecord, Goto, RowsOK, RestOK, TasksOK, OnItem, Reached, ClosingAt, HeldAt, ClosedReached, WrittenOffSent, ClosingReached
    <2>2. WrittenOffSent'
      BY <1>17, <1>0 DEF RecordHanded, SetRecord, Goto, RowsOK, RestOK, TasksOK, OnItem, Reached, ClosingAt, HeldAt, ClosedReached, WrittenOffSent, ClosingReached
    <2>3. ClosingReached'
      <3>1. Others(Updates) /\ sent \subseteq sent' /\ handed \subseteq handed'
        BY <1>17, <1>0, GotoHas, BeginHas, LeaveHas, HoldHas DEF RecordHanded, TasksOK, TaskType, OnItem, Steps
      <3>2. ClosingAt(Updates)'
        BY <1>17, <1>0, GotoHas, BeginHas, LeaveHas, HoldHas DEF RecordHanded, TasksOK, TaskType, OnItem, Steps, ClosingReached, ClosingAt, ClosedReached, Reached
      <3> QED BY <3>1, <3>2, <1>0, ClosingLocal
    <2> QED BY <2>1, <2>2, <2>3 DEF DeliveryInv
  <1>18. CASE CloseHanded
    <2>1. ClosedReached'
      BY <1>18, <1>0 DEF CloseHanded, Close, Leave, IdleTask, RowsOK, RestOK, TasksOK, OnItem, Reached, ClosingAt, HeldAt, ClosedReached, WrittenOffSent, ClosingReached
    <2>2. WrittenOffSent'
      BY <1>18, <1>0 DEF CloseHanded, Close, Leave, IdleTask, RowsOK, RestOK, TasksOK, OnItem, Reached, ClosingAt, HeldAt, ClosedReached, WrittenOffSent, ClosingReached
    <2>3. ClosingReached'
      <3>1. Others(Updates) /\ sent \subseteq sent' /\ handed \subseteq handed'
        BY <1>18, <1>0, GotoHas, BeginHas, LeaveHas, HoldHas DEF CloseHanded, TasksOK, TaskType, OnItem, Steps
      <3>2. ClosingAt(Updates)'
        BY <1>18, <1>0, GotoHas, BeginHas, LeaveHas, HoldHas DEF CloseHanded, TasksOK, TaskType, OnItem, Steps, ClosingReached, ClosingAt, ClosedReached, Reached
      <3> QED BY <3>1, <3>2, <1>0, ClosingLocal
    <2> QED BY <2>1, <2>2, <2>3 DEF DeliveryInv
  <1>19. CASE SweepSelect
    <2>1. ClosedReached'
      BY <1>19, <1>0 DEF SweepSelect, RowsOK, RestOK, TasksOK, OnItem, Reached, ClosingAt, HeldAt, ClosedReached, WrittenOffSent, ClosingReached
    <2>2. WrittenOffSent'
      BY <1>19, <1>0 DEF SweepSelect, RowsOK, RestOK, TasksOK, OnItem, Reached, ClosingAt, HeldAt, ClosedReached, WrittenOffSent, ClosingReached
    <2>3. ClosingReached'
      BY <1>19, <1>0 DEF SweepSelect, RowsOK, RestOK, TasksOK, OnItem, Reached, ClosingAt, HeldAt, ClosedReached, WrittenOffSent, ClosingReached
    <2> QED BY <2>1, <2>2, <2>3 DEF DeliveryInv
  <1>20. CASE Retry
    <2>1. ClosedReached'
      BY <1>20, <1>0 DEF Retry, RowsOK, RestOK, TasksOK, OnItem, Reached, ClosingAt, HeldAt, ClosedReached, WrittenOffSent, ClosingReached
    <2>2. WrittenOffSent'
      BY <1>20, <1>0 DEF Retry, RowsOK, RestOK, TasksOK, OnItem, Reached, ClosingAt, HeldAt, ClosedReached, WrittenOffSent, ClosingReached
    <2>3. ClosingReached'
      BY <1>20, <1>0 DEF Retry, RowsOK, RestOK, TasksOK, OnItem, Reached, ClosingAt, HeldAt, ClosedReached, WrittenOffSent, ClosingReached
    <2> QED BY <2>1, <2>2, <2>3 DEF DeliveryInv
  <1>21. CASE FreeReserved
    <2>1. ClosedReached'
      BY <1>21, <1>0 DEF FreeReserved, Free, Leave, IdleTask, RowsOK, RestOK, TasksOK, OnItem, Reached, ClosingAt, HeldAt, ClosedReached, WrittenOffSent, ClosingReached
    <2>2. WrittenOffSent'
      BY <1>21, <1>0 DEF FreeReserved, Free, Leave, IdleTask, RowsOK, RestOK, TasksOK, OnItem, Reached, ClosingAt, HeldAt, ClosedReached, WrittenOffSent, ClosingReached
    <2>3. ClosingReached'
      <3>1. Others(Updates) /\ sent \subseteq sent' /\ handed \subseteq handed'
        BY <1>21, <1>0, GotoHas, BeginHas, LeaveHas, HoldHas DEF FreeReserved, TasksOK, TaskType, OnItem, Steps
      <3>2. ClosingAt(Updates)'
        BY <1>21, <1>0, GotoHas, BeginHas, LeaveHas, HoldHas DEF FreeReserved, TasksOK, TaskType, OnItem, Steps, ClosingReached, ClosingAt, ClosedReached, Reached
      <3> QED BY <3>1, <3>2, <1>0, ClosingLocal
    <2> QED BY <2>1, <2>2, <2>3 DEF DeliveryInv
  <1>22. CASE BotCrash
    <2>1. ClosedReached'
      BY <1>22, <1>0 DEF BotCrash, IdleTask, RowsOK, RestOK, TasksOK, OnItem, Reached, ClosingAt, HeldAt, ClosedReached, WrittenOffSent, ClosingReached
    <2>2. WrittenOffSent'
      BY <1>22, <1>0 DEF BotCrash, IdleTask, RowsOK, RestOK, TasksOK, OnItem, Reached, ClosingAt, HeldAt, ClosedReached, WrittenOffSent, ClosingReached
    <2>3. ClosingReached'
      BY <1>22, <1>0 DEF BotCrash, IdleTask, RowsOK, RestOK, TasksOK, OnItem, Reached, ClosingAt, HeldAt, ClosedReached, WrittenOffSent, ClosingReached
    <2> QED BY <2>1, <2>2, <2>3 DEF DeliveryInv
  <1>23. ASSUME NEW o \in Orders, SweepNext(o) PROVE DeliveryInv'
    <2>1. ClosedReached'
      BY <1>23, <1>0, EnterHas DEF SweepNext, Reached, ClosedReached
    <2>2. WrittenOffSent'
      BY <1>23, <1>0 DEF SweepNext, WrittenOffSent
    <2>3. ClosingReached'
      <3>1. Others(Sweep) /\ sent \subseteq sent' /\ handed \subseteq handed'
        BY <1>23, <1>0, EnterHas DEF SweepNext
      <3>2. ClosingAt(Sweep)'
        BY <1>23, <1>0, EnterHas DEF SweepNext, ClosingAt, ClosedReached, Reached
      <3> QED BY <3>1, <3>2, <1>0, ClosingLocal
    <2> QED BY <2>1, <2>2, <2>3 DEF DeliveryInv
  <1>24. ASSUME NEW o \in Orders, Press(o) PROVE DeliveryInv'
    <2>1. ClosedReached'
      BY <1>24, <1>0, EnterHas DEF Press, Reached, ClosedReached
    <2>2. WrittenOffSent'
      BY <1>24, <1>0 DEF Press, WrittenOffSent
    <2>3. ClosingReached'
      <3>1. Others(Updates) /\ sent \subseteq sent' /\ handed \subseteq handed'
        BY <1>24, <1>0, EnterHas DEF Press
      <3>2. ClosingAt(Updates)'
        BY <1>24, <1>0, EnterHas DEF Press, ClosingAt, ClosedReached, Reached
      <3> QED BY <3>1, <3>2, <1>0, ClosingLocal
    <2> QED BY <2>1, <2>2, <2>3 DEF DeliveryInv
  <1>25. ASSUME NEW o \in Orders, RetryNext(o) PROVE DeliveryInv'
    <2>1. ClosedReached'
      BY <1>25, <1>0 DEF RetryNext, Begin, IdleTask, RowsOK, RestOK, TasksOK, OnItem, Reached, ClosingAt, HeldAt, ClosedReached, WrittenOffSent, ClosingReached
    <2>2. WrittenOffSent'
      BY <1>25, <1>0 DEF RetryNext, Begin, IdleTask, RowsOK, RestOK, TasksOK, OnItem, Reached, ClosingAt, HeldAt, ClosedReached, WrittenOffSent, ClosingReached
    <2>3. ClosingReached'
      <3>1. Others(Updates) /\ sent \subseteq sent' /\ handed \subseteq handed'
        BY <1>25, <1>0, GotoHas, BeginHas, LeaveHas, HoldHas DEF RetryNext, TasksOK, TaskType, OnItem, Steps
      <3>2. ClosingAt(Updates)'
        BY <1>25, <1>0, GotoHas, BeginHas, LeaveHas, HoldHas DEF RetryNext, TasksOK, TaskType, OnItem, Steps, ClosingReached, ClosingAt, ClosedReached, Reached
      <3> QED BY <3>1, <3>2, <1>0, ClosingLocal
    <2> QED BY <2>1, <2>2, <2>3 DEF DeliveryInv
  <1>26. ASSUME NEW o \in Orders, SubmitUserInfo(o) PROVE DeliveryInv'
    <2>1. ClosedReached'
      BY <1>26, <1>0 DEF SubmitUserInfo, RowsOK, RestOK, TasksOK, OnItem, Reached, ClosingAt, HeldAt, ClosedReached, WrittenOffSent, ClosingReached
    <2>2. WrittenOffSent'
      BY <1>26, <1>0 DEF SubmitUserInfo, RowsOK, RestOK, TasksOK, OnItem, Reached, ClosingAt, HeldAt, ClosedReached, WrittenOffSent, ClosingReached
    <2>3. ClosingReached'
      BY <1>26, <1>0 DEF SubmitUserInfo, RowsOK, RestOK, TasksOK, OnItem, Reached, ClosingAt, HeldAt, ClosedReached, WrittenOffSent, ClosingReached
    <2> QED BY <2>1, <2>2, <2>3 DEF DeliveryInv
  <1>27. ASSUME NEW o \in Orders, ClaimDelivery(o) PROVE DeliveryInv'
    <2>1. ClosedReached'
      BY <1>27, <1>0 DEF ClaimDelivery, Begin, IdleTask, RowsOK, RestOK, TasksOK, OnItem, Reached, ClosingAt, HeldAt, ClosedReached, WrittenOffSent, ClosingReached
    <2>2. WrittenOffSent'
      BY <1>27, <1>0 DEF ClaimDelivery, Begin, IdleTask, RowsOK, RestOK, TasksOK, OnItem, Reached, ClosingAt, HeldAt, ClosedReached, WrittenOffSent, ClosingReached
    <2>3. ClosingReached'
      <3>1. Others(Updates) /\ sent \subseteq sent' /\ handed \subseteq handed'
        BY <1>27, <1>0, GotoHas, BeginHas, LeaveHas, HoldHas DEF ClaimDelivery, TasksOK, TaskType, OnItem, Steps
      <3>2. ClosingAt(Updates)'
        BY <1>27, <1>0, GotoHas, BeginHas, LeaveHas, HoldHas DEF ClaimDelivery, TasksOK, TaskType, OnItem, Steps, ClosingReached, ClosingAt, ClosedReached, Reached
      <3> QED BY <3>1, <3>2, <1>0, ClosingLocal
    <2> QED BY <2>1, <2>2, <2>3 DEF DeliveryInv
  <1>28. ASSUME NEW i \in Items, AddItem(i) PROVE DeliveryInv'
    <2>1. ClosedReached'
      BY <1>28, <1>0 DEF AddItem, Free, RowsOK, RestOK, TasksOK, OnItem, Reached, ClosingAt, HeldAt, ClosedReached, WrittenOffSent, ClosingReached
    <2>2. WrittenOffSent'
      BY <1>28, <1>0 DEF AddItem, Free, RowsOK, RestOK, TasksOK, OnItem, Reached, ClosingAt, HeldAt, ClosedReached, WrittenOffSent, ClosingReached
    <2>3. ClosingReached'
      BY <1>28, <1>0 DEF AddItem, Free, RowsOK, RestOK, TasksOK, OnItem, Reached, ClosingAt, HeldAt, ClosedReached, WrittenOffSent, ClosingReached
    <2> QED BY <2>1, <2>2, <2>3 DEF DeliveryInv
  <1>29. ASSUME NEW i \in Items, DisableItem(i) PROVE DeliveryInv'
    <2>1. ClosedReached'
      BY <1>29, <1>0 DEF DisableItem, Free, RowsOK, RestOK, TasksOK, OnItem, Reached, ClosingAt, HeldAt, ClosedReached, WrittenOffSent, ClosingReached
    <2>2. WrittenOffSent'
      BY <1>29, <1>0 DEF DisableItem, Free, RowsOK, RestOK, TasksOK, OnItem, Reached, ClosingAt, HeldAt, ClosedReached, WrittenOffSent, ClosingReached
    <2>3. ClosingReached'
      BY <1>29, <1>0 DEF DisableItem, Free, RowsOK, RestOK, TasksOK, OnItem, Reached, ClosingAt, HeldAt, ClosedReached, WrittenOffSent, ClosingReached
    <2> QED BY <2>1, <2>2, <2>3 DEF DeliveryInv
  <1>30. ASSUME NEW i \in Items, CheckReserved(i) PROVE DeliveryInv'
    <2>1. ClosedReached'
      BY <1>30, <1>0 DEF CheckReserved, Hold, RowsOK, RestOK, TasksOK, OnItem, Reached, ClosingAt, HeldAt, ClosedReached, WrittenOffSent, ClosingReached
    <2>2. WrittenOffSent'
      BY <1>30, <1>0 DEF CheckReserved, Hold, RowsOK, RestOK, TasksOK, OnItem, Reached, ClosingAt, HeldAt, ClosedReached, WrittenOffSent, ClosingReached
    <2>3. ClosingReached'
      <3>1. Others(Updates) /\ sent \subseteq sent' /\ handed \subseteq handed'
        BY <1>30, <1>0, GotoHas, BeginHas, LeaveHas, HoldHas DEF CheckReserved, TasksOK, TaskType, OnItem, Steps
      <3>2. ClosingAt(Updates)'
        BY <1>30, <1>0, GotoHas, BeginHas, LeaveHas, HoldHas DEF CheckReserved, TasksOK, TaskType, OnItem, Steps, ClosingReached, ClosingAt, ClosedReached, Reached
      <3> QED BY <3>1, <3>2, <1>0, ClosingLocal
    <2> QED BY <2>1, <2>2, <2>3 DEF DeliveryInv
  <1>31. CASE UNCHANGED vars
    BY <1>31, <1>0 DEF vars, DeliveryInv, Reached, ClosingAt, ClosedReached, WrittenOffSent, ClosingReached
  <1> QED
    BY <1>1, <1>2, <1>3, <1>4, <1>5, <1>6, <1>7, <1>8, <1>9, <1>10, <1>11, <1>12, <1>13, <1>14, <1>15, <1>16, <1>17, <1>18, <1>19, <1>20, <1>21, <1>22, <1>23, <1>24, <1>25, <1>26, <1>27, <1>28, <1>29, <1>30, <1>31
       DEF Next, SweepStep, Step, Deliver

(* A reservation is given up only by taking the item back. *)
LEMMA ResumeStep == TypeInv /\ ResumeInv /\ [Next]_vars => ResumeInv'
  <1> SUFFICES ASSUME TypeInv, ResumeInv, [Next]_vars PROVE ResumeInv'
    OBVIOUS
  <1>0. /\ RowsOK /\ RestOK /\ TasksOK
        /\ OneItemEach /\ HeldWhileSending /\ SentIsHeld
    BY DEF TypeInv, ResumeInv
  <1> USE StockAssumption DEF Procs
  <1>1. ASSUME NEW w \in Procs, FindHeld(w) PROVE ResumeInv'
    <2>1. OneItemEach'
      BY <1>1, <1>0 DEF FindHeld, Held, Go, Hold, Goto, RowsOK, RestOK, TasksOK, OnItem, Reached, ClosingAt, HeldAt, OneItemEach, HeldWhileSending, SentIsHeld
    <2>2. HeldWhileSending'
      <3>1. Others(w) /\ UNCHANGED <<item, freed, torn>>
        BY <1>1, <1>0, GotoHas, BeginHas, LeaveHas, HoldHas DEF FindHeld, Held, Go, TasksOK, TaskType, OnItem, Steps
      <3>2. HeldAt(w)'
        BY <1>1, <1>0, <3>1, GotoHas, BeginHas, LeaveHas, HoldHas DEF FindHeld, Held, Go, TasksOK, TaskType, OnItem, Steps, HeldWhileSending, HeldAt
      <3> QED BY <3>1, <3>2, <1>0, HeldLocal
    <2>3. SentIsHeld'
      BY <1>1, <1>0 DEF FindHeld, Held, Go, Hold, Goto, RowsOK, RestOK, TasksOK, OnItem, Reached, ClosingAt, HeldAt, OneItemEach, HeldWhileSending, SentIsHeld
    <2> QED BY <2>1, <2>2, <2>3 DEF ResumeInv
  <1>2. ASSUME NEW w \in Procs, FindCandidate(w) PROVE ResumeInv'
    <2>1. OneItemEach'
      BY <1>2, <1>0 DEF FindCandidate, Begin, IdleTask, RowsOK, RestOK, TasksOK, OnItem, Reached, ClosingAt, HeldAt, OneItemEach, HeldWhileSending, SentIsHeld
    <2>2. HeldWhileSending'
      <3>1. Others(w) /\ UNCHANGED <<item, freed, torn>>
        BY <1>2, <1>0, GotoHas, BeginHas, LeaveHas, HoldHas DEF FindCandidate, Others, TasksOK, TaskType, OnItem, Steps
      <3>2. HeldAt(w)'
        BY <1>2, <1>0, <3>1, GotoHas, BeginHas, LeaveHas, HoldHas DEF FindCandidate, Others, TasksOK, TaskType, OnItem, Steps, HeldWhileSending, HeldAt
      <3> QED BY <3>1, <3>2, <1>0, HeldLocal
    <2>3. SentIsHeld'
      BY <1>2, <1>0 DEF FindCandidate, Begin, IdleTask, RowsOK, RestOK, TasksOK, OnItem, Reached, ClosingAt, HeldAt, OneItemEach, HeldWhileSending, SentIsHeld
    <2> QED BY <2>1, <2>2, <2>3 DEF ResumeInv
  <1>3. ASSUME NEW w \in Procs, ClaimItem(w) PROVE ResumeInv'
    <2> DEFINE i == ItemOf(w)  o == OrderOf(w)
    <2>1. i \in Items /\ o \in Orders /\ UNCHANGED <<freed, torn, sent>>
      BY <1>3, <1>0 DEF ClaimItem, TasksOK, OnItem
    <2>2. Others(w)
      BY <1>3, <1>0, BeginHas, HoldHas DEF ClaimItem, Held, Go, Others, TasksOK, TaskType, OnItem, Steps
    <2>3. CASE /\ item[i].status = "AVAILABLE" /\ Held(o) = {}
               /\ item' = [item EXCEPT ![i] = [status |-> "RESERVED", order |-> o]]
               /\ Hold(w, Go(o), i)
      <3>1. /\ item'[i].order = o /\ item[i].order = NoOrder
            /\ \A j \in Items \ {i} : item'[j] = item[j] /\ item[j].order # o
        BY <2>1, <2>3, <1>0 DEF RowsOK, Held
      <3>2. OneItemEach'
        BY <2>1, <3>1, <1>0 DEF OneItemEach
      <3>3. SentIsHeld'
        BY <2>1, <3>1, <1>0 DEF SentIsHeld
      <3>4. task'[w].item = i /\ task'[w].order = o
        BY <2>3, <1>0 DEF Hold, TasksOK, TaskType
      <3>5. \A v \in Procs : At(v, "mark") \/ At(v, "send") =>
                task[v].item \in Items /\ task[v].order \in Orders
        BY <1>0 DEF TasksOK, OnItem
      <3>6. HeldWhileSending'
        BY <2>1, <2>2, <3>1, <3>4, <3>5, <1>0 DEF HeldWhileSending, HeldAt, Others
      <3> QED BY <3>2, <3>3, <3>6 DEF ResumeInv
    <2>4. CASE item' = item
      <3>1. OneItemEach' /\ SentIsHeld'
        BY <2>1, <2>4, <1>0 DEF OneItemEach, SentIsHeld
      <3>2. HeldAt(w)'
        <4>1. CASE \E j \in Held(o), pc \in {"converge", "send", "mark"} : Hold(w, pc, j)
          BY <2>1, <2>4, <4>1, <1>0, HoldHas DEF Held, Steps, HeldAt
        <4>2. CASE Begin(w, "dry", o)
          BY <2>1, <4>2, <1>0, BeginHas DEF Steps, HeldAt
        <4>3. CASE task' = [task EXCEPT ![w].pc = "find", ![w].item = NoItem, ![w].tries = @ + 1]
          BY <4>3, <1>0 DEF TasksOK, TaskType, HeldAt
        <4>4. ~(Held(o) = {} /\ item' = [item EXCEPT ![i] = [status |-> "RESERVED", order |-> o]])
          BY <2>1, <2>4, <1>0 DEF RowsOK, Held
        <4> QED BY <1>3, <4>1, <4>2, <4>3, <4>4 DEF ClaimItem, Go
      <3>3. HeldWhileSending'
        BY <2>1, <2>2, <2>4, <3>2, <1>0, HeldLocal
      <3> QED BY <3>1, <3>3 DEF ResumeInv
    <2> QED BY <1>3, <2>3, <2>4 DEF ClaimItem
  <1>4. ASSUME NEW w \in Procs, Mark(w) PROVE ResumeInv'
    <2>1. OneItemEach'
      BY <1>4, <1>0 DEF Mark, SetRecord, Goto, RowsOK, RestOK, TasksOK, OnItem, Reached, ClosingAt, HeldAt, OneItemEach, HeldWhileSending, SentIsHeld
    <2>2. HeldWhileSending'
      BY <1>4, <1>0 DEF Mark, SetRecord, Goto, RowsOK, RestOK, TasksOK, OnItem, Reached, ClosingAt, HeldAt, OneItemEach, HeldWhileSending, SentIsHeld
    <2>3. SentIsHeld'
      BY <1>4, <1>0 DEF Mark, SetRecord, Goto, RowsOK, RestOK, TasksOK, OnItem, Reached, ClosingAt, HeldAt, OneItemEach, HeldWhileSending, SentIsHeld
    <2> QED BY <2>1, <2>2, <2>3 DEF ResumeInv
  <1>5. ASSUME NEW w \in Procs, RunDry(w) PROVE ResumeInv'
    <2>1. OneItemEach'
      BY <1>5, <1>0 DEF RunDry, SetRecord, Leave, IdleTask, RowsOK, RestOK, TasksOK, OnItem, Reached, ClosingAt, HeldAt, OneItemEach, HeldWhileSending, SentIsHeld
    <2>2. HeldWhileSending'
      BY <1>5, <1>0 DEF RunDry, SetRecord, Leave, IdleTask, RowsOK, RestOK, TasksOK, OnItem, Reached, ClosingAt, HeldAt, OneItemEach, HeldWhileSending, SentIsHeld
    <2>3. SentIsHeld'
      BY <1>5, <1>0 DEF RunDry, SetRecord, Leave, IdleTask, RowsOK, RestOK, TasksOK, OnItem, Reached, ClosingAt, HeldAt, OneItemEach, HeldWhileSending, SentIsHeld
    <2> QED BY <2>1, <2>2, <2>3 DEF ResumeInv
  <1>6. ASSUME NEW w \in Procs, DiscardItem(w) PROVE ResumeInv'
    <2>1. OneItemEach'
      BY <1>6, <1>0 DEF DiscardItem, Mine, Free, Begin, IdleTask, RowsOK, RestOK, TasksOK, OnItem, Reached, ClosingAt, HeldAt, OneItemEach, HeldWhileSending, SentIsHeld
    <2>2. HeldWhileSending'
      <3>1. Others(w)
        BY <1>6, <1>0, BeginHas DEF DiscardItem, Others, TasksOK, TaskType, OnItem, Steps
      <3>2. task'[w].pc \notin {"mark", "send"}
        BY <1>6, <1>0, BeginHas DEF DiscardItem, TasksOK, TaskType, OnItem, Steps
      <3>3. \A i \in Items : item'[i] = item[i] \/ i \in torn
        BY <1>6, <1>0 DEF DiscardItem, Free, RowsOK
      <3>4. UNCHANGED <<freed, torn>>
        BY <1>6 DEF DiscardItem
      <3>5. \A v \in Procs : At(v, "mark") \/ At(v, "send") => task[v].item \in Items
        BY <1>0 DEF TasksOK, OnItem
      <3> QED BY <3>1, <3>2, <3>3, <3>4, <3>5, <1>0 DEF HeldWhileSending, HeldAt, Others
    <2>3. SentIsHeld'
      BY <1>6, <1>0 DEF DiscardItem, Mine, Free, Begin, IdleTask, RowsOK, RestOK, TasksOK, OnItem, Reached, ClosingAt, HeldAt, OneItemEach, HeldWhileSending, SentIsHeld
    <2> QED BY <2>1, <2>2, <2>3 DEF ResumeInv
  <1>7. ASSUME NEW w \in Procs, SendContent(w) PROVE ResumeInv'
    <2>1. OneItemEach'
      BY <1>7, <1>0 DEF SendContent, Goto, RowsOK, RestOK, TasksOK, OnItem, Reached, ClosingAt, HeldAt, OneItemEach, HeldWhileSending, SentIsHeld
    <2>2. HeldWhileSending'
      BY <1>7, <1>0 DEF SendContent, Goto, RowsOK, RestOK, TasksOK, OnItem, Reached, ClosingAt, HeldAt, OneItemEach, HeldWhileSending, SentIsHeld
    <2>3. SentIsHeld'
      BY <1>7, <1>0 DEF SendContent, Goto, RowsOK, RestOK, TasksOK, OnItem, Reached, ClosingAt, HeldAt, OneItemEach, HeldWhileSending, SentIsHeld
    <2> QED BY <2>1, <2>2, <2>3 DEF ResumeInv
  <1>8. ASSUME NEW w \in Procs, SendFails(w) PROVE ResumeInv'
    <2>1. OneItemEach'
      BY <1>8, <1>0 DEF SendFails, Goto, RowsOK, RestOK, TasksOK, OnItem, Reached, ClosingAt, HeldAt, OneItemEach, HeldWhileSending, SentIsHeld
    <2>2. HeldWhileSending'
      BY <1>8, <1>0 DEF SendFails, Goto, RowsOK, RestOK, TasksOK, OnItem, Reached, ClosingAt, HeldAt, OneItemEach, HeldWhileSending, SentIsHeld
    <2>3. SentIsHeld'
      BY <1>8, <1>0 DEF SendFails, Goto, RowsOK, RestOK, TasksOK, OnItem, Reached, ClosingAt, HeldAt, OneItemEach, HeldWhileSending, SentIsHeld
    <2> QED BY <2>1, <2>2, <2>3 DEF ResumeInv
  <1>9. ASSUME NEW w \in Procs, PutBack(w) PROVE ResumeInv'
    <2>1. OneItemEach'
      BY <1>9, <1>0 DEF PutBack, Mine, Free, Begin, IdleTask, RowsOK, RestOK, TasksOK, OnItem, Reached, ClosingAt, HeldAt, OneItemEach, HeldWhileSending, SentIsHeld
    <2>2. HeldWhileSending'
      BY <1>9, <1>0 DEF PutBack, Mine, Free, Begin, IdleTask, RowsOK, RestOK, TasksOK, OnItem, Reached, ClosingAt, HeldAt, OneItemEach, HeldWhileSending, SentIsHeld
    <2>3. SentIsHeld'
      BY <1>9, <1>0 DEF PutBack, Mine, Free, Begin, IdleTask, RowsOK, RestOK, TasksOK, OnItem, Reached, ClosingAt, HeldAt, OneItemEach, HeldWhileSending, SentIsHeld
    <2> QED BY <2>1, <2>2, <2>3 DEF ResumeInv
  <1>10. ASSUME NEW w \in Procs, Unmark(w) PROVE ResumeInv'
    <2>1. OneItemEach'
      BY <1>10, <1>0 DEF Unmark, SetRecord, Leave, IdleTask, RowsOK, RestOK, TasksOK, OnItem, Reached, ClosingAt, HeldAt, OneItemEach, HeldWhileSending, SentIsHeld
    <2>2. HeldWhileSending'
      BY <1>10, <1>0 DEF Unmark, SetRecord, Leave, IdleTask, RowsOK, RestOK, TasksOK, OnItem, Reached, ClosingAt, HeldAt, OneItemEach, HeldWhileSending, SentIsHeld
    <2>3. SentIsHeld'
      BY <1>10, <1>0 DEF Unmark, SetRecord, Leave, IdleTask, RowsOK, RestOK, TasksOK, OnItem, Reached, ClosingAt, HeldAt, OneItemEach, HeldWhileSending, SentIsHeld
    <2> QED BY <2>1, <2>2, <2>3 DEF ResumeInv
  <1>11. ASSUME NEW w \in Procs, Finalize(w) PROVE ResumeInv'
    <2>1. OneItemEach'
      BY <1>11, <1>0 DEF Finalize, Mine, Close, SetRecord, Leave, IdleTask, RowsOK, RestOK, TasksOK, OnItem, Reached, ClosingAt, HeldAt, OneItemEach, HeldWhileSending, SentIsHeld
    <2>2. HeldWhileSending'
      BY <1>11, <1>0 DEF Finalize, Mine, Close, SetRecord, Leave, IdleTask, RowsOK, RestOK, TasksOK, OnItem, Reached, ClosingAt, HeldAt, OneItemEach, HeldWhileSending, SentIsHeld
    <2>3. SentIsHeld'
      BY <1>11, <1>0 DEF Finalize, Mine, Close, SetRecord, Leave, IdleTask, RowsOK, RestOK, TasksOK, OnItem, Reached, ClosingAt, HeldAt, OneItemEach, HeldWhileSending, SentIsHeld
    <2> QED BY <2>1, <2>2, <2>3 DEF ResumeInv
  <1>12. ASSUME NEW w \in Procs, FinalizeFails(w) PROVE ResumeInv'
    <2>1. OneItemEach'
      BY <1>12, <1>0 DEF FinalizeFails, Goto, Leave, IdleTask, RowsOK, RestOK, TasksOK, OnItem, Reached, ClosingAt, HeldAt, OneItemEach, HeldWhileSending, SentIsHeld
    <2>2. HeldWhileSending'
      <3>1. Others(w) /\ UNCHANGED <<item, freed, torn>>
        BY <1>12, <1>0, GotoHas, BeginHas, LeaveHas, HoldHas DEF FinalizeFails, TasksOK, TaskType, OnItem, Steps
      <3>2. HeldAt(w)'
        BY <1>12, <1>0, <3>1, GotoHas, BeginHas, LeaveHas, HoldHas DEF FinalizeFails, TasksOK, TaskType, OnItem, Steps, HeldWhileSending, HeldAt
      <3> QED BY <3>1, <3>2, <1>0, HeldLocal
    <2>3. SentIsHeld'
      BY <1>12, <1>0 DEF FinalizeFails, Goto, Leave, IdleTask, RowsOK, RestOK, TasksOK, OnItem, Reached, ClosingAt, HeldAt, OneItemEach, HeldWhileSending, SentIsHeld
    <2> QED BY <2>1, <2>2, <2>3 DEF ResumeInv
  <1>13. ASSUME NEW w \in Procs, Converge(w) PROVE ResumeInv'
    <2>1. OneItemEach'
      BY <1>13, <1>0 DEF Converge, Close, SetRecord, Leave, IdleTask, RowsOK, RestOK, TasksOK, OnItem, Reached, ClosingAt, HeldAt, OneItemEach, HeldWhileSending, SentIsHeld
    <2>2. HeldWhileSending'
      BY <1>13, <1>0 DEF Converge, Close, SetRecord, Leave, IdleTask, RowsOK, RestOK, TasksOK, OnItem, Reached, ClosingAt, HeldAt, OneItemEach, HeldWhileSending, SentIsHeld
    <2>3. SentIsHeld'
      BY <1>13, <1>0 DEF Converge, Close, SetRecord, Leave, IdleTask, RowsOK, RestOK, TasksOK, OnItem, Reached, ClosingAt, HeldAt, OneItemEach, HeldWhileSending, SentIsHeld
    <2> QED BY <2>1, <2>2, <2>3 DEF ResumeInv
  <1>14. CASE HandOver
    <2>1. OneItemEach'
      BY <1>14, <1>0 DEF HandOver, Goto, RowsOK, RestOK, TasksOK, OnItem, Reached, ClosingAt, HeldAt, OneItemEach, HeldWhileSending, SentIsHeld
    <2>2. HeldWhileSending'
      BY <1>14, <1>0 DEF HandOver, Goto, RowsOK, RestOK, TasksOK, OnItem, Reached, ClosingAt, HeldAt, OneItemEach, HeldWhileSending, SentIsHeld
    <2>3. SentIsHeld'
      BY <1>14, <1>0 DEF HandOver, Goto, RowsOK, RestOK, TasksOK, OnItem, Reached, ClosingAt, HeldAt, OneItemEach, HeldWhileSending, SentIsHeld
    <2> QED BY <2>1, <2>2, <2>3 DEF ResumeInv
  <1>15. CASE HandOverFails
    <2>1. OneItemEach'
      BY <1>15, <1>0 DEF HandOverFails, Goto, RowsOK, RestOK, TasksOK, OnItem, Reached, ClosingAt, HeldAt, OneItemEach, HeldWhileSending, SentIsHeld
    <2>2. HeldWhileSending'
      BY <1>15, <1>0 DEF HandOverFails, Goto, RowsOK, RestOK, TasksOK, OnItem, Reached, ClosingAt, HeldAt, OneItemEach, HeldWhileSending, SentIsHeld
    <2>3. SentIsHeld'
      BY <1>15, <1>0 DEF HandOverFails, Goto, RowsOK, RestOK, TasksOK, OnItem, Reached, ClosingAt, HeldAt, OneItemEach, HeldWhileSending, SentIsHeld
    <2> QED BY <2>1, <2>2, <2>3 DEF ResumeInv
  <1>16. CASE HandBack
    <2>1. OneItemEach'
      BY <1>16, <1>0 DEF HandBack, Leave, IdleTask, RowsOK, RestOK, TasksOK, OnItem, Reached, ClosingAt, HeldAt, OneItemEach, HeldWhileSending, SentIsHeld
    <2>2. HeldWhileSending'
      BY <1>16, <1>0 DEF HandBack, Leave, IdleTask, RowsOK, RestOK, TasksOK, OnItem, Reached, ClosingAt, HeldAt, OneItemEach, HeldWhileSending, SentIsHeld
    <2>3. SentIsHeld'
      BY <1>16, <1>0 DEF HandBack, Leave, IdleTask, RowsOK, RestOK, TasksOK, OnItem, Reached, ClosingAt, HeldAt, OneItemEach, HeldWhileSending, SentIsHeld
    <2> QED BY <2>1, <2>2, <2>3 DEF ResumeInv
  <1>17. CASE RecordHanded
    <2>1. OneItemEach'
      BY <1>17, <1>0 DEF RecordHanded, SetRecord, Goto, RowsOK, RestOK, TasksOK, OnItem, Reached, ClosingAt, HeldAt, OneItemEach, HeldWhileSending, SentIsHeld
    <2>2. HeldWhileSending'
      BY <1>17, <1>0 DEF RecordHanded, SetRecord, Goto, RowsOK, RestOK, TasksOK, OnItem, Reached, ClosingAt, HeldAt, OneItemEach, HeldWhileSending, SentIsHeld
    <2>3. SentIsHeld'
      BY <1>17, <1>0 DEF RecordHanded, SetRecord, Goto, RowsOK, RestOK, TasksOK, OnItem, Reached, ClosingAt, HeldAt, OneItemEach, HeldWhileSending, SentIsHeld
    <2> QED BY <2>1, <2>2, <2>3 DEF ResumeInv
  <1>18. CASE CloseHanded
    <2>1. OneItemEach'
      BY <1>18, <1>0 DEF CloseHanded, Close, Leave, IdleTask, RowsOK, RestOK, TasksOK, OnItem, Reached, ClosingAt, HeldAt, OneItemEach, HeldWhileSending, SentIsHeld
    <2>2. HeldWhileSending'
      BY <1>18, <1>0 DEF CloseHanded, Close, Leave, IdleTask, RowsOK, RestOK, TasksOK, OnItem, Reached, ClosingAt, HeldAt, OneItemEach, HeldWhileSending, SentIsHeld
    <2>3. SentIsHeld'
      BY <1>18, <1>0 DEF CloseHanded, Close, Leave, IdleTask, RowsOK, RestOK, TasksOK, OnItem, Reached, ClosingAt, HeldAt, OneItemEach, HeldWhileSending, SentIsHeld
    <2> QED BY <2>1, <2>2, <2>3 DEF ResumeInv
  <1>19. CASE SweepSelect
    <2>1. OneItemEach'
      BY <1>19, <1>0 DEF SweepSelect, RowsOK, RestOK, TasksOK, OnItem, Reached, ClosingAt, HeldAt, OneItemEach, HeldWhileSending, SentIsHeld
    <2>2. HeldWhileSending'
      BY <1>19, <1>0 DEF SweepSelect, RowsOK, RestOK, TasksOK, OnItem, Reached, ClosingAt, HeldAt, OneItemEach, HeldWhileSending, SentIsHeld
    <2>3. SentIsHeld'
      BY <1>19, <1>0 DEF SweepSelect, RowsOK, RestOK, TasksOK, OnItem, Reached, ClosingAt, HeldAt, OneItemEach, HeldWhileSending, SentIsHeld
    <2> QED BY <2>1, <2>2, <2>3 DEF ResumeInv
  <1>20. CASE Retry
    <2>1. OneItemEach'
      BY <1>20, <1>0 DEF Retry, RowsOK, RestOK, TasksOK, OnItem, Reached, ClosingAt, HeldAt, OneItemEach, HeldWhileSending, SentIsHeld
    <2>2. HeldWhileSending'
      BY <1>20, <1>0 DEF Retry, RowsOK, RestOK, TasksOK, OnItem, Reached, ClosingAt, HeldAt, OneItemEach, HeldWhileSending, SentIsHeld
    <2>3. SentIsHeld'
      BY <1>20, <1>0 DEF Retry, RowsOK, RestOK, TasksOK, OnItem, Reached, ClosingAt, HeldAt, OneItemEach, HeldWhileSending, SentIsHeld
    <2> QED BY <2>1, <2>2, <2>3 DEF ResumeInv
  <1>21. CASE FreeReserved
    <2>1. OneItemEach'
      BY <1>21, <1>0 DEF FreeReserved, Free, Leave, IdleTask, RowsOK, RestOK, TasksOK, OnItem, Reached, ClosingAt, HeldAt, OneItemEach, HeldWhileSending, SentIsHeld
    <2>2. HeldWhileSending'
      BY <1>21, <1>0 DEF FreeReserved, Free, Leave, IdleTask, RowsOK, RestOK, TasksOK, OnItem, Reached, ClosingAt, HeldAt, OneItemEach, HeldWhileSending, SentIsHeld
    <2>3. SentIsHeld'
      BY <1>21, <1>0 DEF FreeReserved, Free, Leave, IdleTask, RowsOK, RestOK, TasksOK, OnItem, Reached, ClosingAt, HeldAt, OneItemEach, HeldWhileSending, SentIsHeld
    <2> QED BY <2>1, <2>2, <2>3 DEF ResumeInv
  <1>22. CASE BotCrash
    <2>1. OneItemEach'
      BY <1>22, <1>0 DEF BotCrash, IdleTask, RowsOK, RestOK, TasksOK, OnItem, Reached, ClosingAt, HeldAt, OneItemEach, HeldWhileSending, SentIsHeld
    <2>2. HeldWhileSending'
      BY <1>22, <1>0 DEF BotCrash, IdleTask, RowsOK, RestOK, TasksOK, OnItem, Reached, ClosingAt, HeldAt, OneItemEach, HeldWhileSending, SentIsHeld
    <2>3. SentIsHeld'
      BY <1>22, <1>0 DEF BotCrash, IdleTask, RowsOK, RestOK, TasksOK, OnItem, Reached, ClosingAt, HeldAt, OneItemEach, HeldWhileSending, SentIsHeld
    <2> QED BY <2>1, <2>2, <2>3 DEF ResumeInv
  <1>23. ASSUME NEW o \in Orders, SweepNext(o) PROVE ResumeInv'
    <2>1. OneItemEach'
      BY <1>23, <1>0 DEF SweepNext, Enter, Begin, Leave, IdleTask, RowsOK, RestOK, TasksOK, OnItem, Reached, ClosingAt, HeldAt, OneItemEach, HeldWhileSending, SentIsHeld
    <2>2. HeldWhileSending'
      <3>1. Others(Sweep) /\ UNCHANGED <<item, freed, torn>>
        BY <1>23, <1>0, GotoHas, BeginHas, LeaveHas, HoldHas DEF SweepNext, Enter, TasksOK, TaskType, OnItem, Steps
      <3>2. HeldAt(Sweep)'
        BY <1>23, <1>0, <3>1, GotoHas, BeginHas, LeaveHas, HoldHas DEF SweepNext, Enter, TasksOK, TaskType, OnItem, Steps, HeldWhileSending, HeldAt
      <3> QED BY <3>1, <3>2, <1>0, HeldLocal
    <2>3. SentIsHeld'
      BY <1>23, <1>0 DEF SweepNext, Enter, Begin, Leave, IdleTask, RowsOK, RestOK, TasksOK, OnItem, Reached, ClosingAt, HeldAt, OneItemEach, HeldWhileSending, SentIsHeld
    <2> QED BY <2>1, <2>2, <2>3 DEF ResumeInv
  <1>24. ASSUME NEW o \in Orders, Press(o) PROVE ResumeInv'
    <2>1. OneItemEach'
      BY <1>24, <1>0 DEF Press, Enter, Begin, Leave, IdleTask, RowsOK, RestOK, TasksOK, OnItem, Reached, ClosingAt, HeldAt, OneItemEach, HeldWhileSending, SentIsHeld
    <2>2. HeldWhileSending'
      <3>1. Others(Updates) /\ UNCHANGED <<item, freed, torn>>
        BY <1>24, <1>0, GotoHas, BeginHas, LeaveHas, HoldHas DEF Press, Enter, TasksOK, TaskType, OnItem, Steps
      <3>2. HeldAt(Updates)'
        BY <1>24, <1>0, <3>1, GotoHas, BeginHas, LeaveHas, HoldHas DEF Press, Enter, TasksOK, TaskType, OnItem, Steps, HeldWhileSending, HeldAt
      <3> QED BY <3>1, <3>2, <1>0, HeldLocal
    <2>3. SentIsHeld'
      BY <1>24, <1>0 DEF Press, Enter, Begin, Leave, IdleTask, RowsOK, RestOK, TasksOK, OnItem, Reached, ClosingAt, HeldAt, OneItemEach, HeldWhileSending, SentIsHeld
    <2> QED BY <2>1, <2>2, <2>3 DEF ResumeInv
  <1>25. ASSUME NEW o \in Orders, RetryNext(o) PROVE ResumeInv'
    <2>1. OneItemEach'
      BY <1>25, <1>0 DEF RetryNext, Begin, IdleTask, RowsOK, RestOK, TasksOK, OnItem, Reached, ClosingAt, HeldAt, OneItemEach, HeldWhileSending, SentIsHeld
    <2>2. HeldWhileSending'
      BY <1>25, <1>0 DEF RetryNext, Begin, IdleTask, RowsOK, RestOK, TasksOK, OnItem, Reached, ClosingAt, HeldAt, OneItemEach, HeldWhileSending, SentIsHeld
    <2>3. SentIsHeld'
      BY <1>25, <1>0 DEF RetryNext, Begin, IdleTask, RowsOK, RestOK, TasksOK, OnItem, Reached, ClosingAt, HeldAt, OneItemEach, HeldWhileSending, SentIsHeld
    <2> QED BY <2>1, <2>2, <2>3 DEF ResumeInv
  <1>26. ASSUME NEW o \in Orders, SubmitUserInfo(o) PROVE ResumeInv'
    <2>1. OneItemEach'
      BY <1>26, <1>0 DEF SubmitUserInfo, RowsOK, RestOK, TasksOK, OnItem, Reached, ClosingAt, HeldAt, OneItemEach, HeldWhileSending, SentIsHeld
    <2>2. HeldWhileSending'
      BY <1>26, <1>0 DEF SubmitUserInfo, RowsOK, RestOK, TasksOK, OnItem, Reached, ClosingAt, HeldAt, OneItemEach, HeldWhileSending, SentIsHeld
    <2>3. SentIsHeld'
      BY <1>26, <1>0 DEF SubmitUserInfo, RowsOK, RestOK, TasksOK, OnItem, Reached, ClosingAt, HeldAt, OneItemEach, HeldWhileSending, SentIsHeld
    <2> QED BY <2>1, <2>2, <2>3 DEF ResumeInv
  <1>27. ASSUME NEW o \in Orders, ClaimDelivery(o) PROVE ResumeInv'
    <2>1. OneItemEach'
      BY <1>27, <1>0 DEF ClaimDelivery, Begin, IdleTask, RowsOK, RestOK, TasksOK, OnItem, Reached, ClosingAt, HeldAt, OneItemEach, HeldWhileSending, SentIsHeld
    <2>2. HeldWhileSending'
      BY <1>27, <1>0 DEF ClaimDelivery, Begin, IdleTask, RowsOK, RestOK, TasksOK, OnItem, Reached, ClosingAt, HeldAt, OneItemEach, HeldWhileSending, SentIsHeld
    <2>3. SentIsHeld'
      BY <1>27, <1>0 DEF ClaimDelivery, Begin, IdleTask, RowsOK, RestOK, TasksOK, OnItem, Reached, ClosingAt, HeldAt, OneItemEach, HeldWhileSending, SentIsHeld
    <2> QED BY <2>1, <2>2, <2>3 DEF ResumeInv
  <1>28. ASSUME NEW i \in Items, AddItem(i) PROVE ResumeInv'
    <2>1. OneItemEach'
      BY <1>28, <1>0 DEF AddItem, Free, RowsOK, RestOK, TasksOK, OnItem, Reached, ClosingAt, HeldAt, OneItemEach, HeldWhileSending, SentIsHeld
    <2>2. HeldWhileSending'
      BY <1>28, <1>0 DEF AddItem, Free, RowsOK, RestOK, TasksOK, OnItem, Reached, ClosingAt, HeldAt, OneItemEach, HeldWhileSending, SentIsHeld
    <2>3. SentIsHeld'
      BY <1>28, <1>0 DEF AddItem, Free, RowsOK, RestOK, TasksOK, OnItem, Reached, ClosingAt, HeldAt, OneItemEach, HeldWhileSending, SentIsHeld
    <2> QED BY <2>1, <2>2, <2>3 DEF ResumeInv
  <1>29. ASSUME NEW i \in Items, DisableItem(i) PROVE ResumeInv'
    <2>1. OneItemEach'
      BY <1>29, <1>0 DEF DisableItem, Free, RowsOK, RestOK, TasksOK, OnItem, Reached, ClosingAt, HeldAt, OneItemEach, HeldWhileSending, SentIsHeld
    <2>2. HeldWhileSending'
      BY <1>29, <1>0 DEF DisableItem, Free, RowsOK, RestOK, TasksOK, OnItem, Reached, ClosingAt, HeldAt, OneItemEach, HeldWhileSending, SentIsHeld
    <2>3. SentIsHeld'
      BY <1>29, <1>0 DEF DisableItem, Free, RowsOK, RestOK, TasksOK, OnItem, Reached, ClosingAt, HeldAt, OneItemEach, HeldWhileSending, SentIsHeld
    <2> QED BY <2>1, <2>2, <2>3 DEF ResumeInv
  <1>30. ASSUME NEW i \in Items, CheckReserved(i) PROVE ResumeInv'
    <2>1. OneItemEach'
      BY <1>30, <1>0 DEF CheckReserved, Hold, RowsOK, RestOK, TasksOK, OnItem, Reached, ClosingAt, HeldAt, OneItemEach, HeldWhileSending, SentIsHeld
    <2>2. HeldWhileSending'
      BY <1>30, <1>0 DEF CheckReserved, Hold, RowsOK, RestOK, TasksOK, OnItem, Reached, ClosingAt, HeldAt, OneItemEach, HeldWhileSending, SentIsHeld
    <2>3. SentIsHeld'
      BY <1>30, <1>0 DEF CheckReserved, Hold, RowsOK, RestOK, TasksOK, OnItem, Reached, ClosingAt, HeldAt, OneItemEach, HeldWhileSending, SentIsHeld
    <2> QED BY <2>1, <2>2, <2>3 DEF ResumeInv
  <1>31. CASE UNCHANGED vars
    BY <1>31, <1>0 DEF vars, ResumeInv, Reached, HeldAt, OneItemEach, HeldWhileSending, SentIsHeld
  <1> QED
    BY <1>1, <1>2, <1>3, <1>4, <1>5, <1>6, <1>7, <1>8, <1>9, <1>10, <1>11, <1>12, <1>13, <1>14, <1>15, <1>16, <1>17, <1>18, <1>19, <1>20, <1>21, <1>22, <1>23, <1>24, <1>25, <1>26, <1>27, <1>28, <1>29, <1>30, <1>31
       DEF Next, SweepStep, Step, Deliver

-----------------------------------------------------------------------------
LEMMA DeliveryAlways == Spec => [](TypeInv /\ DeliveryInv)
  <1>1. Init => TypeInv /\ DeliveryInv
    BY InitTyped DEF Init, DeliveryInv, ClosedReached, WrittenOffSent, ClosingReached, ClosingAt, IdleTask
  <1>2. TypeInv /\ DeliveryInv /\ [Next]_vars => (TypeInv /\ DeliveryInv)'
    BY TypeStep, DeliveryStep
  <1> QED BY <1>1, <1>2, PTL DEF Spec

LEMMA ResumeAlways == Spec => [](TypeInv /\ ResumeInv)
  <1>1. Init => TypeInv /\ ResumeInv
    BY InitTyped DEF Init, ResumeInv, OneItemEach, HeldWhileSending, HeldAt, SentIsHeld, IdleTask
  <1>2. TypeInv /\ ResumeInv /\ [Next]_vars => (TypeInv /\ ResumeInv)'
    BY TypeStep, ResumeStep
  <1> QED BY <1>1, <1>2, PTL DEF Spec

(* A set with no two different elements.                                   *)
LEMMA AtMostOne ==
    ASSUME NEW S, \A x, y \in S : x = y
    PROVE  Cardinality(S) <= 1
  <1>1. CASE S = {}
    BY <1>1, FS_EmptySet
  <1>2. CASE S # {}
    <2>1. PICK x \in S : TRUE
      BY <1>2
    <2>2. S = {x}
      BY <2>1
    <2> QED BY <2>2, FS_Singleton
  <1> QED BY <1>1, <1>2

(* Rows and processes keep their types through the compare-and-sets, the   *)
(* releases and the crashes of other-product-stock.service.ts.             *)
THEOREM StockTypeCorrect == Spec => []TypeOK
  BY TypeAlways, TypeInvTypes, PTL

(* No order is COMPLETED and no item DELIVERED before its content, or the  *)
(* delivery by hand, reached the buyer: finalizeStockDelivery and          *)
(* deliverManualOrder record what has happened already.                    *)
THEOREM ClosedIsDelivered == Spec => []CompletedIsDelivered
  <1>1. DeliveryInv => CompletedIsDelivered
    BY DEF DeliveryInv, ClosedReached, WrittenOffSent, Reached, CompletedIsDelivered
  <1> QED BY <1>1, DeliveryAlways, PTL

(* Whatever crashes and whoever resumes, an item that releaseStockClaim or *)
(* an administrator never took back goes to one buyer, and an order gets   *)
(* one such item: the reservation in deliveredOrderId is what is resumed.  *)
THEOREM ResumedSame == Spec => []ResumedIsSame
  <1>1. ASSUME TypeInv, ResumeInv PROVE ResumedIsSame
    <2>1. ASSUME NEW i \in Items \ freed
          PROVE  Cardinality({o \in Orders : <<i, o>> \in sent}) <= 1
      <3> DEFINE S == {o \in Orders : <<i, o>> \in sent}
      <3>1. \A x, y \in S : x = y
        BY <1>1, <2>1 DEF ResumeInv, SentIsHeld
      <3> HIDE DEF S
      <3>2. Cardinality(S) <= 1
        BY <3>1, AtMostOne
      <3> QED BY <3>2 DEF S
    <2>2. ASSUME NEW o \in Orders
          PROVE  Cardinality({i \in Items \ freed : <<i, o>> \in sent}) <= 1
      <3> DEFINE S == {i \in Items \ freed : <<i, o>> \in sent}
      <3>1. \A x, y \in S : x = y
        BY <1>1, <2>2, StockAssumption DEF ResumeInv, SentIsHeld, OneItemEach
      <3> HIDE DEF S
      <3>2. Cardinality(S) <= 1
        BY <3>1, AtMostOne
      <3> QED BY <3>2 DEF S
    <2> QED BY <2>1, <2>2 DEF ResumedIsSame
  <1> QED BY <1>1, ResumeAlways, PTL
=============================================================================
