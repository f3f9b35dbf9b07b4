------------------------- MODULE AutoRenewal_proofs -------------------------
(***************************************************************************)
(* Theorems about AutoRenewal, for any number of executors, cycles, tries, *)
(* prices in the wallet and crashes.                                       *)
(***************************************************************************)
EXTENDS AutoRenewal, TLAPS

(* The claim lets one executor in, and from there on the row of the        *)
(* attempt and its order are where the executor's step expects them: the   *)
(* updates by id that follow are safe only because of that.                *)
InFlight(w)  == task[w].pc \notin {"idle", "claim"}
Exclusive    == \A v, w \in Executors :
                   InFlight(v) /\ InFlight(w) /\ CycleOf(v) = CycleOf(w) => v = w

Untouched(c) == attempt[c].status \in {"CLAIMED", "CANCELLED"}
Uncharged(c) == Untouched(c) /\ order[c] = "NONE"

ToMark(c, to) ==
    \/ Uncharged(c) /\ to \in {"CANCELLED", "FAILED", "INSUFFICIENT_BALANCE", "SCHEDULED"}
    \/ Uncharged(c) /\ to = "RETRY" /\ attempt[c].number < MaxTries
    \/ Untouched(c) /\ order[c] # "NONE" /\ to = "PAYMENT_CREATED"
    \/ attempt[c].status = "PAYMENT_CREATED" /\ order[c] # "NONE" /\ to = "FULFILLING"
    \/ /\ attempt[c].status = "FULFILLING" /\ order[c] # "NONE"
       /\ \/ to = "REQUIRES_ACTION"
          \/ to \in {"COMPLETED", "FAILED"} /\ order[c] = to

TaskAt(pc, c, to) ==
    /\ pc \in {"check", "charge"} => Uncharged(c)
    /\ pc = "charge" => c \notin late
    /\ pc = "pause" => Uncharged(c) /\ to \in {"CANCELLED", "FAILED", "INSUFFICIENT_BALANCE"}
    /\ pc = "mark" => ToMark(c, to)
    /\ pc = "fulfil" => attempt[c].status = "FULFILLING" /\ order[c] # "NONE"
    /\ pc = "pauseAfter" => attempt[c].status \in {"REQUIRES_ACTION", "FAILED"}
TasksFit == \A w \in Executors : TaskAt(task[w].pc, CycleOf(w), task[w].to)

(* One debit for an order that exists, one refund for one that failed.     *)
MoneyFits == \A c \in Cycles :
    /\ debits[c] = IF order[c] = "NONE" THEN 0 ELSE 1
    /\ refunds[c] = IF order[c] = "FAILED" THEN 1 ELSE 0

RowsFit == \A c \in Cycles :
    /\ attempt[c].status \in {"NONE", "SCHEDULED", "INSUFFICIENT_BALANCE"} => order[c] = "NONE"
    /\ attempt[c].status = "COMPLETED" => order[c] = "COMPLETED"
    /\ attempt[c].status = "FAILED" => order[c] \in {"NONE", "FAILED"}

LateFits == late # {} => mandate = "CANCELLED"

Inv == TypeOK /\ Exclusive /\ TasksFit /\ MoneyFits /\ RowsFit /\ LateFits

-----------------------------------------------------------------------------
(* What the helpers leave in the task of w, and that they touch no other.  *)
TaskType == [pc : Steps, cycle : Cycles, to : AttemptStatuses \cup {"RETRY"}]
Others(w) == \A v \in Executors \ {w} : task'[v] = task[v]

LEMMA CycleZero == 0 \in Cycles
  BY AutoRenewalAssumption DEF Cycles

LEMMA GotoHas ==
    ASSUME task \in [Executors -> TaskType], NEW w \in Executors, NEW pc \in Steps, Goto(w, pc)
    PROVE  /\ task' \in [Executors -> TaskType] /\ Others(w)
           /\ task'[w].pc = pc /\ task'[w].cycle = task[w].cycle /\ task'[w].to = task[w].to
  BY DEF Goto, TaskType, Others

LEMMA ContinueHas ==
    ASSUME task \in [Executors -> TaskType], NEW w \in Executors, NEW pc \in Steps,
           NEW to \in AttemptStatuses \cup {"RETRY"}, Continue(w, pc, to)
    PROVE  /\ task' \in [Executors -> TaskType] /\ Others(w)
           /\ task'[w].pc = pc /\ task'[w].cycle = task[w].cycle /\ task'[w].to = to
  BY DEF Continue, TaskType, Others

LEMMA FinishHas ==
    ASSUME task \in [Executors -> TaskType], job \in [Cycles -> JobStates],
           NEW w \in Executors, Finish(w)
    PROVE  /\ task' \in [Executors -> TaskType] /\ Others(w)
           /\ task'[w].pc = "idle"
           /\ job' \in [Cycles -> JobStates]
  BY CycleZero DEF Finish, TaskType, Others, IdleTask, Steps, AttemptStatuses, CycleOf, JobStates

AttemptType == [status : AttemptStatuses, number : 1 .. MaxTries + 1, waits : BOOLEAN]
RowsType  == /\ mandate \in MandateStatuses /\ attempt \in [Cycles -> AttemptType]
             /\ order \in [Cycles -> OrderStatuses]
MoneyType == debits \in [Cycles -> Nat] /\ refunds \in [Cycles -> Nat] /\ balance \in Nat
JobType   == job \in [Cycles -> JobStates]
ScanType  == scan \in [pc : {"idle", "create", "enqueue"}, cycle : Cycles] /\ cancelling \in BOOLEAN
RestType  == cycle \in Nat /\ enabled \in BOOLEAN /\ crashes \in Nat /\ late \subseteq Cycles

LEMMA FirstTry == [status |-> "NONE", number |-> 1, waits |-> FALSE] \in AttemptType
  BY AutoRenewalAssumption DEF AttemptType, AttemptStatuses

LEMMA NextTry ==
    ASSUME NEW a \in AttemptType, NEW to \in AttemptStatuses \cup {"RETRY"},
           to = "RETRY" => a.number < MaxTries
    PROVE  Marked(a, to) \in AttemptType
  <1>1. CASE to = "RETRY"
    <2>1. a.number + 1 \in 1 .. MaxTries + 1
      BY <1>1, AutoRenewalAssumption DEF AttemptType
    <2> QED BY <1>1, <2>1 DEF Marked, AttemptType, AttemptStatuses
  <1>2. CASE to # "RETRY"
    BY <1>2 DEF Marked, AttemptType, AttemptStatuses
  <1> QED BY <1>1, <1>2

LEMMA Restatus ==
    ASSUME attempt \in [Cycles -> AttemptType], NEW c \in Cycles, NEW status \in AttemptStatuses,
           attempt' = [attempt EXCEPT ![c].status = status]
    PROVE  /\ attempt' \in [Cycles -> AttemptType]
           /\ attempt'[c].status = status
           /\ \A d \in Cycles : /\ attempt'[d].number = attempt[d].number
                                /\ d # c => attempt'[d] = attempt[d]
  BY DEF AttemptType

(* An executor's step leaves the others' tasks where they fit, as long as  *)
(* it works on the row of its own cycle.                                   *)
LEMMA FitLocal ==
    ASSUME Exclusive, TasksFit, NEW w \in Executors, InFlight(w), Others(w),
           \A c \in Cycles : c # CycleOf(w) => attempt'[c] = attempt[c] /\ order'[c] = order[c],
           \A v \in Executors : CycleOf(v) \in Cycles,
           late' = late, TaskAt(task[w].pc, CycleOf(w), task[w].to)',
           task'[w].cycle = task[w].cycle \/ task'[w].pc = "idle"
    PROVE  Exclusive' /\ TasksFit'
  <1>1. Exclusive'
    BY DEF Exclusive, InFlight, Others, CycleOf
  <1>2. ASSUME NEW v \in Executors, v # w PROVE TaskAt(task[v].pc, CycleOf(v), task[v].to)'
    <2>1. task'[v] = task[v]
      BY <1>2 DEF Others
    <2>2. CASE InFlight(v)
      <3>1. attempt'[CycleOf(v)] = attempt[CycleOf(v)] /\ order'[CycleOf(v)] = order[CycleOf(v)]
        BY <1>2, <2>2 DEF Exclusive
      <3> QED BY <2>1, <3>1 DEF TasksFit, TaskAt, ToMark, Uncharged, Untouched, CycleOf
    <2>3. CASE ~InFlight(v)
      BY <2>1, <2>3 DEF TaskAt, InFlight
    <2> QED BY <2>2, <2>3
  <1> QED BY <1>1, <1>2 DEF TasksFit

(* What stays when no task, order or claim changes and an attempt changes  *)
(* in a way that no task in flight tells apart.                            *)
LEMMA FitKept ==
    ASSUME Exclusive, TasksFit, UNCHANGED <<task, order, late>>,
           \A v \in Executors : CycleOf(v) \in Cycles,
           \A c \in Cycles : /\ attempt'[c].number = attempt[c].number
                             /\ \/ attempt'[c].status = attempt[c].status
                                \/ Untouched(c) /\ Untouched(c)'
                                \/ attempt[c].status \in {"NONE", "SCHEDULED"}
    PROVE  Exclusive' /\ TasksFit'
  <1>1. Exclusive'
    BY DEF Exclusive, InFlight, CycleOf
  <1>2. ASSUME NEW v \in Executors PROVE TaskAt(task[v].pc, CycleOf(v), task[v].to)'
    BY <1>2 DEF TasksFit, TaskAt, ToMark, Uncharged, Untouched, CycleOf
  <1> QED BY <1>1, <1>2 DEF TasksFit

-----------------------------------------------------------------------------
LEMMA InvInit == Init => Inv
  <1> SUFFICES ASSUME Init PROVE Inv
    OBVIOUS
  <1>1. attempt \in [Cycles -> AttemptType]
    BY FirstTry DEF Init, NoAttempt
  <1>2. TypeOK
    BY <1>1, CycleZero
    DEF Init, TypeOK, AttemptType, MandateStatuses, AttemptStatuses, OrderStatuses, Steps, IdleTask, IdleScan,
        JobStates
  <1>3. Exclusive /\ TasksFit
    BY DEF Init, Exclusive, InFlight, TasksFit, TaskAt, IdleTask
  <1>4. MoneyFits /\ RowsFit /\ LateFits
    BY DEF Init, MoneyFits, RowsFit, LateFits, NoAttempt
  <1> QED BY <1>2, <1>3, <1>4 DEF Inv

(* Every step keeps the invariant.                                         *)
LEMMA InvStep == Inv /\ [Next]_vars => Inv'
  <1> SUFFICES ASSUME Inv, [Next]_vars PROVE Inv'
    OBVIOUS
  <1>0. /\ TypeOK /\ Exclusive /\ TasksFit /\ MoneyFits /\ RowsFit /\ LateFits
        /\ task \in [Executors -> TaskType] /\ RowsType /\ MoneyType /\ JobType /\ ScanType /\ RestType
        /\ \A v \in Executors : CycleOf(v) \in Cycles
    BY DEF Inv, TypeOK, TaskType, AttemptType, RowsType, MoneyType, JobType, ScanType, RestType, CycleOf
  <1> USE AutoRenewalAssumption, CycleZero DEF rows, procs, JobStates, Waiting, Running
  <1>1. CASE CreateMandate
    <2>1. TypeOK'
      <3>1. RowsType'
        BY <1>1, <1>0, NextTry DEF CreateMandate, RowsType, AttemptType, TaskType, TasksFit, TaskAt, ToMark, MandateStatuses, AttemptStatuses, OrderStatuses
      <3>2. MoneyType'
        BY <1>1, <1>0 DEF CreateMandate, MoneyType, RowsType
      <3>3. JobType'
        BY <1>1, <1>0, FinishHas DEF CreateMandate, JobType, ScanType, Finish, CycleOf
      <3>4. ScanType' /\ RestType'
        BY <1>1, <1>0 DEF CreateMandate, ScanType, RestType, Cycles, IdleScan
      <3>5. task' \in [Executors -> TaskType]
        BY <1>1, <1>0, GotoHas, ContinueHas, FinishHas DEF CreateMandate, Steps, AttemptStatuses, JobType, IdleTask
      <3> QED BY <3>1, <3>2, <3>3, <3>4, <3>5
         DEF TypeOK, TaskType, AttemptType, RowsType, MoneyType, JobType, ScanType, RestType
    <2>2. Exclusive' /\ TasksFit'
      BY <1>1, <1>0, FitKept DEF CreateMandate
    <2>3. MoneyFits' /\ RowsFit' /\ LateFits'
      BY <1>1, <1>0 DEF CreateMandate, MoneyFits, RowsFit, LateFits
    <2> QED BY <2>1, <2>2, <2>3 DEF Inv
  <1>2. CASE Pause
    <2>1. TypeOK'
      <3>1. RowsType'
        BY <1>2, <1>0, NextTry DEF Pause, PauseIfActive, RowsType, AttemptType, TaskType, TasksFit, TaskAt, ToMark, MandateStatuses, AttemptStatuses, OrderStatuses
      <3>2. MoneyType'
        BY <1>2, <1>0 DEF Pause, PauseIfActive, MoneyType, RowsType
      <3>3. JobType'
        BY <1>2, <1>0, FinishHas DEF Pause, PauseIfActive, JobType, ScanType, Finish, CycleOf
      <3>4. ScanType' /\ RestType'
        BY <1>2, <1>0 DEF Pause, PauseIfActive, ScanType, RestType, Cycles, IdleScan
      <3>5. task' \in [Executors -> TaskType]
        BY <1>2, <1>0, GotoHas, ContinueHas, FinishHas DEF Pause, PauseIfActive, Steps, AttemptStatuses, JobType, IdleTask
      <3> QED BY <3>1, <3>2, <3>3, <3>4, <3>5
         DEF TypeOK, TaskType, AttemptType, RowsType, MoneyType, JobType, ScanType, RestType
    <2>2. Exclusive' /\ TasksFit'
      BY <1>2, <1>0, FitKept DEF Pause, PauseIfActive
    <2>3. MoneyFits' /\ RowsFit' /\ LateFits'
      BY <1>2, <1>0 DEF Pause, PauseIfActive, MoneyFits, RowsFit, LateFits
    <2> QED BY <2>1, <2>2, <2>3 DEF Inv
  <1>3. CASE Resume
    <2>1. TypeOK'
      <3>1. RowsType'
        BY <1>3, <1>0, NextTry DEF Resume, RowsType, AttemptType, TaskType, TasksFit, TaskAt, ToMark, MandateStatuses, AttemptStatuses, OrderStatuses
      <3>2. MoneyType'
        BY <1>3, <1>0 DEF Resume, MoneyType, RowsType
      <3>3. JobType'
        BY <1>3, <1>0, FinishHas DEF Resume, JobType, ScanType, Finish, CycleOf
      <3>4. ScanType' /\ RestType'
        BY <1>3, <1>0 DEF Resume, ScanType, RestType, Cycles, IdleScan
      <3>5. task' \in [Executors -> TaskType]
        BY <1>3, <1>0, GotoHas, ContinueHas, FinishHas DEF Resume, Steps, AttemptStatuses, JobType, IdleTask
      <3> QED BY <3>1, <3>2, <3>3, <3>4, <3>5
         DEF TypeOK, TaskType, AttemptType, RowsType, MoneyType, JobType, ScanType, RestType
    <2>2. Exclusive' /\ TasksFit'
      BY <1>3, <1>0, FitKept DEF Resume
    <2>3. MoneyFits' /\ RowsFit' /\ LateFits'
      BY <1>3, <1>0 DEF Resume, MoneyFits, RowsFit, LateFits
    <2> QED BY <2>1, <2>2, <2>3 DEF Inv
  <1>4. CASE CancelMandate
    <2>1. TypeOK'
      <3>1. RowsType'
        BY <1>4, <1>0, NextTry DEF CancelMandate, RowsType, AttemptType, TaskType, TasksFit, TaskAt, ToMark, MandateStatuses, AttemptStatuses, OrderStatuses
      <3>2. MoneyType'
        BY <1>4, <1>0 DEF CancelMandate, MoneyType, RowsType
      <3>3. JobType'
        BY <1>4, <1>0, FinishHas DEF CancelMandate, JobType, ScanType, Finish, CycleOf
      <3>4. ScanType' /\ RestType'
        BY <1>4, <1>0 DEF CancelMandate, ScanType, RestType, Cycles, IdleScan
      <3>5. task' \in [Executors -> TaskType]
        BY <1>4, <1>0, GotoHas, ContinueHas, FinishHas DEF CancelMandate, Steps, AttemptStatuses, JobType, IdleTask
      <3> QED BY <3>1, <3>2, <3>3, <3>4, <3>5
         DEF TypeOK, TaskType, AttemptType, RowsType, MoneyType, JobType, ScanType, RestType
    <2>2. Exclusive' /\ TasksFit'
      BY <1>4, <1>0, FitKept DEF CancelMandate
    <2>3. MoneyFits' /\ RowsFit' /\ LateFits'
      BY <1>4, <1>0 DEF CancelMandate, MoneyFits, RowsFit, LateFits
    <2> QED BY <2>1, <2>2, <2>3 DEF Inv
  <1>5. CASE SwitchSystem
    <2>1. TypeOK'
      <3>1. RowsType'
        BY <1>5, <1>0, NextTry DEF SwitchSystem, RowsType, AttemptType, TaskType, TasksFit, TaskAt, ToMark, MandateStatuses, AttemptStatuses, OrderStatuses
      <3>2. MoneyType'
        BY <1>5, <1>0 DEF SwitchSystem, MoneyType, RowsType
      <3>3. JobType'
        BY <1>5, <1>0, FinishHas DEF SwitchSystem, JobType, ScanType, Finish, CycleOf
      <3>4. ScanType' /\ RestType'
        BY <1>5, <1>0 DEF SwitchSystem, ScanType, RestType, Cycles, IdleScan
      <3>5. task' \in [Executors -> TaskType]
        BY <1>5, <1>0, GotoHas, ContinueHas, FinishHas DEF SwitchSystem, Steps, AttemptStatuses, JobType, IdleTask
      <3> QED BY <3>1, <3>2, <3>3, <3>4, <3>5
         DEF TypeOK, TaskType, AttemptType, RowsType, MoneyType, JobType, ScanType, RestType
    <2>2. Exclusive' /\ TasksFit'
      BY <1>5, <1>0, FitKept DEF SwitchSystem
    <2>3. MoneyFits' /\ RowsFit' /\ LateFits'
      BY <1>5, <1>0 DEF SwitchSystem, MoneyFits, RowsFit, LateFits
    <2> QED BY <2>1, <2>2, <2>3 DEF Inv
  <1>6. CASE TopUp
    <2>1. TypeOK'
      <3>1. RowsType'
        BY <1>6, <1>0, NextTry DEF TopUp, RowsType, AttemptType, TaskType, TasksFit, TaskAt, ToMark, MandateStatuses, AttemptStatuses, OrderStatuses
      <3>2. MoneyType'
        BY <1>6, <1>0 DEF TopUp, MoneyType, RowsType
      <3>3. JobType'
        BY <1>6, <1>0, FinishHas DEF TopUp, JobType, ScanType, Finish, CycleOf
      <3>4. ScanType' /\ RestType'
        BY <1>6, <1>0 DEF TopUp, ScanType, RestType, Cycles, IdleScan
      <3>5. task' \in [Executors -> TaskType]
        BY <1>6, <1>0, GotoHas, ContinueHas, FinishHas DEF TopUp, Steps, AttemptStatuses, JobType, IdleTask
      <3> QED BY <3>1, <3>2, <3>3, <3>4, <3>5
         DEF TypeOK, TaskType, AttemptType, RowsType, MoneyType, JobType, ScanType, RestType
    <2>2. Exclusive' /\ TasksFit'
      BY <1>6, <1>0, FitKept DEF TopUp
    <2>3. MoneyFits' /\ RowsFit' /\ LateFits'
      BY <1>6, <1>0 DEF TopUp, MoneyFits, RowsFit, LateFits
    <2> QED BY <2>1, <2>2, <2>3 DEF Inv
  <1>7. CASE Spend
    <2>1. TypeOK'
      <3>1. RowsType'
        BY <1>7, <1>0, NextTry DEF Spend, RowsType, AttemptType, TaskType, TasksFit, TaskAt, ToMark, MandateStatuses, AttemptStatuses, OrderStatuses
      <3>2. MoneyType'
        BY <1>7, <1>0 DEF Spend, MoneyType, RowsType
      <3>3. JobType'
        BY <1>7, <1>0, FinishHas DEF Spend, JobType, ScanType, Finish, CycleOf
      <3>4. ScanType' /\ RestType'
        BY <1>7, <1>0 DEF Spend, ScanType, RestType, Cycles, IdleScan
      <3>5. task' \in [Executors -> TaskType]
        BY <1>7, <1>0, GotoHas, ContinueHas, FinishHas DEF Spend, Steps, AttemptStatuses, JobType, IdleTask
      <3> QED BY <3>1, <3>2, <3>3, <3>4, <3>5
         DEF TypeOK, TaskType, AttemptType, RowsType, MoneyType, JobType, ScanType, RestType
    <2>2. Exclusive' /\ TasksFit'
      BY <1>7, <1>0, FitKept DEF Spend
    <2>3. MoneyFits' /\ RowsFit' /\ LateFits'
      BY <1>7, <1>0 DEF Spend, MoneyFits, RowsFit, LateFits
    <2> QED BY <2>1, <2>2, <2>3 DEF Inv
  <1>8. CASE ManualRenewal
    <2>1. TypeOK'
      <3>1. RowsType'
        BY <1>8, <1>0, NextTry DEF ManualRenewal, RowsType, AttemptType, TaskType, TasksFit, TaskAt, ToMark, MandateStatuses, AttemptStatuses, OrderStatuses
      <3>2. MoneyType'
        BY <1>8, <1>0 DEF ManualRenewal, MoneyType, RowsType
      <3>3. JobType'
        BY <1>8, <1>0, FinishHas DEF ManualRenewal, JobType, ScanType, Finish, CycleOf
      <3>4. ScanType' /\ RestType'
        BY <1>8, <1>0 DEF ManualRenewal, ScanType, RestType, Cycles, IdleScan
      <3>5. task' \in [Executors -> TaskType]
        BY <1>8, <1>0, GotoHas, ContinueHas, FinishHas DEF ManualRenewal, Steps, AttemptStatuses, JobType, IdleTask
      <3> QED BY <3>1, <3>2, <3>3, <3>4, <3>5
         DEF TypeOK, TaskType, AttemptType, RowsType, MoneyType, JobType, ScanType, RestType
    <2>2. Exclusive' /\ TasksFit'
      BY <1>8, <1>0, FitKept DEF ManualRenewal
    <2>3. MoneyFits' /\ RowsFit' /\ LateFits'
      BY <1>8, <1>0 DEF ManualRenewal, MoneyFits, RowsFit, LateFits
    <2> QED BY <2>1, <2>2, <2>3 DEF Inv
  <1>9. CASE ScanMandate
    <2>1. TypeOK'
      <3>1. RowsType'
        BY <1>9, <1>0, NextTry DEF ScanMandate, PauseIfActive, TypeOK, RowsType, AttemptType, TaskType, TasksFit, TaskAt, ToMark, MandateStatuses, AttemptStatuses, OrderStatuses
      <3>2. MoneyType'
        BY <1>9, <1>0 DEF ScanMandate, PauseIfActive, TypeOK, MoneyType, RowsType
      <3>3. JobType'
        BY <1>9, <1>0, FinishHas DEF ScanMandate, PauseIfActive, TypeOK, JobType, ScanType, Finish, CycleOf
      <3>4. ScanType' /\ RestType'
        <4>1. cycle \in Cycles
          BY <1>9, <1>0 DEF ScanMandate, RestType, Cycles
        <4> QED BY <4>1, <1>9, <1>0 DEF ScanMandate, ScanType, RestType
      <3>5. task' \in [Executors -> TaskType]
        BY <1>9, <1>0, GotoHas, ContinueHas, FinishHas DEF ScanMandate, PauseIfActive, TypeOK, Steps, AttemptStatuses, JobType, IdleTask
      <3> QED BY <3>1, <3>2, <3>3, <3>4, <3>5
         DEF TypeOK, TaskType, AttemptType, RowsType, MoneyType, JobType, ScanType, RestType
    <2>2. Exclusive' /\ TasksFit'
      BY <1>9, <1>0, FitKept DEF ScanMandate, PauseIfActive, TypeOK
    <2>3. MoneyFits' /\ RowsFit' /\ LateFits'
      BY <1>9, <1>0 DEF ScanMandate, PauseIfActive, TypeOK, MoneyFits, RowsFit, LateFits
    <2> QED BY <2>1, <2>2, <2>3 DEF Inv
  <1>10. CASE EnqueueAttempt
    <2>1. TypeOK'
      <3>1. RowsType'
        BY <1>10, <1>0, NextTry DEF EnqueueAttempt, Enqueued, RowsType, AttemptType, TaskType, TasksFit, TaskAt, ToMark, MandateStatuses, AttemptStatuses, OrderStatuses
      <3>2. MoneyType'
        BY <1>10, <1>0 DEF EnqueueAttempt, Enqueued, MoneyType, RowsType
      <3>3. JobType'
        BY <1>10, <1>0, FinishHas DEF EnqueueAttempt, Enqueued, JobType, ScanType, Finish, CycleOf
      <3>4. ScanType' /\ RestType'
        BY <1>10, <1>0 DEF EnqueueAttempt, Enqueued, ScanType, RestType, Cycles, IdleScan
      <3>5. task' \in [Executors -> TaskType]
        BY <1>10, <1>0, GotoHas, ContinueHas, FinishHas DEF EnqueueAttempt, Enqueued, Steps, AttemptStatuses, JobType, IdleTask
      <3> QED BY <3>1, <3>2, <3>3, <3>4, <3>5
         DEF TypeOK, TaskType, AttemptType, RowsType, MoneyType, JobType, ScanType, RestType
    <2>2. Exclusive' /\ TasksFit'
      BY <1>10, <1>0, FitKept DEF EnqueueAttempt, Enqueued
    <2>3. MoneyFits' /\ RowsFit' /\ LateFits'
      BY <1>10, <1>0 DEF EnqueueAttempt, Enqueued, MoneyFits, RowsFit, LateFits
    <2> QED BY <2>1, <2>2, <2>3 DEF Inv
  <1>11. CASE WorkerCrash
    <2>1. TypeOK'
      <3>1. RowsType'
        BY <1>11, <1>0, NextTry DEF WorkerCrash, IdleScan, RowsType, AttemptType, TaskType, TasksFit, TaskAt, ToMark, MandateStatuses, AttemptStatuses, OrderStatuses
      <3>2. MoneyType'
        BY <1>11, <1>0 DEF WorkerCrash, IdleScan, MoneyType, RowsType
      <3>3. JobType'
        BY <1>11, <1>0, FinishHas DEF WorkerCrash, IdleScan, JobType, ScanType, Finish, CycleOf
      <3>4. ScanType' /\ RestType'
        BY <1>11, <1>0 DEF WorkerCrash, IdleScan, ScanType, RestType, Cycles, IdleScan
      <3>5. task' \in [Executors -> TaskType]
        BY <1>11, <1>0, GotoHas, ContinueHas, FinishHas DEF WorkerCrash, IdleScan, Steps, AttemptStatuses, JobType, IdleTask
      <3> QED BY <3>1, <3>2, <3>3, <3>4, <3>5
         DEF TypeOK, TaskType, AttemptType, RowsType, MoneyType, JobType, ScanType, RestType
    <2>2. Exclusive' /\ TasksFit'
      BY <1>11, <1>0, FitKept DEF WorkerCrash, IdleScan
    <2>3. MoneyFits' /\ RowsFit' /\ LateFits'
      BY <1>11, <1>0 DEF WorkerCrash, IdleScan, MoneyFits, RowsFit, LateFits
    <2> QED BY <2>1, <2>2, <2>3 DEF Inv
  <1>12. CASE CancelAttempts
    <2>1. TypeOK'
      <3>1. RowsType'
        BY <1>12, <1>0, NextTry DEF CancelAttempts, RowsType, AttemptType, TaskType, TasksFit, TaskAt, ToMark, MandateStatuses, AttemptStatuses, OrderStatuses
      <3>2. MoneyType'
        BY <1>12, <1>0 DEF CancelAttempts, MoneyType, RowsType
      <3>3. JobType'
        BY <1>12, <1>0, FinishHas DEF CancelAttempts, JobType, ScanType, Finish, CycleOf
      <3>4. ScanType' /\ RestType'
        BY <1>12, <1>0 DEF CancelAttempts, ScanType, RestType, Cycles, IdleScan
      <3>5. task' \in [Executors -> TaskType]
        BY <1>12, <1>0, GotoHas, ContinueHas, FinishHas DEF CancelAttempts, Steps, AttemptStatuses, JobType, IdleTask
      <3> QED BY <3>1, <3>2, <3>3, <3>4, <3>5
         DEF TypeOK, TaskType, AttemptType, RowsType, MoneyType, JobType, ScanType, RestType
    <2>2. Exclusive' /\ TasksFit'
      BY <1>12, <1>0, FitKept DEF CancelAttempts, TypeOK, Untouched
    <2>3. MoneyFits' /\ LateFits'
      BY <1>12, <1>0 DEF CancelAttempts, MoneyFits, LateFits
    <2>4. RowsFit'
      BY <1>12, <1>0 DEF CancelAttempts, RowsFit, TypeOK
    <2> QED BY <2>1, <2>2, <2>3, <2>4 DEF Inv
  <1>13. CASE CreateAttempt
    <2>1. TypeOK'
      <3>1. RowsType'
        <4>1. "SCHEDULED" \in AttemptStatuses
          BY DEF AttemptStatuses
        <4>2. attempt' \in [Cycles -> AttemptType]
          BY <1>13, <1>0, <4>1 DEF CreateAttempt, RowsType, AttemptType
        <4> QED BY <1>13, <1>0, <4>2 DEF CreateAttempt, RowsType
      <3>2. MoneyType'
        BY <1>13, <1>0 DEF CreateAttempt, IdleScan, MoneyType, RowsType
      <3>3. JobType'
        BY <1>13, <1>0, FinishHas DEF CreateAttempt, IdleScan, JobType, ScanType, Finish, CycleOf
      <3>4. ScanType' /\ RestType'
        BY <1>13, <1>0 DEF CreateAttempt, IdleScan, ScanType, RestType, Cycles, IdleScan
      <3>5. task' \in [Executors -> TaskType]
        BY <1>13, <1>0, GotoHas, ContinueHas, FinishHas DEF CreateAttempt, IdleScan, Steps, AttemptStatuses, JobType, IdleTask
      <3> QED BY <3>1, <3>2, <3>3, <3>4, <3>5
         DEF TypeOK, TaskType, AttemptType, RowsType, MoneyType, JobType, ScanType, RestType
    <2>2. Exclusive' /\ TasksFit'
      BY <1>13, <1>0, FitKept DEF CreateAttempt, IdleScan, TypeOK, Untouched
    <2>3. MoneyFits' /\ LateFits'
      BY <1>13, <1>0 DEF CreateAttempt, IdleScan, MoneyFits, LateFits
    <2>4. RowsFit'
      BY <1>13, <1>0 DEF CreateAttempt, IdleScan, RowsFit, TypeOK
    <2> QED BY <2>1, <2>2, <2>3, <2>4 DEF Inv
  <1>14. ASSUME NEW c \in Cycles, Reconcile(c) PROVE Inv'
    <2>1. TypeOK'
      <3>1. RowsType'
        BY <1>14, <1>0, Restatus DEF Reconcile, Enqueued, RowsType, AttemptStatuses
      <3>2. MoneyType'
        BY <1>14, <1>0 DEF Reconcile, Enqueued, MoneyType, RowsType
      <3>3. JobType'
        BY <1>14, <1>0, FinishHas DEF Reconcile, Enqueued, JobType, ScanType, Finish, CycleOf
      <3>4. ScanType' /\ RestType'
        BY <1>14, <1>0 DEF Reconcile, Enqueued, ScanType, RestType, Cycles, IdleScan
      <3>5. task' \in [Executors -> TaskType]
        BY <1>14, <1>0, GotoHas, ContinueHas, FinishHas DEF Reconcile, Enqueued, Steps, AttemptStatuses, JobType, IdleTask
      <3> QED BY <3>1, <3>2, <3>3, <3>4, <3>5
         DEF TypeOK, TaskType, AttemptType, RowsType, MoneyType, JobType, ScanType, RestType
    <2>2. Exclusive' /\ TasksFit'
      BY <1>14, <1>0, FitKept, Restatus DEF Reconcile, Enqueued, RowsType, AttemptStatuses, Untouched
    <2>3. MoneyFits' /\ LateFits'
      BY <1>14, <1>0 DEF Reconcile, Enqueued, MoneyFits, LateFits
    <2>4. RowsFit'
      BY <1>14, <1>0 DEF Reconcile, Enqueued, RowsFit, TypeOK
    <2> QED BY <2>1, <2>2, <2>3, <2>4 DEF Inv
  <1>15. ASSUME NEW c \in Cycles, RetryIsDue(c) PROVE Inv'
    <2>1. TypeOK'
      <3>1. RowsType'
        BY <1>15, <1>0, NextTry DEF RetryIsDue, RowsType, AttemptType, TaskType, TasksFit, TaskAt, ToMark, MandateStatuses, AttemptStatuses, OrderStatuses
      <3>2. MoneyType'
        BY <1>15, <1>0 DEF RetryIsDue, MoneyType, RowsType
      <3>3. JobType'
        BY <1>15, <1>0, FinishHas DEF RetryIsDue, JobType, ScanType, Finish, CycleOf
      <3>4. ScanType' /\ RestType'
        BY <1>15, <1>0 DEF RetryIsDue, ScanType, RestType, Cycles, IdleScan
      <3>5. task' \in [Executors -> TaskType]
        BY <1>15, <1>0, GotoHas, ContinueHas, FinishHas DEF RetryIsDue, Steps, AttemptStatuses, JobType, IdleTask
      <3> QED BY <3>1, <3>2, <3>3, <3>4, <3>5
         DEF TypeOK, TaskType, AttemptType, RowsType, MoneyType, JobType, ScanType, RestType
    <2>2. Exclusive' /\ TasksFit'
      BY <1>15, <1>0, FitKept DEF RetryIsDue, TypeOK, Untouched
    <2>3. MoneyFits' /\ LateFits'
      BY <1>15, <1>0 DEF RetryIsDue, MoneyFits, LateFits
    <2>4. RowsFit'
      BY <1>15, <1>0 DEF RetryIsDue, RowsFit, TypeOK
    <2> QED BY <2>1, <2>2, <2>3, <2>4 DEF Inv
  <1>16. ASSUME NEW c \in Cycles, JobStalls(c) PROVE Inv'
    <2>1. TypeOK'
      <3>1. RowsType'
        BY <1>16, <1>0, NextTry DEF JobStalls, RowsType, AttemptType, TaskType, TasksFit, TaskAt, ToMark, MandateStatuses, AttemptStatuses, OrderStatuses
      <3>2. MoneyType'
        BY <1>16, <1>0 DEF JobStalls, MoneyType, RowsType
      <3>3. JobType'
        BY <1>16, <1>0, FinishHas DEF JobStalls, Stalled, JobType, ScanType, Finish, CycleOf
      <3>4. ScanType' /\ RestType'
        BY <1>16, <1>0 DEF JobStalls, ScanType, RestType, Cycles, IdleScan
      <3>5. task' \in [Executors -> TaskType]
        BY <1>16, <1>0, GotoHas, ContinueHas, FinishHas DEF JobStalls, Steps, AttemptStatuses, JobType, IdleTask
      <3> QED BY <3>1, <3>2, <3>3, <3>4, <3>5
         DEF TypeOK, TaskType, AttemptType, RowsType, MoneyType, JobType, ScanType, RestType
    <2>2. Exclusive' /\ TasksFit'
      BY <1>16, <1>0, FitKept DEF JobStalls, TypeOK, Untouched
    <2>3. MoneyFits' /\ LateFits'
      BY <1>16, <1>0 DEF JobStalls, MoneyFits, LateFits
    <2>4. RowsFit'
      BY <1>16, <1>0 DEF JobStalls, RowsFit, TypeOK
    <2> QED BY <2>1, <2>2, <2>3, <2>4 DEF Inv
  <1>17. ASSUME NEW c \in Cycles, OthersFulfil(c) PROVE Inv'
    <2>1. TypeOK'
      <3>1. RowsType'
        <4>1. order' \in [Cycles -> OrderStatuses]
          BY <1>17, <1>0 DEF OthersFulfil, Renewed, Refunded, Unsettled, RowsType, OrderStatuses
        <4> QED BY <1>17, <1>0, <4>1 DEF OthersFulfil, RowsType
      <3>2. MoneyType'
        BY <1>17, <1>0 DEF OthersFulfil, Renewed, Refunded, Unsettled, MoneyType, RowsType
      <3>3. JobType'
        BY <1>17, <1>0, FinishHas DEF OthersFulfil, Renewed, Refunded, Unsettled, JobType, ScanType, Finish, CycleOf
      <3>4. ScanType' /\ RestType'
        BY <1>17, <1>0 DEF OthersFulfil, Renewed, Refunded, Unsettled, ScanType, RestType, Cycles, IdleScan
      <3>5. task' \in [Executors -> TaskType]
        BY <1>17, <1>0, GotoHas, ContinueHas, FinishHas DEF OthersFulfil, Renewed, Refunded, Unsettled, Steps, AttemptStatuses, JobType, IdleTask
      <3> QED BY <3>1, <3>2, <3>3, <3>4, <3>5
         DEF TypeOK, TaskType, AttemptType, RowsType, MoneyType, JobType, ScanType, RestType
    <2>2. Exclusive'
      BY <1>17, <1>0 DEF OthersFulfil, Exclusive, InFlight, CycleOf
    <2>3. TasksFit'
      <3>1. ASSUME NEW v \in Executors PROVE TaskAt(task[v].pc, CycleOf(v), task[v].to)'
        BY <3>1, <1>17, <1>0 DEF OthersFulfil, Renewed, Refunded, Unsettled, TypeOK, TasksFit, TaskAt, ToMark, Uncharged,
           Untouched, CycleOf
      <3> QED BY <3>1 DEF TasksFit
    <2>4. MoneyFits'
      BY <1>17, <1>0 DEF OthersFulfil, Renewed, Refunded, Unsettled, MoneyFits, TypeOK
    <2>5. RowsFit' /\ LateFits'
      BY <1>17, <1>0 DEF OthersFulfil, Renewed, Refunded, Unsettled, RowsFit, LateFits, TypeOK
    <2> QED BY <2>1, <2>2, <2>3, <2>4, <2>5 DEF Inv
  <1>18. ASSUME NEW w \in Executors, NEW c \in Cycles, StartJob(w, c) PROVE Inv'
    <2>1. Others(w) /\ task'[w].pc \in {"idle", "claim"} /\ task' \in [Executors -> TaskType]
      BY <1>18, <1>0 DEF StartJob, Others, TaskType, Steps, AttemptStatuses
    <2>2. TypeOK'
      BY <1>18, <1>0, <2>1 DEF StartJob, TypeOK, TaskType
    <2>3. Exclusive' /\ TasksFit'
      BY <1>18, <1>0, <2>1 DEF StartJob, Others, Exclusive, TasksFit, InFlight, TaskAt, ToMark, Uncharged, Untouched, CycleOf
    <2>4. MoneyFits' /\ RowsFit' /\ LateFits'
      BY <1>18, <1>0 DEF StartJob, MoneyFits, RowsFit, LateFits
    <2> QED BY <2>1, <2>2, <2>3, <2>4 DEF Inv
  <1>19. ASSUME NEW w \in Executors, ExecutorThrows(w) PROVE Inv'
    <2>1. TypeOK'
      <3>1. RowsType'
        BY <1>19, <1>0, NextTry DEF ExecutorThrows, RowsType, AttemptType, TaskType, TasksFit, TaskAt, ToMark, MandateStatuses, AttemptStatuses, OrderStatuses
      <3>2. MoneyType'
        BY <1>19, <1>0 DEF ExecutorThrows, MoneyType, RowsType
      <3>3. JobType'
        BY <1>19, <1>0, FinishHas DEF ExecutorThrows, JobType, ScanType, Finish, CycleOf
      <3>4. ScanType' /\ RestType'
        BY <1>19, <1>0 DEF ExecutorThrows, ScanType, RestType, Cycles, IdleScan
      <3>5. task' \in [Executors -> TaskType]
        BY <1>19, <1>0, GotoHas, ContinueHas, FinishHas DEF ExecutorThrows, Steps, AttemptStatuses, JobType, IdleTask
      <3> QED BY <3>1, <3>2, <3>3, <3>4, <3>5
         DEF TypeOK, TaskType, AttemptType, RowsType, MoneyType, JobType, ScanType, RestType
    <2>2. Exclusive' /\ TasksFit'
      <3>1. InFlight(w) /\ Others(w) /\ task'[w].pc = "idle"
        BY <1>19, <1>0, FinishHas DEF ExecutorThrows, InFlight, TypeOK
      <3> QED BY <1>19, <3>1, <1>0, FitLocal DEF ExecutorThrows, TaskAt
    <2>3. MoneyFits' /\ RowsFit' /\ LateFits'
      BY <1>19, <1>0 DEF ExecutorThrows, MoneyFits, RowsFit, LateFits
    <2> QED BY <2>1, <2>2, <2>3 DEF Inv
  <1>20. CASE BotCrash
    <2>1. TypeOK'
      <3>1. RowsType'
        BY <1>20, <1>0, NextTry DEF BotCrash, IdleTask, RowsType, AttemptType, TaskType, TasksFit, TaskAt, ToMark, MandateStatuses, AttemptStatuses, OrderStatuses
      <3>2. MoneyType'
        BY <1>20, <1>0 DEF BotCrash, IdleTask, MoneyType, RowsType
      <3>3. JobType'
        BY <1>20, <1>0, FinishHas DEF BotCrash, IdleTask, Stalled, JobType, ScanType, Finish, CycleOf
      <3>4. ScanType' /\ RestType'
        <4>1. crashes' \in Nat
          BY <1>20, <1>0 DEF BotCrash, RestType
        <4>2. UNCHANGED <<scan, cycle, enabled, late>> /\ cancelling' = FALSE
          BY <1>20 DEF BotCrash
        <4> QED BY <4>1, <4>2, <1>0, Zenon DEF ScanType, RestType
      <3>5. task' \in [Executors -> TaskType]
        BY <1>20, <1>0, GotoHas, ContinueHas, FinishHas DEF BotCrash, IdleTask, Steps, AttemptStatuses, JobType, IdleTask, TaskType
      <3> QED BY <3>1, <3>2, <3>3, <3>4, <3>5
         DEF TypeOK, TaskType, AttemptType, RowsType, MoneyType, JobType, ScanType, RestType
    <2>2. Exclusive' /\ TasksFit'
      BY <1>20, <1>0 DEF BotCrash, Exclusive, TasksFit, InFlight, TaskAt, IdleTask
    <2>3. MoneyFits' /\ RowsFit' /\ LateFits'
      BY <1>20, <1>0 DEF BotCrash, MoneyFits, RowsFit, LateFits
    <2> QED BY <2>1, <2>2, <2>3 DEF Inv
  <1>21. ASSUME NEW w \in Executors, ClaimAttempt(w) PROVE Inv'
    <2>1. TypeOK'
      <3>1. RowsType'
        BY <1>21, <1>0, Restatus DEF ClaimAttempt, RowsType, AttemptStatuses
      <3>2. MoneyType'
        BY <1>21, <1>0 DEF ClaimAttempt, MoneyType, RowsType
      <3>3. JobType'
        BY <1>21, <1>0, FinishHas DEF ClaimAttempt, JobType, ScanType, Finish, CycleOf
      <3>4. ScanType' /\ RestType'
        BY <1>21, <1>0 DEF ClaimAttempt, ScanType, RestType, Cycles, IdleScan
      <3>5. task' \in [Executors -> TaskType]
        BY <1>21, <1>0, GotoHas, ContinueHas, FinishHas DEF ClaimAttempt, Steps, AttemptStatuses, JobType, IdleTask
      <3> QED BY <3>1, <3>2, <3>3, <3>4, <3>5
         DEF TypeOK, TaskType, AttemptType, RowsType, MoneyType, JobType, ScanType, RestType
    <2>2. Exclusive' /\ TasksFit'
      <3>1. CASE attempt[CycleOf(w)].status = "SCHEDULED"
        <4>1. \A v \in Executors : InFlight(v) => CycleOf(v) # CycleOf(w)
          BY <3>1, <1>0 DEF TasksFit, TaskAt, ToMark, Uncharged, Untouched, InFlight, TypeOK, Steps
        <4>2. /\ Others(w) /\ task'[w].pc = "check" /\ task'[w].cycle = CycleOf(w)
              /\ attempt'[CycleOf(w)].status = "CLAIMED" /\ UNCHANGED order
              /\ \A c \in Cycles : c # CycleOf(w) => attempt'[c] = attempt[c] /\ (c \in late' <=> c \in late)
          BY <3>1, <1>21, <1>0, GotoHas DEF ClaimAttempt, TypeOK, Steps, CycleOf
        <4>3. Exclusive'
          BY <4>1, <4>2, <1>0 DEF Exclusive, InFlight, Others, CycleOf
        <4>4. ASSUME NEW v \in Executors PROVE TaskAt(task[v].pc, CycleOf(v), task[v].to)'
          <5>1. CASE v = w
            BY <5>1, <3>1, <4>2, <1>0 DEF TaskAt, Uncharged, Untouched, RowsFit, CycleOf
          <5>2. CASE v # w /\ InFlight(v)
            BY <5>2, <4>1, <4>2, <1>0 DEF TasksFit, TaskAt, ToMark, Uncharged, Untouched, Others, CycleOf
          <5>3. CASE v # w /\ ~InFlight(v)
            BY <5>3, <4>2 DEF TaskAt, InFlight, Others
          <5> QED BY <5>1, <5>2, <5>3
        <4> QED BY <4>3, <4>4 DEF TasksFit
      <3>2. CASE attempt[CycleOf(w)].status # "SCHEDULED"
        <4>1. Others(w) /\ task'[w].pc = "idle" /\ UNCHANGED <<attempt, order, late>>
          BY <3>2, <1>21, <1>0, FinishHas DEF ClaimAttempt, TypeOK
        <4> QED BY <4>1, <1>0 DEF Others, Exclusive, TasksFit, InFlight, TaskAt, ToMark, Uncharged, Untouched, CycleOf
      <3> QED BY <3>1, <3>2
    <2>3. MoneyFits' /\ RowsFit'
      BY <1>21, <1>0, Restatus DEF ClaimAttempt, MoneyFits, RowsFit, RowsType, AttemptStatuses
    <2>4. LateFits'
      BY <1>21, <1>0 DEF ClaimAttempt, LateFits
    <2> QED BY <2>1, <2>2, <2>3, <2>4 DEF Inv
  <1>22. ASSUME NEW w \in Executors, CheckAttempt(w) PROVE Inv'
    <2>1. TypeOK'
      <3>1. RowsType'
        BY <1>22, <1>0, NextTry DEF CheckAttempt, RowsType, AttemptType, TaskType, TasksFit, TaskAt, ToMark, MandateStatuses, AttemptStatuses, OrderStatuses
      <3>2. MoneyType'
        BY <1>22, <1>0 DEF CheckAttempt, MoneyType, RowsType
      <3>3. JobType'
        BY <1>22, <1>0, FinishHas DEF CheckAttempt, JobType, ScanType, Finish, CycleOf
      <3>4. ScanType' /\ RestType'
        BY <1>22, <1>0 DEF CheckAttempt, ScanType, RestType, Cycles, IdleScan
      <3>5. task' \in [Executors -> TaskType]
        BY <1>22, <1>0, GotoHas, ContinueHas, FinishHas DEF CheckAttempt, Steps, AttemptStatuses, JobType, IdleTask
      <3> QED BY <3>1, <3>2, <3>3, <3>4, <3>5
         DEF TypeOK, TaskType, AttemptType, RowsType, MoneyType, JobType, ScanType, RestType
    <2>2. Exclusive' /\ TasksFit'
      <3>1. InFlight(w) /\ TaskAt(task[w].pc, CycleOf(w), task[w].to)
        BY <1>22, <1>0 DEF CheckAttempt, InFlight, TasksFit
      <3>2. /\ Others(w) /\ late' = late
            /\ task'[w].cycle = task[w].cycle \/ task'[w].pc = "idle"
            /\ \A c \in Cycles : c # CycleOf(w) => attempt'[c] = attempt[c] /\ order'[c] = order[c]
        BY <1>22, <1>0, GotoHas, ContinueHas, FinishHas DEF CheckAttempt, TypeOK, MandateStatuses, AttemptStatuses, OrderStatuses, Steps
      <3>3. TaskAt(task[w].pc, CycleOf(w), task[w].to)'
        BY <1>22, <3>1, <1>0, GotoHas, ContinueHas, FinishHas
        DEF CheckAttempt, TaskAt, ToMark, Uncharged, Untouched, CycleOf, TypeOK, Marked, MandateStatuses, AttemptStatuses, OrderStatuses, Steps, LateFits
      <3> QED BY <3>1, <3>2, <3>3, <1>0, FitLocal
    <2>3. MoneyFits'
      BY <1>22, <1>0 DEF CheckAttempt, MoneyFits, TypeOK, TasksFit, TaskAt, Uncharged
    <2>4. RowsFit' /\ LateFits'
      BY <1>22, <1>0 DEF CheckAttempt, RowsFit, LateFits, TypeOK, TasksFit, TaskAt, ToMark, Uncharged, Untouched, Marked
    <2> QED BY <2>1, <2>2, <2>3, <2>4 DEF Inv
  <1>23. ASSUME NEW w \in Executors, Charge(w) PROVE Inv'
    <2>1. TypeOK'
      <3>1. RowsType'
        BY <1>23, <1>0, NextTry DEF Charge, CanRetry, RowsType, AttemptType, TaskType, TasksFit, TaskAt, ToMark, MandateStatuses, AttemptStatuses, OrderStatuses
      <3>2. MoneyType'
        BY <1>23, <1>0 DEF Charge, CanRetry, MoneyType, RowsType
      <3>3. JobType'
        BY <1>23, <1>0, FinishHas DEF Charge, CanRetry, JobType, ScanType, Finish, CycleOf
      <3>4. ScanType' /\ RestType'
        BY <1>23, <1>0 DEF Charge, CanRetry, ScanType, RestType, Cycles, IdleScan
      <3>5. task' \in [Executors -> TaskType]
        BY <1>23, <1>0, GotoHas, ContinueHas, FinishHas DEF Charge, CanRetry, Steps, AttemptStatuses, JobType, IdleTask
      <3> QED BY <3>1, <3>2, <3>3, <3>4, <3>5
         DEF TypeOK, TaskType, AttemptType, RowsType, MoneyType, JobType, ScanType, RestType
    <2>2. Exclusive' /\ TasksFit'
      <3>1. InFlight(w) /\ TaskAt(task[w].pc, CycleOf(w), task[w].to)
        BY <1>23, <1>0 DEF Charge, CanRetry, InFlight, TasksFit
      <3>2. /\ Others(w) /\ late' = late
            /\ task'[w].cycle = task[w].cycle \/ task'[w].pc = "idle"
            /\ \A c \in Cycles : c # CycleOf(w) => attempt'[c] = attempt[c] /\ order'[c] = order[c]
        BY <1>23, <1>0, GotoHas, ContinueHas, FinishHas DEF Charge, CanRetry, TypeOK, MandateStatuses, AttemptStatuses, OrderStatuses, Steps
      <3>3. TaskAt(task[w].pc, CycleOf(w), task[w].to)'
        BY <1>23, <3>1, <1>0, GotoHas, ContinueHas, FinishHas
        DEF Charge, CanRetry, TaskAt, ToMark, Uncharged, Untouched, CycleOf, TypeOK, Marked, MandateStatuses, AttemptStatuses, OrderStatuses, Steps
      <3> QED BY <3>1, <3>2, <3>3, <1>0, FitLocal
    <2>3. MoneyFits'
      BY <1>23, <1>0 DEF Charge, CanRetry, MoneyFits, TypeOK, TasksFit, TaskAt, Uncharged
    <2>4. RowsFit' /\ LateFits'
      BY <1>23, <1>0 DEF Charge, CanRetry, RowsFit, LateFits, TypeOK, TasksFit, TaskAt, ToMark, Uncharged, Untouched, Marked
    <2> QED BY <2>1, <2>2, <2>3, <2>4 DEF Inv
  <1>24. ASSUME NEW w \in Executors, PauseMandate(w) PROVE Inv'
    <2>1. TypeOK'
      <3>1. RowsType'
        BY <1>24, <1>0, NextTry DEF PauseMandate, PauseIfActive, RowsType, AttemptType, TaskType, TasksFit, TaskAt, ToMark, MandateStatuses, AttemptStatuses, OrderStatuses
      <3>2. MoneyType'
        BY <1>24, <1>0 DEF PauseMandate, PauseIfActive, MoneyType, RowsType
      <3>3. JobType'
        BY <1>24, <1>0, FinishHas DEF PauseMandate, PauseIfActive, JobType, ScanType, Finish, CycleOf
      <3>4. ScanType' /\ RestType'
        BY <1>24, <1>0 DEF PauseMandate, PauseIfActive, ScanType, RestType, Cycles, IdleScan
      <3>5. task' \in [Executors -> TaskType]
        BY <1>24, <1>0, GotoHas, ContinueHas, FinishHas DEF PauseMandate, PauseIfActive, Steps, AttemptStatuses, JobType, IdleTask
      <3> QED BY <3>1, <3>2, <3>3, <3>4, <3>5
         DEF TypeOK, TaskType, AttemptType, RowsType, MoneyType, JobType, ScanType, RestType
    <2>2. Exclusive' /\ TasksFit'
      <3>1. InFlight(w) /\ TaskAt(task[w].pc, CycleOf(w), task[w].to)
        BY <1>24, <1>0 DEF PauseMandate, PauseIfActive, InFlight, TasksFit
      <3>2. /\ Others(w) /\ late' = late
            /\ task'[w].cycle = task[w].cycle \/ task'[w].pc = "idle"
            /\ \A c \in Cycles : c # CycleOf(w) => attempt'[c] = attempt[c] /\ order'[c] = order[c]
        BY <1>24, <1>0, GotoHas, ContinueHas, FinishHas DEF PauseMandate, PauseIfActive, TypeOK, MandateStatuses, AttemptStatuses, OrderStatuses, Steps
      <3>3. TaskAt(task[w].pc, CycleOf(w), task[w].to)'
        BY <1>24, <3>1, <1>0, GotoHas, ContinueHas, FinishHas
        DEF PauseMandate, PauseIfActive, TaskAt, ToMark, Uncharged, Untouched, CycleOf, TypeOK, Marked, MandateStatuses, AttemptStatuses, OrderStatuses, Steps
      <3> QED BY <3>1, <3>2, <3>3, <1>0, FitLocal
    <2>3. MoneyFits'
      BY <1>24, <1>0 DEF PauseMandate, PauseIfActive, MoneyFits, TypeOK, TasksFit, TaskAt, Uncharged
    <2>4. RowsFit' /\ LateFits'
      BY <1>24, <1>0 DEF PauseMandate, PauseIfActive, RowsFit, LateFits, TypeOK, TasksFit, TaskAt, ToMark, Uncharged, Untouched, Marked
    <2> QED BY <2>1, <2>2, <2>3, <2>4 DEF Inv
  <1>25. ASSUME NEW w \in Executors, MarkAttempt(w) PROVE Inv'
    <2>1. TypeOK'
      <3>1. RowsType'
        BY <1>25, <1>0, NextTry DEF MarkAttempt, RowsType, AttemptType, TaskType, TasksFit, TaskAt, ToMark, MandateStatuses, AttemptStatuses, OrderStatuses
      <3>2. MoneyType'
        BY <1>25, <1>0 DEF MarkAttempt, MoneyType, RowsType
      <3>3. JobType'
        BY <1>25, <1>0, FinishHas DEF MarkAttempt, JobType, ScanType, Finish, CycleOf
      <3>4. ScanType' /\ RestType'
        BY <1>25, <1>0 DEF MarkAttempt, ScanType, RestType, Cycles, IdleScan
      <3>5. task' \in [Executors -> TaskType]
        BY <1>25, <1>0, GotoHas, ContinueHas, FinishHas DEF MarkAttempt, Steps, AttemptStatuses, JobType, IdleTask
      <3> QED BY <3>1, <3>2, <3>3, <3>4, <3>5
         DEF TypeOK, TaskType, AttemptType, RowsType, MoneyType, JobType, ScanType, RestType
    <2>2. Exclusive' /\ TasksFit'
      <3>1. InFlight(w) /\ TaskAt(task[w].pc, CycleOf(w), task[w].to)
        BY <1>25, <1>0 DEF MarkAttempt, InFlight, TasksFit
      <3>2. /\ Others(w) /\ late' = late
            /\ task'[w].cycle = task[w].cycle \/ task'[w].pc = "idle"
            /\ \A c \in Cycles : c # CycleOf(w) => attempt'[c] = attempt[c] /\ order'[c] = order[c]
        BY <1>25, <1>0, GotoHas, ContinueHas, FinishHas DEF MarkAttempt, TypeOK, MandateStatuses, AttemptStatuses, OrderStatuses, Steps
      <3>3. TaskAt(task[w].pc, CycleOf(w), task[w].to)'
        <4>1. ToMark(CycleOf(w), task[w].to) /\ order' = order /\ CycleOf(w) \in Cycles
          BY <1>25, <3>1, <1>0 DEF MarkAttempt, TaskAt, CycleOf, TypeOK
        <4>2. attempt'[CycleOf(w)] = Marked(attempt[CycleOf(w)], task[w].to)
          BY <1>25, <4>1, <1>0 DEF MarkAttempt, CycleOf, TypeOK
        <4>3. task[w].to \notin {"RETRY", "SCHEDULED"} => attempt'[CycleOf(w)].status = task[w].to
          BY <4>1, <4>2, <1>0 DEF Marked, TypeOK
        <4>4. CASE task[w].to = "PAYMENT_CREATED"
          <5>1. task'[w].pc = "mark" /\ task'[w].to = "FULFILLING" /\ task'[w].cycle = task[w].cycle
            BY <1>25, <4>4, <1>0, ContinueHas DEF MarkAttempt, Steps, AttemptStatuses
          <5> QED BY <4>1, <4>3, <4>4, <5>1 DEF TaskAt, ToMark, Uncharged, Untouched, CycleOf
        <4>5. CASE task[w].to = "FULFILLING"
          <5>1. task'[w].pc = "fulfil" /\ task'[w].cycle = task[w].cycle
            BY <1>25, <4>5, <1>0, GotoHas DEF MarkAttempt, Steps
          <5> QED BY <4>1, <4>3, <4>5, <5>1 DEF TaskAt, ToMark, Uncharged, Untouched, CycleOf
        <4>6. CASE \/ task[w].to = "REQUIRES_ACTION"
                   \/ task[w].to = "FAILED" /\ order[CycleOf(w)] # "NONE"
          <5>1. Goto(w, "pauseAfter")
            BY <1>25, <4>6 DEF MarkAttempt
          <5>2. task'[w].pc = "pauseAfter" /\ task'[w].cycle = task[w].cycle
            BY <5>1, <1>0, GotoHas DEF Steps
          <5> QED BY <4>3, <4>6, <5>2 DEF TaskAt, CycleOf
        <4>7. CASE /\ task[w].to \notin {"PAYMENT_CREATED", "FULFILLING", "REQUIRES_ACTION"}
                   /\ ~(task[w].to = "FAILED" /\ order[CycleOf(w)] # "NONE")
          <5>1. Finish(w)
            BY <1>25, <4>7 DEF MarkAttempt
          <5>2. task'[w].pc = "idle"
            BY <5>1, <1>0, FinishHas DEF JobType
          <5> QED BY <5>2 DEF TaskAt
        <4> QED BY <4>4, <4>5, <4>6, <4>7
      <3> QED BY <3>1, <3>2, <3>3, <1>0, FitLocal
    <2>3. MoneyFits'
      BY <1>25, <1>0 DEF MarkAttempt, MoneyFits, TypeOK, TasksFit, TaskAt, Uncharged
    <2>4. RowsFit' /\ LateFits'
      BY <1>25, <1>0 DEF MarkAttempt, RowsFit, LateFits, TypeOK, TasksFit, TaskAt, ToMark, Uncharged, Untouched, Marked
    <2> QED BY <2>1, <2>2, <2>3, <2>4 DEF Inv
  <1>26. ASSUME NEW w \in Executors, Fulfil(w) PROVE Inv'
    <2>1. TypeOK'
      <3>1. RowsType'
        BY <1>26, <1>0, NextTry DEF Fulfil, Renewed, Refunded, Unsettled, RowsType, AttemptType, TaskType, TasksFit, TaskAt, ToMark, MandateStatuses, AttemptStatuses, OrderStatuses
      <3>2. MoneyType'
        BY <1>26, <1>0 DEF Fulfil, Renewed, Refunded, Unsettled, MoneyType, RowsType
      <3>3. JobType'
        BY <1>26, <1>0, FinishHas DEF Fulfil, Renewed, Refunded, Unsettled, JobType, ScanType, Finish, CycleOf
      <3>4. ScanType' /\ RestType'
        BY <1>26, <1>0 DEF Fulfil, Renewed, Refunded, Unsettled, ScanType, RestType, Cycles, IdleScan
      <3>5. task' \in [Executors -> TaskType]
        BY <1>26, <1>0, GotoHas, ContinueHas, FinishHas DEF Fulfil, Renewed, Refunded, Unsettled, Steps, AttemptStatuses, JobType, IdleTask
      <3> QED BY <3>1, <3>2, <3>3, <3>4, <3>5
         DEF TypeOK, TaskType, AttemptType, RowsType, MoneyType, JobType, ScanType, RestType
    <2>2. Exclusive' /\ TasksFit'
      <3>1. InFlight(w) /\ TaskAt(task[w].pc, CycleOf(w), task[w].to)
        BY <1>26, <1>0 DEF Fulfil, Renewed, Refunded, Unsettled, InFlight, TasksFit
      <3>2. /\ Others(w) /\ late' = late
            /\ task'[w].cycle = task[w].cycle \/ task'[w].pc = "idle"
            /\ \A c \in Cycles : c # CycleOf(w) => attempt'[c] = attempt[c] /\ order'[c] = order[c]
        BY <1>26, <1>0, GotoHas, ContinueHas, FinishHas DEF Fulfil, Renewed, Refunded, Unsettled, TypeOK, MandateStatuses, AttemptStatuses, OrderStatuses, Steps
      <3>3. TaskAt(task[w].pc, CycleOf(w), task[w].to)'
        BY <1>26, <3>1, <1>0, GotoHas, ContinueHas, FinishHas
        DEF Fulfil, Renewed, Refunded, Unsettled, TaskAt, ToMark, Uncharged, Untouched, CycleOf, TypeOK, Marked, MandateStatuses, AttemptStatuses, OrderStatuses, Steps
      <3> QED BY <3>1, <3>2, <3>3, <1>0, FitLocal
    <2>3. MoneyFits'
      BY <1>26, <1>0 DEF Fulfil, Renewed, Refunded, Unsettled, MoneyFits, TypeOK, TasksFit, TaskAt, Uncharged
    <2>4. RowsFit' /\ LateFits'
      BY <1>26, <1>0 DEF Fulfil, Renewed, Refunded, Unsettled, RowsFit, LateFits, TypeOK, TasksFit, TaskAt, ToMark, Uncharged, Untouched, Marked
    <2> QED BY <2>1, <2>2, <2>3, <2>4 DEF Inv
  <1>27. ASSUME NEW c \in Cycles, StartThrows(c) PROVE Inv'
    <2>1. TypeOK'
      <3>1. RowsType'
        BY <1>27, <1>0, NextTry DEF StartThrows, RowsType, AttemptType, TaskType, TasksFit, TaskAt, ToMark, MandateStatuses, AttemptStatuses, OrderStatuses
      <3>2. MoneyType'
        BY <1>27, <1>0 DEF StartThrows, MoneyType, RowsType
      <3>3. JobType'
        BY <1>27, <1>0, FinishHas DEF StartThrows, JobType, ScanType, Finish, CycleOf
      <3>4. ScanType' /\ RestType'
        BY <1>27, <1>0 DEF StartThrows, ScanType, RestType, Cycles, IdleScan
      <3>5. task' \in [Executors -> TaskType]
        BY <1>27, <1>0, GotoHas, ContinueHas, FinishHas DEF StartThrows, Steps, AttemptStatuses, JobType, IdleTask
      <3> QED BY <3>1, <3>2, <3>3, <3>4, <3>5
         DEF TypeOK, TaskType, AttemptType, RowsType, MoneyType, JobType, ScanType, RestType
    <2>2. Exclusive' /\ TasksFit'
      BY <1>27, <1>0, FitKept DEF StartThrows, TypeOK, Untouched
    <2>3. MoneyFits' /\ LateFits'
      BY <1>27, <1>0 DEF StartThrows, MoneyFits, LateFits
    <2>4. RowsFit'
      BY <1>27, <1>0 DEF StartThrows, RowsFit, TypeOK
    <2> QED BY <2>1, <2>2, <2>3, <2>4 DEF Inv
  <1>28. ASSUME NEW c \in Cycles, DropFailed(c) PROVE Inv'
    <2>1. TypeOK'
      <3>1. RowsType'
        BY <1>28, <1>0, NextTry DEF DropFailed, RowsType, AttemptType, TaskType, TasksFit, TaskAt, ToMark, MandateStatuses, AttemptStatuses, OrderStatuses
      <3>2. MoneyType'
        BY <1>28, <1>0 DEF DropFailed, MoneyType, RowsType
      <3>3. JobType'
        BY <1>28, <1>0, FinishHas DEF DropFailed, JobType, ScanType, Finish, CycleOf
      <3>4. ScanType' /\ RestType'
        BY <1>28, <1>0 DEF DropFailed, ScanType, RestType, Cycles, IdleScan
      <3>5. task' \in [Executors -> TaskType]
        BY <1>28, <1>0, GotoHas, ContinueHas, FinishHas DEF DropFailed, Steps, AttemptStatuses, JobType, IdleTask
      <3> QED BY <3>1, <3>2, <3>3, <3>4, <3>5
         DEF TypeOK, TaskType, AttemptType, RowsType, MoneyType, JobType, ScanType, RestType
    <2>2. Exclusive' /\ TasksFit'
      BY <1>28, <1>0, FitKept DEF DropFailed, TypeOK, Untouched
    <2>3. MoneyFits' /\ LateFits'
      BY <1>28, <1>0 DEF DropFailed, MoneyFits, LateFits
    <2>4. RowsFit'
      BY <1>28, <1>0 DEF DropFailed, RowsFit, TypeOK
    <2> QED BY <2>1, <2>2, <2>3, <2>4 DEF Inv
  <1>29. ASSUME NEW w \in Executors, ClaimThrows(w) PROVE Inv'
    <2>1. Others(w) /\ task'[w].pc = "idle" /\ task' \in [Executors -> TaskType]
      BY <1>29, <1>0 DEF ClaimThrows, Others, TaskType, IdleTask, Steps, AttemptStatuses
    <2>2. TypeOK'
      <3>1. job' \in [Cycles -> JobStates]
        BY <1>29, <1>0 DEF ClaimThrows, JobType
      <3> QED BY <1>29, <1>0, <2>1, <3>1 DEF ClaimThrows, TypeOK, TaskType
    <2>3. Exclusive' /\ TasksFit'
      BY <1>29, <1>0, <2>1 DEF ClaimThrows, Others, Exclusive, TasksFit, InFlight, TaskAt, ToMark, Uncharged, Untouched, CycleOf
    <2>4. MoneyFits' /\ RowsFit' /\ LateFits'
      BY <1>29, <1>0 DEF ClaimThrows, MoneyFits, RowsFit, LateFits
    <2> QED BY <2>1, <2>2, <2>3, <2>4 DEF Inv
  <1>30. CASE UNCHANGED vars
    BY <1>30, <1>0 DEF vars, Inv, TypeOK, Exclusive, InFlight, TasksFit, TaskAt, ToMark, Uncharged,
       Untouched, MoneyFits, RowsFit, LateFits, CycleOf
  <1> QED
    BY <1>1, <1>2, <1>3, <1>4, <1>5, <1>6, <1>7, <1>8, <1>9, <1>10, <1>11, <1>12, <1>13, <1>14, <1>15, <1>16, <1>17, <1>18, <1>19, <1>20, <1>21, <1>22, <1>23, <1>24, <1>25, <1>26, <1>27, <1>28, <1>29, <1>30
       DEF Next, Execute

-----------------------------------------------------------------------------
LEMMA InvAlways == Spec => []Inv
  BY InvInit, InvStep, PTL DEF Spec

(* The rows, the queue and the process records keep their types, the       *)
(* number of an attempt within the tries per cycle.                        *)
THEOREM RenewalTypeCorrect == Spec => []TypeOK
  <1>1. Inv => TypeOK
    BY DEF Inv
  <1> QED BY <1>1, InvAlways, PTL

(* finishFulfillment and transitionAttempt update by id, without a guard   *)
(* on the status: what they tell agrees with the money nevertheless.       *)
THEOREM AttemptTellsTruth == Spec => []AttemptAgrees
  <1>1. Inv => AttemptAgrees
    BY DEF Inv, AttemptAgrees, MoneyFits, RowsFit
  <1> QED BY <1>1, InvAlways, PTL

(* An ended attempt is never claimed, cancelled or marked again, by        *)
(* whichever of the executor, the scan and the reconcile.                  *)
THEOREM EndedForGood == Spec => EndedIsFinal
  <1>1. ASSUME Inv, [Next]_vars, NEW c \in Cycles, attempt[c].status \in Ended
        PROVE  attempt'[c].status = attempt[c].status
    <2>0. /\ attempt \in [Cycles -> AttemptType] /\ scan.cycle \in Cycles
          /\ \A w \in Executors : CycleOf(w) \in Cycles
      BY <1>1 DEF Inv, TypeOK, AttemptType, CycleOf
    <2>1. CASE UNCHANGED attempt
      BY <2>1
    <2>2. CASE CancelAttempts \/ CreateAttempt \/ \E d \in Cycles : Reconcile(d) \/ RetryIsDue(d)
      <3>1. CASE CancelAttempts
        BY <3>1, <2>0, <1>1 DEF CancelAttempts, Ended
      <3>2. CASE CreateAttempt
        BY <3>2, <2>0, <1>1 DEF CreateAttempt, Ended, AttemptType
      <3>3. ASSUME NEW d \in Cycles, Reconcile(d) PROVE attempt'[c].status = attempt[c].status
        BY <3>3, <2>0, <1>1 DEF Reconcile, Ended, AttemptType
      <3>4. ASSUME NEW d \in Cycles, RetryIsDue(d) PROVE attempt'[c].status = attempt[c].status
        BY <3>4, <2>0, <1>1 DEF RetryIsDue, AttemptType
      <3> QED BY <2>2, <3>1, <3>2, <3>3, <3>4
    <2>3. ASSUME NEW w \in Executors, ClaimAttempt(w) PROVE attempt'[c].status = attempt[c].status
      BY <2>3, <2>0, <1>1 DEF ClaimAttempt, Ended, AttemptType
    <2>4. ASSUME NEW w \in Executors, MarkAttempt(w) PROVE attempt'[c].status = attempt[c].status
      <3>1. attempt[CycleOf(w)].status \notin Ended
        BY <2>4, <1>1 DEF Inv, MarkAttempt, TasksFit, TaskAt, ToMark, Uncharged, Untouched, Ended
      <3> QED BY <3>1, <2>4, <2>0, <1>1 DEF MarkAttempt
    <2>5. \/ UNCHANGED attempt \/ CancelAttempts \/ CreateAttempt
          \/ \E d \in Cycles : Reconcile(d) \/ RetryIsDue(d)
          \/ \E w \in Executors : ClaimAttempt(w) \/ MarkAttempt(w)
      BY <1>1, Zenon DEF Next, Execute, vars, rows, CreateMandate, Pause, Resume, CancelMandate, SwitchSystem,
         TopUp, Spend, ManualRenewal, ScanMandate, EnqueueAttempt, WorkerCrash, OthersFulfil,
         JobStalls, StartThrows, DropFailed, ClaimThrows, CheckAttempt, Charge, PauseMandate, Fulfil, ExecutorThrows, StartJob, BotCrash
    <2> QED BY <2>1, <2>2, <2>3, <2>4, <2>5
  <1>2. Inv /\ [Next]_vars =>
            [\A c \in Cycles : attempt[c].status \in Ended => attempt'[c].status = attempt[c].status]_vars
    BY <1>1
  <1> QED BY <1>2, InvAlways, PTL DEF Spec, EndedIsFinal

(* cancelMandate: a claim that comes after it is stopped by the mandate    *)
(* that runClaimedAttempt reads, before the wallet is charged.             *)
THEOREM CancelledStops == Spec => CancelStopsLaterClaims
  <1>1. ASSUME Inv, [Next]_vars, NEW c \in Cycles, debits'[c] > debits[c]
        PROVE  c \notin late
    <2>1. \/ UNCHANGED debits
          \/ \E w \in Executors : Charge(w)
      BY <1>1, Zenon DEF Next, Execute, vars, rows, CreateMandate, Pause, Resume, CancelMandate, CancelAttempts,
         SwitchSystem, TopUp, Spend, ManualRenewal, ScanMandate, CreateAttempt, EnqueueAttempt,
         WorkerCrash, Reconcile, RetryIsDue, OthersFulfil, JobStalls, StartThrows, DropFailed, ClaimThrows, ClaimAttempt, CheckAttempt,
         PauseMandate, MarkAttempt, Fulfil, ExecutorThrows, StartJob, BotCrash
    <2>2. debits[c] \in Nat
      BY <1>1 DEF Inv, TypeOK
    <2>3. PICK w \in Executors : Charge(w)
      BY <1>1, <2>1, <2>2
    <2>4. CycleOf(w) = c
      BY <1>1, <2>2, <2>3 DEF Charge, Inv, TypeOK
    <2> QED BY <1>1, <2>3, <2>4 DEF Charge, Inv, TasksFit, TaskAt
  <1>2. Inv /\ [Next]_vars => [\A c \in Cycles : debits'[c] > debits[c] => c \notin late]_vars
    BY <1>1
  <1> QED BY <1>2, InvAlways, PTL DEF Spec, CancelStopsLaterClaims
=============================================================================
