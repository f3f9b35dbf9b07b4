----------------------- MODULE ServiceMutation_proofs -----------------------
(***************************************************************************)
(* Theorems about ServiceMutation, for any orders, processes, service and  *)
(* number of days, jobs, crashes and lapsed locks.                         *)
(***************************************************************************)
EXTENDS ServiceMutation, FiniteSetTheorems, TLAPS

USE ServiceMutationAssumption

Bot == Orders \ MiniApp

(* What the lock protects: its holder is the one process between the       *)
(* acquisition and the panel update.  The answer to the update may come    *)
(* after the lock lapsed.                                                  *)
Held == {"body", "claim", "reset", "send", "refund", "probe", "adopt"}
Sent == {"answer", "persist", "retry", "orphan"}
LockFit(w) ==
    /\ task[w].pc \in Held => task[w].locked /\ lock = w
    /\ task[w].pc \in Sent => task[w].locked

(* Which process runs what, for which orders.                              *)
FlowFit(w) ==
    /\ task[w].pc # "idle" => task[w].flow # "none"
    /\ task[w].flow = "recovery" <=> w = Recovery /\ task[w].pc # "idle"
    /\ task[w].pc \in {"claim", "reset", "send"} \cup Sent => task[w].flow \in {"pipeline", "executor"}
    /\ task[w].flow \in {"executor", "reconciler"} => task[w].order \in MiniApp
    /\ task[w].pc = "lock" => task[w].flow = "reconciler"
    /\ task[w].flow = "pipeline" => task[w].pc \notin {"probe", "adopt"}
    /\ task[w].flow = "sync" => task[w].pc \in {"probe", "adopt", "release"}

(* An order is never given back to PAID: its one claimant sends its one    *)
(* request.                                                                *)
Before == {"reset", "send"}
OrderFit(o) ==
    /\ order[o] = "PAID" => requests[o] = 0 /\ o \notin stale
    /\ requests[o] <= 1
    /\ \A w \in Procs : task[w].order = o /\ task[w].pc \in Before =>
          requests[o] = 0 /\ order[o] # "PAID"

(* An order of the bot is worked on by one process at a time, which finds  *)
(* it PROVISIONING until it settles it itself.  Once the order is stale    *)
(* that process has the lock, so that the recovery cannot interfere.       *)
Alone   == Before \cup Sent \cup {"probe", "adopt"}
Working == Alone \cup {"refund"}
BotFit(o) ==
    /\ order[o] = "COMPLETED" => refunds[o] = 0
    /\ order[o] = "FAILED" => refunds[o] = 1
    /\ order[o] \in {"PAID", "PROVISIONING"} => refunds[o] = 0
    /\ o \in applied => order[o] = "COMPLETED"
    /\ o \in batch => o \in stale
    /\ \A w \in Procs : task[w].order = o =>
          /\ task[w].pc = "finish" => o \in applied
          /\ task[w].pc \in Alone => order[o] = "PROVISIONING"
          /\ task[w].pc \in Working /\ o \in stale => lock = w
          /\ task[w].flow = "recovery" => o \in stale
    /\ \A v, w \in Procs : /\ task[v].order = o /\ task[v].pc \in Working
                           /\ task[w].order = o /\ task[w].pc \in Working
                           => v = w

Inv ==
    /\ TypeOK
    /\ \A w \in Procs : LockFit(w) /\ FlowFit(w)
    /\ \A o \in Orders : OrderFit(o)
    /\ \A o \in Bot : BotFit(o)

-----------------------------------------------------------------------------
(* The types, in parts.                                                    *)
RowsOK   == /\ order \in [Orders -> OrderStatuses] /\ refunds \in [Orders -> Nat] /\ row \in Values
            /\ intent \in [Orders -> [before : Values, expected : Values, written : BOOLEAN]]
            /\ applied \subseteq Orders /\ appApplied \subseteq Orders
RemoteOK == panel \in Values /\ flying \subseteq Orders \X Values /\ requests \in [Orders -> Nat]
TasksOK  == /\ task \in [Procs -> TaskRecord]
            /\ \A w \in Procs : task[w].pc # "idle" /\ task[w].flow # "sync" => task[w].order \in Orders
RestOK   == /\ lock \in Procs \cup {Free, Dead} /\ stale \subseteq Orders /\ batch \subseteq Orders
            /\ sweeps \in 0 .. 2 /\ today \in Nat /\ jobs \in [Orders -> Nat] /\ faults \in Nat
GhostsOK == /\ stray \subseteq Orders /\ unrecorded \subseteq Orders /\ guessed \subseteq Orders
            /\ blurred \in BOOLEAN
Fit      == /\ \A w \in Procs : LockFit(w) /\ FlowFit(w)
            /\ \A o \in Orders : OrderFit(o)
            /\ \A o \in Bot : BotFit(o)

LEMMA InvParts == Inv <=> RowsOK /\ RemoteOK /\ TasksOK /\ RestOK /\ GhostsOK /\ Fit
  BY DEF Inv, TypeOK, RowsOK, RemoteOK, TasksOK, RestOK, GhostsOK, Fit

LEMMA InvPartsNext == RowsOK' /\ RemoteOK' /\ TasksOK' /\ RestOK' /\ GhostsOK' /\ Fit' => Inv'
  BY DEF Inv, TypeOK, RowsOK, RemoteOK, TasksOK, RestOK, GhostsOK, Fit

LEMMA InitialIsValue == Initial \in Values
  BY DEF Initial, Values

LEMMA IdleIsTask == IdleTask \in TaskRecord
  BY InitialIsValue DEF IdleTask, TaskRecord, Flows, Steps

(* calculateRenewal, calculateExtraVolume and calculateExtraTime make      *)
(* values of values.                                                       *)
LEMMA TargetType ==
    ASSUME NEW o \in Orders, NEW v \in Values, NEW t \in Nat
    PROVE  Target(o, v, t) \in Values
  <1>1. Volume[o] \in Nat /\ Days[o] \in Nat
    OBVIOUS
  <1>2. v.limit \in Nat /\ v.used \in Nat /\ v.expiry \in Nat
    BY DEF Values
  <1>3. Remaining(v) \in Nat /\ Extended(v.expiry, Days[o], t) \in Nat
    BY <1>1, <1>2 DEF Remaining, Extended
  <1> HIDE DEF Remaining, Extended
  <1>4. /\ [limit |-> Remaining(v) + Volume[o], used |-> 0, expiry |-> v.expiry] \in Values
        /\ [v EXCEPT !.expiry = Extended(v.expiry, Days[o], t)] \in Values
        /\ [limit |-> Remaining(v) + Volume[o], used |-> 0,
            expiry |-> IF Days[o] > 0 THEN Extended(v.expiry, Days[o], t) ELSE v.expiry] \in Values
    BY <1>1, <1>2, <1>3 DEF Values
  <1> QED BY <1>4, Zenon DEF Target

-----------------------------------------------------------------------------
(* What the helpers leave in a process record, and that they touch no      *)
(* other.                                                                  *)
Others(w) == \A v \in Procs \ {w} : task'[v] = task[v]
Keeps(w)  == /\ task'[w].order = task[w].order /\ task'[w].flow = task[w].flow
             /\ task'[w].locked = task[w].locked
Left(w)   == \/ task'[w].pc = "idle" /\ task'[w].flow = "none"
             \/ task'[w].pc = "release" /\ Keeps(w)

LEMMA GotoHas ==
    ASSUME TasksOK, NEW w \in Procs, NEW pc \in Steps, Goto(w, pc), task[w].pc # "idle"
    PROVE  TasksOK' /\ Others(w) /\ Keeps(w) /\ task'[w].pc = pc
  BY DEF TasksOK, TaskRecord, Goto, Others, Keeps

LEMMA LeaveHas ==
    ASSUME TasksOK, NEW w \in Procs, Leave(w), task[w].pc # "idle"
    PROVE  TasksOK' /\ Others(w) /\ Left(w)
  <1>1. task' = [task EXCEPT ![w] = Done(task[w])]
    BY DEF Leave, TasksOK
  <1>2. CASE task[w].locked
    <2>1. Done(task[w]) = [task[w] EXCEPT !.pc = "release"]
      BY <1>2 DEF Done
    <2>2. task' = [task EXCEPT ![w].pc = "release"]
      BY <1>1, <2>1 DEF TasksOK
    <2> QED BY <2>2, GotoHas DEF Goto, Left, Steps
  <1>3. CASE ~task[w].locked
    <2>1. Done(task[w]) = IdleTask
      BY <1>3 DEF Done
    <2>2. task' = [task EXCEPT ![w] = IdleTask] /\ IdleTask.pc = "idle" /\ IdleTask.flow = "none"
      BY <1>1, <2>1 DEF IdleTask
    <2> QED BY <2>2, IdleIsTask DEF TasksOK, Others, Left
  <1> QED BY <1>2, <1>3

LEMMA ReadHas ==
    ASSUME TasksOK, NEW w \in Procs, NEW pc \in Steps, NEW v \in Values, task[w].pc # "idle",
           task' = [task EXCEPT ![w].pc = pc, ![w].seen = v]
    PROVE  TasksOK' /\ Others(w) /\ Keeps(w) /\ task'[w].pc = pc
  <1>0. PICK r \in TaskRecord : r = task[w]
    BY DEF TasksOK
  <1>1. PICK t : t = [r EXCEPT !.pc = pc, !.seen = v]
    OBVIOUS
  <1>2. /\ t \in TaskRecord /\ t.pc = pc
        /\ t.order = r.order /\ t.flow = r.flow /\ t.locked = r.locked
    BY <1>1 DEF TaskRecord
  <1>3. task' = [task EXCEPT ![w] = t]
    BY <1>0, <1>1 DEF TasksOK
  <1> QED BY <1>0, <1>2, <1>3 DEF TasksOK, Others, Keeps

Started(f, o, pc) ==
    [IdleTask EXCEPT !.flow = f, !.order = o, !.pc = pc, !.locked = TRUE]
StartedUnlocked(f, o, pc) == [IdleTask EXCEPT !.flow = f, !.order = o, !.pc = pc]

LEMMA StartHas ==
    ASSUME TasksOK, NEW w \in Procs, NEW f \in Flows, NEW o \in Orders \cup {NoOrder},
           NEW pc \in Steps, NEW l \in BOOLEAN, f = "sync" \/ o \in Orders,
           \/ l /\ task' = [task EXCEPT ![w] = Started(f, o, pc)]
           \/ ~l /\ task' = [task EXCEPT ![w] = StartedUnlocked(f, o, pc)]
    PROVE  /\ TasksOK' /\ Others(w)
           /\ task'[w].pc = pc /\ task'[w].flow = f /\ task'[w].order = o /\ task'[w].locked = l
  <1>1. PICK t : t = IF l THEN Started(f, o, pc) ELSE StartedUnlocked(f, o, pc)
    OBVIOUS
  <1>2. t \in TaskRecord /\ t.pc = pc /\ t.flow = f /\ t.order = o /\ t.locked = l
    <2>1. CASE l
      BY <1>1, <2>1, InitialIsValue DEF Started, IdleTask, TaskRecord, Flows
    <2>2. CASE ~l
      BY <1>1, <2>2, InitialIsValue DEF StartedUnlocked, IdleTask, TaskRecord, Flows
    <2> QED BY <2>1, <2>2
  <1>3. task' = [task EXCEPT ![w] = t]
    BY <1>1
  <1> QED BY <1>2, <1>3 DEF TasksOK, Others

LEMMA FlipHas ==
    ASSUME RowsOK, NEW o \in Orders, NEW from, NEW to \in OrderStatuses, order' = Flip(o, from, to)
    PROVE  /\ order' \in [Orders -> OrderStatuses]
           /\ order'[o] = IF order[o] \in from THEN to ELSE order[o]
           /\ \A d \in Orders \ {o} : order'[d] = order[d]
  BY DEF RowsOK, Flip

-----------------------------------------------------------------------------
(* Steps that keep the invariant.                                          *)
Data == <<order, refunds, requests, applied, stale, lock, batch>>

(* A process leaves its order as it is.                                    *)
LEMMA LeavesFit ==
    ASSUME Fit, NEW w \in Procs, Others(w), Left(w), task[w].pc # "idle", UNCHANGED Data
    PROVE  Fit'
  <1>1. \A v \in Procs : LockFit(v)'
    BY DEF Fit, LockFit, Others, Left, Keeps, Data, Held, Sent
  <1>2. \A v \in Procs : FlowFit(v)'
    BY DEF Fit, FlowFit, Others, Left, Keeps, Sent
  <1>3. \A o \in Orders : OrderFit(o)'
    BY DEF Fit, OrderFit, Others, Left, Data, Before
  <1>4. ASSUME NEW o \in Bot PROVE BotFit(o)'
    <2>1. BotFit(o) /\ FlowFit(w)
      BY DEF Fit
    <2> QED BY <2>1 DEF BotFit, FlowFit, Others, Left, Keeps, Data, Working, Alone, Before, Sent
  <1> QED BY <1>1, <1>2, <1>3, <1>4 DEF Fit

LEMMA SameLocks ==
    ASSUME \A v \in Procs : LockFit(v) /\ FlowFit(v), NEW w \in Procs, Others(w), UNCHANGED lock,
           LockFit(w)', FlowFit(w)'
    PROVE  \A v \in Procs : LockFit(v)' /\ FlowFit(v)'
  <1>1. \A v \in Procs \ {w} : LockFit(v)'
    BY DEF LockFit, Others
  <1>2. \A v \in Procs \ {w} : FlowFit(v)'
    BY DEF FlowFit, Others
  <1> QED BY <1>1, <1>2

(* A process goes on with its order.                                       *)
LEMMA MovesFit ==
    ASSUME Fit, NEW w \in Procs, Others(w), Keeps(w), UNCHANGED Data, FlowFit(w)',
           task'[w].pc \in Held => task[w].pc \in Held,
           task'[w].pc \in Sent => task[w].pc \in Held \cup Sent,
           task'[w].pc \in Before => task[w].pc \in Before,
           task'[w].pc \in Alone => task[w].pc \in Alone,
           task'[w].pc \in Working => task[w].pc \in Working,
           task'[w].pc = "finish" => task[w].pc = "finish"
    PROVE  Fit'
  <1>1. \A v \in Procs : LockFit(v)'
    BY DEF Fit, LockFit, Others, Keeps, Data
  <1>2. \A v \in Procs : FlowFit(v)'
    BY DEF Fit, FlowFit, Others
  <1>3. \A o \in Orders : OrderFit(o)'
    BY DEF Fit, OrderFit, Others, Keeps, Data
  <1>4. ASSUME NEW o \in Bot PROVE BotFit(o)'
    <2>1. BotFit(o)
      BY DEF Fit
    <2> QED BY <2>1 DEF BotFit, Others, Keeps, Data
  <1> QED BY <1>1, <1>2, <1>3, <1>4 DEF Fit

(* A process settles its order, or finds it settled, and leaves it.        *)
LEMMA SettlesFit ==
    ASSUME Fit, NEW w \in Procs, Others(w), Left(w), task[w].pc # "idle",
           UNCHANGED <<requests, stale, lock, batch>>,
           NEW o \in Orders, task[w].order = o,
           \A d \in Orders \ {o} : /\ order'[d] = order[d] /\ refunds'[d] = refunds[d]
                                   /\ d \in applied' <=> d \in applied,
           order'[o] = "PAID" => order[o] = "PAID", applied \subseteq applied',
           o \in Bot =>
              /\ order'[o] = "COMPLETED" => refunds'[o] = 0
              /\ order'[o] = "FAILED" => refunds'[o] = 1
              /\ order'[o] \in {"PAID", "PROVISIONING"} => refunds'[o] = 0
              /\ o \in applied' => order'[o] = "COMPLETED"
              /\ \/ order'[o] = order[o]
                 \/ \A v \in Procs \ {w} : task[v].order = o => task[v].pc \notin Alone
    PROVE  Fit'
  <1>1. \A v \in Procs : LockFit(v)'
    BY DEF Fit, LockFit, Others, Left, Keeps, Held, Sent
  <1>2. \A v \in Procs : FlowFit(v)'
    BY DEF Fit, FlowFit, Others, Left, Keeps, Sent
  <1>3. ASSUME NEW d \in Orders PROVE OrderFit(d)'
    <2>1. OrderFit(d) /\ (order'[d] = "PAID" => order[d] = "PAID")
      BY DEF Fit
    <2> QED BY <2>1 DEF OrderFit, Others, Left, Before
  <1>4. ASSUME NEW d \in Bot PROVE BotFit(d)'
    <2>1. BotFit(d) /\ FlowFit(w)
      BY DEF Fit
    <2>2. CASE d = o
      <3>1. \A v \in Procs : task'[v].order = d =>
              /\ task'[v].pc = "finish" => d \in applied'
              /\ task'[v].pc \in Alone => order'[d] = "PROVISIONING"
        BY <2>1, <2>2 DEF BotFit, Others, Left, Alone, Before, Sent
      <3>2. \A v \in Procs : task'[v].order = d =>
              /\ task'[v].pc \in Working /\ d \in stale' => lock' = v
              /\ task'[v].flow = "recovery" => d \in stale'
        BY <2>1, <2>2 DEF BotFit, FlowFit, Others, Left, Keeps, Working, Alone, Before, Sent
      <3>3. \A v, u \in Procs : /\ task'[v].order = d /\ task'[v].pc \in Working
                                /\ task'[u].order = d /\ task'[u].pc \in Working
                                => v = u
        BY <2>1, <2>2 DEF BotFit, Others, Left, Keeps, Working, Alone, Before, Sent
      <3> QED BY <3>1, <3>2, <3>3, <2>1, <2>2 DEF BotFit
    <2>3. CASE d # o
      <3>1. order'[d] = order[d] /\ refunds'[d] = refunds[d] /\ (d \in applied' <=> d \in applied)
        BY <2>3 DEF Bot
      <3> QED BY <2>1, <2>3, <3>1
              DEF BotFit, FlowFit, Others, Left, Keeps, Working, Alone, Before, Sent
    <2> QED BY <2>2, <2>3
  <1> QED BY <1>1, <1>2, <1>3, <1>4 DEF Fit

(* A process starts with an order, with or without the lock.               *)
LEMMA StartsFit ==
    ASSUME Fit, NEW w \in Procs, Others(w), task[w].pc = "idle",
           UNCHANGED <<order, refunds, requests, applied, stale>>, batch' \subseteq batch,
           FlowFit(w)',
           \/ UNCHANGED lock /\ task'[w].pc \notin Held
           \/ lock = Free /\ lock' = w /\ task'[w].locked,
           \/ task'[w].pc \notin Sent \cup Working
           \/ task'[w].flow = "sync" /\ task'[w].order = NoOrder /\ task'[w].pc \notin Sent,
           task'[w].order \in batch \/ task'[w].flow # "recovery",
           task'[w].pc # "finish" \/ task'[w].order \in applied
    PROVE  Fit'
  <1>0. \A v \in Procs \ {w} : lock = v => lock' = v
    OBVIOUS
  <1>1. \A v \in Procs : LockFit(v)'
    <2>1. LockFit(w)'
      BY DEF LockFit, Held, Sent
    <2>2. \A v \in Procs \ {w} : LockFit(v)'
      BY <1>0 DEF Fit, LockFit, Others
    <2> QED BY <2>1, <2>2
  <1>2. \A v \in Procs : FlowFit(v)'
    BY DEF Fit, FlowFit, Others
  <1>3. \A o \in Orders : OrderFit(o)'
    BY DEF Fit, OrderFit, Others, Working, Alone
  <1>4. ASSUME NEW o \in Bot PROVE BotFit(o)'
    <2>1. BotFit(o) /\ o # NoOrder
      BY DEF Fit, Bot
    <2> QED BY <1>0, <2>1 DEF BotFit, Others, Working, Alone
  <1> QED BY <1>1, <1>2, <1>3, <1>4 DEF Fit

(* The data changes in a way that the processes do not notice.             *)
LEMMA WorldFit ==
    ASSUME Fit, UNCHANGED <<task, order, refunds, requests, applied, lock>>,
           \A o \in Orders : o \in stale' => \/ o \in stale
                                            \/ /\ order[o] # "PAID"
                                               /\ \A w \in Procs :
                                                     task[w].order = o /\ task[w].locked => lock = w,
           stale \subseteq stale', \A o \in batch' : o \in batch \/ o \in stale
    PROVE  Fit'
  <1>1. \A v \in Procs : LockFit(v)' /\ FlowFit(v)'
    BY DEF Fit, LockFit, FlowFit
  <1>2. \A o \in Orders : OrderFit(o)'
    BY DEF Fit, OrderFit
  <1>3. ASSUME NEW o \in Bot PROVE BotFit(o)'
    <2>1. BotFit(o) /\ o \in Orders /\ \A w \in Procs : LockFit(w)
      BY DEF Fit, Bot
    <2>2. \A w \in Procs : task[w].pc \in Working => task[w].locked
      BY <2>1 DEF LockFit, Working, Alone, Before, Held
    <2>3. o \in batch' => o \in stale'
      BY <2>1 DEF BotFit
    <2>4. \A w \in Procs : task[w].order = o /\ task[w].pc \in Working /\ o \in stale' => lock = w
      BY <2>1, <2>2 DEF BotFit
    <2> QED BY <2>1, <2>3, <2>4 DEF BotFit
  <1> QED BY <1>1, <1>2, <1>3 DEF Fit

LEMMA InitInv == Init => Inv
  <1> SUFFICES ASSUME Init PROVE Inv
    OBVIOUS
  <1> USE DEF Init
  <1>1. RowsOK
    BY InitialIsValue DEF RowsOK, OrderStatuses, NoIntent
  <1>2. RemoteOK
    BY InitialIsValue DEF RemoteOK
  <1>3. TasksOK
    BY IdleIsTask DEF TasksOK, IdleTask
  <1>4. RestOK
    BY DEF RestOK
  <1>6. GhostsOK
    BY DEF GhostsOK
  <1>5. Fit
    BY DEF Fit, LockFit, FlowFit, OrderFit, BotFit, IdleTask, Held, Sent, Before, Alone, Working, Bot, Procs
  <1> QED BY <1>1, <1>2, <1>3, <1>4, <1>5, <1>6, InvParts

-----------------------------------------------------------------------------
(* Every step keeps the invariant.                                         *)

LEMMA InvStep == Inv /\ [Next]_vars => Inv'
  <1> SUFFICES ASSUME Inv, [Next]_vars PROVE Inv'
    OBVIOUS
  <1>0. /\ RowsOK /\ RemoteOK /\ TasksOK /\ RestOK /\ GhostsOK /\ Fit
        /\ \A w \in Procs : LockFit(w) /\ FlowFit(w)
        /\ \A w \in Procs : task[w].pc # "idle" /\ task[w].flow # "sync" => task[w].order \in Orders
    BY InvParts DEF Fit, TasksOK
  <1> USE DEF At, Runs, OrderOf, rows, Quiet, remote, bounds, ghosts
  <1>1. ASSUME NEW w \in Procs, GiveUpLock(w) PROVE Inv'
    <2>1. RowsOK'
      BY <1>1, <1>0 DEF GiveUpLock, RowsOK
    <2>2. RemoteOK'
      BY <1>1, <1>0 DEF GiveUpLock, RemoteOK
    <2>3. RestOK'
      BY <1>1, <1>0 DEF GiveUpLock, RestOK
    <2>4. GhostsOK'
      BY <1>1, <1>0 DEF GiveUpLock, GhostsOK
    <2>5. TasksOK' /\ Others(w) /\ Left(w)
      BY <1>1, <1>0, LeaveHas DEF GiveUpLock, Steps
    <2>6. Fit'
      BY <1>1, <2>5, <1>0, LeavesFit DEF GiveUpLock, Data
    <2> QED BY <2>1, <2>2, <2>3, <2>4, <2>5, <2>6, InvPartsNext
  <1>2. ASSUME NEW w \in Procs, PanelRefuses(w) PROVE Inv'
    <2>1. RowsOK'
      BY <1>2, <1>0 DEF PanelRefuses, RowsOK
    <2>2. RemoteOK'
      BY <1>2, <1>0 DEF PanelRefuses, RemoteOK
    <2>3. RestOK'
      BY <1>2, <1>0 DEF PanelRefuses, RestOK
    <2>4. GhostsOK'
      BY <1>2, <1>0 DEF PanelRefuses, GhostsOK
    <2>5. TasksOK' /\ Others(w) /\ Keeps(w) /\ task'[w].pc \in {"refund"}
      BY <1>2, <1>0, GotoHas DEF PanelRefuses, Steps
    <2>6. Fit'
      <3>1. FlowFit(w)'
        BY <1>2, <2>5, <1>0 DEF PanelRefuses, FlowFit, Keeps, Sent
      <3> QED BY <1>2, <2>5, <3>1, <1>0, MovesFit DEF PanelRefuses, Data, Held, Sent, Before, Alone, Working
    <2> QED BY <2>1, <2>2, <2>3, <2>4, <2>5, <2>6, InvPartsNext
  <1>3. ASSUME NEW w \in Procs, ResetTraffic(w) PROVE Inv'
    <2>1. RowsOK'
      BY <1>3, <1>0 DEF ResetTraffic, RowsOK
    <2>2. RemoteOK'
      BY <1>3, <1>0 DEF ResetTraffic, RemoteOK, Values
    <2>3. RestOK'
      BY <1>3, <1>0 DEF ResetTraffic, RestOK
    <2>4. GhostsOK'
      BY <1>3, <1>0 DEF ResetTraffic, GhostsOK
    <2>5. TasksOK' /\ Others(w) /\ Keeps(w) /\ task'[w].pc \in {"send", "refund"}
      BY <1>3, <1>0, GotoHas DEF ResetTraffic, Steps
    <2>6. Fit'
      <3>1. FlowFit(w)'
        BY <1>3, <2>5, <1>0 DEF ResetTraffic, FlowFit, Keeps, Sent
      <3> QED BY <1>3, <2>5, <3>1, <1>0, MovesFit DEF ResetTraffic, Data, Held, Sent, Before, Alone, Working
    <2> QED BY <2>1, <2>2, <2>3, <2>4, <2>5, <2>6, InvPartsNext
  <1>4. ASSUME NEW w \in Procs, UpdateUnknown(w) PROVE Inv'
    <2>1. RowsOK'
      BY <1>4, <1>0 DEF UpdateUnknown, RowsOK
    <2>2. RemoteOK'
      BY <1>4, <1>0 DEF UpdateUnknown, RemoteOK
    <2>3. RestOK'
      BY <1>4, <1>0 DEF UpdateUnknown, RestOK
    <2>4. GhostsOK'
      <3>1. stray' \subseteq Orders
        BY <1>4, <1>0 DEF UpdateUnknown, GhostsOK, FlowFit, Sent
      <3>2. UNCHANGED <<unrecorded, guessed, blurred>>
        BY <1>4 DEF UpdateUnknown
      <3> QED BY <3>1, <3>2, <1>0 DEF GhostsOK
    <2>5. TasksOK' /\ Others(w) /\ Left(w)
      BY <1>4, <1>0, LeaveHas DEF UpdateUnknown, Steps
    <2>6. Fit'
      BY <1>4, <2>5, <1>0, LeavesFit DEF UpdateUnknown, Data
    <2> QED BY <2>1, <2>2, <2>3, <2>4, <2>5, <2>6, InvPartsNext
  <1>5. ASSUME NEW w \in Procs, PersistFails(w) PROVE Inv'
    <2>1. RowsOK'
      BY <1>5, <1>0 DEF PersistFails, RowsOK
    <2>2. RemoteOK'
      BY <1>5, <1>0 DEF PersistFails, RemoteOK
    <2>3. RestOK'
      BY <1>5, <1>0 DEF PersistFails, RestOK
    <2>4. GhostsOK'
      BY <1>5, <1>0 DEF PersistFails, GhostsOK
    <2>5. TasksOK' /\ Others(w) /\ (Left(w) \/ (Keeps(w) /\ task'[w].pc \in {"retry", "orphan"}))
      BY <1>5, <1>0, GotoHas, LeaveHas DEF PersistFails, Steps
    <2>6. Fit'
      <3>1. CASE Left(w)
        BY <1>5, <2>5, <3>1, <1>0, LeavesFit DEF PersistFails, Data
      <3>2. CASE Keeps(w) /\ task'[w].pc \in {"retry", "orphan"}
        <4>1. FlowFit(w)'
          BY <1>5, <3>2, <1>0 DEF PersistFails, FlowFit, Keeps, Sent
        <4> QED BY <1>5, <2>5, <3>2, <4>1, <1>0, MovesFit DEF PersistFails, Data, Held, Sent, Before, Alone, Working
      <3> QED BY <2>5, <3>1, <3>2
    <2> QED BY <2>1, <2>2, <2>3, <2>4, <2>5, <2>6, InvPartsNext
  <1>6. ASSUME NEW w \in Procs, ProbeRecovery(w) PROVE Inv'
    <2>1. RowsOK'
      BY <1>6, <1>0 DEF ProbeRecovery, RowsOK
    <2>2. RemoteOK'
      BY <1>6, <1>0 DEF ProbeRecovery, RemoteOK
    <2>3. RestOK'
      BY <1>6, <1>0 DEF ProbeRecovery, RestOK
    <2>4. GhostsOK'
      BY <1>6, <1>0 DEF ProbeRecovery, GhostsOK
    <2>5. TasksOK' /\ Others(w) /\ (Left(w) \/ (Keeps(w) /\ task'[w].pc \in {"adopt", "refund"}))
      BY <1>6, <1>0, GotoHas, LeaveHas, ReadHas DEF ProbeRecovery, Steps, RemoteOK
    <2>6. Fit'
      <3>1. CASE Left(w)
        BY <1>6, <2>5, <3>1, <1>0, LeavesFit DEF ProbeRecovery, Data
      <3>2. CASE Keeps(w) /\ task'[w].pc \in {"adopt", "refund"}
        <4>1. FlowFit(w)'
          BY <1>6, <3>2, <1>0 DEF ProbeRecovery, FlowFit, Keeps, Sent
        <4> QED BY <1>6, <2>5, <3>2, <4>1, <1>0, MovesFit DEF ProbeRecovery, Data, Held, Sent, Before, Alone, Working
      <3> QED BY <2>5, <3>1, <3>2
    <2> QED BY <2>1, <2>2, <2>3, <2>4, <2>5, <2>6, InvPartsNext
  <1>7. ASSUME NEW w \in Procs, ProbeReconciler(w) PROVE Inv'
    <2>1. RowsOK'
      BY <1>7, <1>0 DEF ProbeReconciler, RowsOK
    <2>2. RemoteOK'
      BY <1>7, <1>0 DEF ProbeReconciler, RemoteOK
    <2>3. RestOK'
      BY <1>7, <1>0 DEF ProbeReconciler, RestOK
    <2>4. GhostsOK'
      BY <1>7, <1>0 DEF ProbeReconciler, GhostsOK
    <2>5. TasksOK' /\ Others(w) /\ (Left(w) \/ (Keeps(w) /\ task'[w].pc \in {"adopt", "refund"}))
      BY <1>7, <1>0, GotoHas, LeaveHas, ReadHas DEF ProbeReconciler, Steps, RemoteOK
    <2>6. Fit'
      <3>1. CASE Left(w)
        BY <1>7, <2>5, <3>1, <1>0, LeavesFit DEF ProbeReconciler, Data
      <3>2. CASE Keeps(w) /\ task'[w].pc \in {"adopt", "refund"}
        <4>1. FlowFit(w)'
          BY <1>7, <3>2, <1>0 DEF ProbeReconciler, FlowFit, Keeps, Sent
        <4> QED BY <1>7, <2>5, <3>2, <4>1, <1>0, MovesFit DEF ProbeReconciler, Data, Held, Sent, Before, Alone, Working
      <3> QED BY <2>5, <3>1, <3>2
    <2> QED BY <2>1, <2>2, <2>3, <2>4, <2>5, <2>6, InvPartsNext
  <1>8. ASSUME NEW w \in Procs, SyncRead(w) PROVE Inv'
    <2>1. RowsOK'
      BY <1>8, <1>0 DEF SyncRead, RowsOK
    <2>2. RemoteOK'
      BY <1>8, <1>0 DEF SyncRead, RemoteOK
    <2>3. RestOK'
      BY <1>8, <1>0 DEF SyncRead, RestOK
    <2>4. GhostsOK'
      BY <1>8, <1>0 DEF SyncRead, GhostsOK
    <2>5. TasksOK' /\ Others(w) /\ (Left(w) \/ (Keeps(w) /\ task'[w].pc \in {"adopt"}))
      BY <1>8, <1>0, LeaveHas, ReadHas DEF SyncRead, Steps, RemoteOK
    <2>6. Fit'
      <3>1. CASE Left(w)
        BY <1>8, <2>5, <3>1, <1>0, LeavesFit DEF SyncRead, Data
      <3>2. CASE Keeps(w) /\ task'[w].pc \in {"adopt"}
        <4>1. FlowFit(w)'
          BY <1>8, <3>2, <1>0 DEF SyncRead, FlowFit, Keeps, Sent
        <4> QED BY <1>8, <2>5, <3>2, <4>1, <1>0, MovesFit DEF SyncRead, Data, Held, Sent, Before, Alone, Working
      <3> QED BY <2>5, <3>1, <3>2
    <2> QED BY <2>1, <2>2, <2>3, <2>4, <2>5, <2>6, InvPartsNext
  <1>9. ASSUME NEW w \in Procs, UpdateConfirmed(w) PROVE Inv'
    <2>1. RowsOK'
      BY <1>9, <1>0 DEF UpdateConfirmed, RowsOK
    <2>2. RemoteOK'
      BY <1>9, <1>0 DEF UpdateConfirmed, RemoteOK
    <2>3. RestOK'
      BY <1>9, <1>0 DEF UpdateConfirmed, RestOK
    <2>4. GhostsOK'
      BY <1>9, <1>0 DEF UpdateConfirmed, GhostsOK
    <2>5. TasksOK' /\ Others(w) /\ (Left(w) \/ (Keeps(w) /\ task'[w].pc = "persist"))
      <3>0. task[w].pc = "answer"
        BY <1>9 DEF UpdateConfirmed, At
      <3>1. CASE task[w].lost
        <4>1. Leave(w)
          BY <1>9, <3>1, <1>0 DEF UpdateConfirmed, Leave, TasksOK
        <4> QED BY <3>0, <4>1, <1>0, LeaveHas
      <3>2. CASE ~task[w].lost
        <4>1. task' = [task EXCEPT ![w] = [task[w] EXCEPT !.pc = "persist", !.seen = panel]]
          BY <1>9, <3>2, <1>0 DEF UpdateConfirmed, TasksOK
        <4>2. task' = [task EXCEPT ![w].pc = "persist", ![w].seen = panel]
          BY <4>1, <1>0 DEF TasksOK
        <4>3. panel \in Values /\ "persist" \in Steps
          BY <1>0 DEF RemoteOK, Steps
        <4> QED BY <3>0, <4>2, <4>3, <1>0, ReadHas
      <3> QED BY <3>1, <3>2
    <2>6. Fit'
      <3>1. CASE Left(w)
        BY <1>9, <2>5, <3>1, <1>0, LeavesFit DEF UpdateConfirmed, Data
      <3>2. CASE Keeps(w) /\ task'[w].pc = "persist"
        <4>1. FlowFit(w)'
          BY <1>9, <3>2, <1>0 DEF UpdateConfirmed, FlowFit, Keeps, Sent
        <4> QED BY <1>9, <2>5, <3>2, <4>1, <1>0, MovesFit DEF UpdateConfirmed, Data, Held, Sent, Before, Alone, Working
      <3> QED BY <2>5, <3>1, <3>2
    <2> QED BY <2>1, <2>2, <2>3, <2>4, <2>5, <2>6, InvPartsNext
  <1>10. ASSUME NEW w \in Procs, SyncWrite(w) PROVE Inv'
    <2>1. RowsOK'
      BY <1>10, <1>0 DEF SyncWrite, RowsOK, TasksOK, TaskRecord
    <2>2. RemoteOK'
      BY <1>10, <1>0 DEF SyncWrite, RemoteOK
    <2>3. RestOK'
      BY <1>10, <1>0 DEF SyncWrite, RestOK
    <2>4. GhostsOK'
      BY <1>10, <1>0 DEF SyncWrite, GhostsOK, Blurs
    <2>5. TasksOK' /\ Others(w) /\ Left(w)
      BY <1>10, <1>0, LeaveHas DEF SyncWrite, Steps
    <2>6. Fit'
      BY <1>10, <2>5, <1>0, LeavesFit DEF SyncWrite, Data
    <2> QED BY <2>1, <2>2, <2>3, <2>4, <2>5, <2>6, InvPartsNext
  <1>11. ASSUME NEW w \in Procs, Heartbeat(w) PROVE Inv'
    <2>1. RowsOK'
      BY <1>11, <1>0 DEF Heartbeat, RowsOK
    <2>2. RemoteOK'
      BY <1>11, <1>0 DEF Heartbeat, RemoteOK
    <2>3. RestOK'
      BY <1>11, <1>0 DEF Heartbeat, RestOK
    <2>4. GhostsOK'
      BY <1>11, <1>0 DEF Heartbeat, GhostsOK
    <2>5. TasksOK' /\ Others(w) /\ Keeps(w) /\ task'[w].pc = task[w].pc
      <3>1. task' = [task EXCEPT ![w].lost = TRUE] /\ task[w] \in TaskRecord
        BY <1>11, <1>0 DEF Heartbeat, TasksOK
      <3>2. Others(w) /\ Keeps(w) /\ task'[w].pc = task[w].pc
        BY <3>1, <1>0 DEF TasksOK, TaskRecord, Others, Keeps
      <3>3. task' \in [Procs -> TaskRecord]
        BY <3>1, <1>0 DEF TasksOK, TaskRecord
      <3> QED BY <3>2, <3>3, <1>0 DEF TasksOK, Others, Keeps
    <2>6. Fit'
      <3>1. FlowFit(w)'
        BY <2>5, <1>0 DEF FlowFit, Keeps
      <3> QED BY <1>11, <2>5, <3>1, <1>0, MovesFit DEF Heartbeat, Data
    <2> QED BY <2>1, <2>2, <2>3, <2>4, <2>5, <2>6, InvPartsNext
  <1>12. ASSUME NEW w \in Procs, NEW o \in Orders, Dispatch(w, o) PROVE Inv'
    <2>1. RowsOK'
      BY <1>12, <1>0 DEF Dispatch, RowsOK, Locked
    <2>2. RemoteOK'
      BY <1>12, <1>0 DEF Dispatch, RemoteOK, Locked
    <2>3. RestOK'
      BY <1>12, <1>0 DEF Dispatch, RestOK, Locked
    <2>4. GhostsOK'
      BY <1>12, <1>0 DEF Dispatch, GhostsOK, Locked
    <2>5. /\ TasksOK' /\ Others(w) /\ task'[w].pc = "body" /\ task'[w].flow = "pipeline"
          /\ task'[w].order = o /\ task'[w].locked = TRUE
      <3>1. task' = [task EXCEPT ![w] = Started("pipeline", o, "body")]
        BY <1>12, Zenon DEF Dispatch, Locked, Begin, Started, StartedUnlocked
      <3>2. "pipeline" \in Flows /\ "body" \in Steps
        BY DEF Flows, Steps
      <3> QED BY <3>1, <3>2, <1>0, StartHas
    <2>6. Fit'
      <3>1. FlowFit(w)'
        BY <1>12, <2>5 DEF Dispatch, FlowFit, Sent
      <3> QED BY <1>12, <2>5, <3>1, <1>0, StartsFit DEF Dispatch, Locked, Begin, Held, Sent, Before, Alone, Working
    <2> QED BY <2>1, <2>2, <2>3, <2>4, <2>5, <2>6, InvPartsNext
  <1>13. ASSUME NEW w \in Procs, NEW o \in Orders, FollowUpPaid(w, o) PROVE Inv'
    <2>1. RowsOK'
      BY <1>13, <1>0 DEF FollowUpPaid, RowsOK, Locked
    <2>2. RemoteOK'
      BY <1>13, <1>0 DEF FollowUpPaid, RemoteOK, Locked
    <2>3. RestOK'
      BY <1>13, <1>0 DEF FollowUpPaid, RestOK, Locked
    <2>4. GhostsOK'
      BY <1>13, <1>0 DEF FollowUpPaid, GhostsOK, Locked
    <2>5. /\ TasksOK' /\ Others(w) /\ task'[w].pc = "body" /\ task'[w].flow = "executor"
          /\ task'[w].order = o /\ task'[w].locked = TRUE
      <3>1. task' = [task EXCEPT ![w] = Started("executor", o, "body")]
        BY <1>13, Zenon DEF FollowUpPaid, Locked, Begin, Started, StartedUnlocked
      <3>2. "executor" \in Flows /\ "body" \in Steps
        BY DEF Flows, Steps
      <3> QED BY <3>1, <3>2, <1>0, StartHas
    <2>6. Fit'
      <3>1. FlowFit(w)'
        BY <1>13, <2>5 DEF FollowUpPaid, FlowFit, Sent
      <3> QED BY <1>13, <2>5, <3>1, <1>0, StartsFit DEF FollowUpPaid, Locked, Begin, Held, Sent, Before, Alone, Working
    <2> QED BY <2>1, <2>2, <2>3, <2>4, <2>5, <2>6, InvPartsNext
  <1>14. ASSUME NEW w \in Procs, NEW o \in Orders, FollowUpProvisioning(w, o) PROVE Inv'
    <2>1. RowsOK'
      BY <1>14, <1>0 DEF FollowUpProvisioning, RowsOK, Locked
    <2>2. RemoteOK'
      BY <1>14, <1>0 DEF FollowUpProvisioning, RemoteOK, Locked
    <2>3. RestOK'
      BY <1>14, <1>0 DEF FollowUpProvisioning, RestOK, Locked
    <2>4. GhostsOK'
      BY <1>14, <1>0 DEF FollowUpProvisioning, GhostsOK, Locked
    <2>5. /\ TasksOK' /\ Others(w) /\ task'[w].pc = "lock" /\ task'[w].flow = "reconciler"
          /\ task'[w].order = o /\ task'[w].locked = FALSE
      <3>1. task' = [task EXCEPT ![w] = StartedUnlocked("reconciler", o, "lock")]
        BY <1>14, Zenon DEF FollowUpProvisioning, Locked, Begin, Started, StartedUnlocked
      <3>2. "reconciler" \in Flows /\ "lock" \in Steps
        BY DEF Flows, Steps
      <3> QED BY <3>1, <3>2, <1>0, StartHas
    <2>6. Fit'
      <3>1. FlowFit(w)'
        BY <1>14, <2>5 DEF FollowUpProvisioning, FlowFit, Sent
      <3> QED BY <1>14, <2>5, <3>1, <1>0, StartsFit DEF FollowUpProvisioning, Locked, Begin, Held, Sent, Before, Alone, Working
    <2> QED BY <2>1, <2>2, <2>3, <2>4, <2>5, <2>6, InvPartsNext
  <1>15. ASSUME NEW w \in Procs, OpenPage(w) PROVE Inv'
    <2>1. RowsOK'
      BY <1>15, <1>0 DEF OpenPage, RowsOK, Locked
    <2>2. RemoteOK'
      BY <1>15, <1>0 DEF OpenPage, RemoteOK, Locked
    <2>3. RestOK'
      BY <1>15, <1>0 DEF OpenPage, RestOK, Locked
    <2>4. GhostsOK'
      BY <1>15, <1>0 DEF OpenPage, GhostsOK, Locked
    <2>5. /\ TasksOK' /\ Others(w) /\ task'[w].pc = "probe" /\ task'[w].flow = "sync"
          /\ task'[w].order = NoOrder /\ task'[w].locked = TRUE
      <3>1. task' = [task EXCEPT ![w] = Started("sync", NoOrder, "probe")]
        BY <1>15, Zenon DEF OpenPage, Locked, Begin, Started, StartedUnlocked
      <3>2. "sync" \in Flows /\ "probe" \in Steps
        BY DEF Flows, Steps
      <3> QED BY <3>1, <3>2, <1>0, StartHas
    <2>6. Fit'
      <3>1. FlowFit(w)'
        BY <1>15, <2>5 DEF OpenPage, FlowFit, Sent
      <3> QED BY <1>15, <2>5, <3>1, <1>0, StartsFit DEF OpenPage, Locked, Begin, Held, Sent, Before, Alone, Working
    <2> QED BY <2>1, <2>2, <2>3, <2>4, <2>5, <2>6, InvPartsNext
  <1>16. ASSUME NEW w \in Procs, Finish(w) PROVE Inv'
    <2>0. PICK o \in Orders : o = task[w].order
      BY <1>16, <1>0 DEF Finish, FlowFit, Sent
    <2>1. RowsOK' /\ order' \in [Orders -> OrderStatuses] /\ \A d \in Orders \ {o} : order'[d] = order[d]
      BY <1>16, <2>0, <1>0, FlipHas DEF Finish, CompleteOrder, RowsOK, OrderStatuses
    <2>2. RemoteOK' /\ RestOK'
      BY <1>16, <1>0 DEF Finish, RemoteOK, RestOK
    <2>3. GhostsOK'
      BY <1>16, <1>0 DEF Finish, GhostsOK
    <2>5. TasksOK' /\ Others(w) /\ Left(w)
      BY <1>16, <1>0, LeaveHas DEF Finish
    <2>6. Fit'
      <3>1. /\ UNCHANGED <<refunds, applied, requests, stale, lock, batch>>
            /\ order'[o] = "PAID" => order[o] = "PAID"
            /\ order'[o] # order[o] => order'[o] = "COMPLETED"
        BY <1>16, <2>0, <1>0, FlipHas DEF Finish, CompleteOrder, OrderStatuses, RowsOK
      <3>2. o \in Bot => order[o] = "COMPLETED" /\ order'[o] = "COMPLETED" /\ BotFit(o)
        <4> SUFFICES ASSUME o \in Bot PROVE order[o] = "COMPLETED" /\ order'[o] = "COMPLETED" /\ BotFit(o)
          OBVIOUS
        <4>1. BotFit(o)
          BY <1>0 DEF Fit
        <4>2. order[o] = "COMPLETED"
          BY <4>1, <1>16, <2>0 DEF BotFit, Finish
        <4> QED BY <3>1, <4>1, <4>2
      <3> QED BY <1>16, <2>0, <2>1, <2>5, <3>1, <3>2, <1>0, SettlesFit DEF Finish, BotFit
    <2> QED BY <2>1, <2>2, <2>3, <2>5, <2>6, InvPartsNext
  <1>17. ASSUME NEW w \in Procs, Persist(w) PROVE Inv'
    <2>0. PICK o \in Orders : o = task[w].order
      BY <1>17, <1>0 DEF Persist, FlowFit, Sent
    <2>1. RowsOK' /\ order' \in [Orders -> OrderStatuses] /\ \A d \in Orders \ {o} : order'[d] = order[d]
      <3>1. row' = task[w].seen /\ task[w].seen \in Values /\ UNCHANGED <<refunds, intent>>
        BY <1>17, <1>0 DEF Persist, PersistApplied, PersistAppApplied, TasksOK, TaskRecord
      <3>2. applied' \subseteq Orders /\ appApplied' \subseteq Orders
        BY <1>17, <2>0, <1>0 DEF Persist, PersistApplied, PersistAppApplied, RowsOK
      <3>3. order' = Flip(o, {"PROVISIONING"}, "COMPLETED")
        BY <1>17, <2>0 DEF Persist, PersistApplied, PersistAppApplied
      <3> QED BY <3>1, <3>2, <3>3, <1>0, FlipHas DEF RowsOK, OrderStatuses
    <2>2. RemoteOK' /\ RestOK'
      BY <1>17, <1>0 DEF Persist, RemoteOK, RestOK
    <2>3. GhostsOK'
      BY <1>17, <1>0 DEF Persist, GhostsOK
    <2>5. TasksOK' /\ Others(w) /\ Left(w)
      BY <1>17, <1>0, LeaveHas DEF Persist
    <2>6. Fit'
      <3>1. /\ UNCHANGED <<refunds, requests, stale, lock, batch>>
            /\ order'[o] = IF order[o] = "PROVISIONING" THEN "COMPLETED" ELSE order[o]
            /\ applied' = applied \/ applied' = applied \cup {o}
        BY <1>17, <2>0, <1>0, FlipHas DEF Persist, PersistApplied, PersistAppApplied, OrderStatuses
      <3>2. o \in Bot => /\ order[o] = "PROVISIONING" /\ refunds[o] = 0
                         /\ \A v \in Procs \ {w} : task[v].order = o => task[v].pc \notin Alone
        <4> SUFFICES ASSUME o \in Bot
                     PROVE  /\ order[o] = "PROVISIONING" /\ refunds[o] = 0
                            /\ \A v \in Procs \ {w} : task[v].order = o => task[v].pc \notin Alone
          OBVIOUS
        <4>1. BotFit(o)
          BY <1>0 DEF Fit
        <4>2. task[w].pc \in Alone /\ task[w].pc \in Working
          BY <1>17 DEF Persist, Alone, Working, Sent
        <4> QED BY <4>1, <4>2, <2>0 DEF BotFit, Working
      <3> QED BY <1>17, <2>0, <2>1, <2>5, <3>1, <3>2, <1>0, SettlesFit DEF Persist
    <2> QED BY <2>1, <2>2, <2>3, <2>5, <2>6, InvPartsNext
  <1>18. ASSUME NEW w \in Procs, Refund(w) PROVE Inv'
    <2>0. PICK o \in Orders : o = task[w].order
      BY <1>18, <1>0 DEF Refund, FlowFit, Sent
    <2>1. RowsOK' /\ order' \in [Orders -> OrderStatuses] /\ \A d \in Orders \ {o} : order'[d] = order[d]
      BY <1>18, <2>0, <1>0, FlipHas DEF Refund, FailOrderWithRefund, RowsOK, OrderStatuses
    <2>2. RemoteOK' /\ RestOK'
      BY <1>18, <1>0 DEF Refund, RemoteOK, RestOK
    <2>3. GhostsOK'
      <3>1. unrecorded' \subseteq Orders
        BY <1>18, <2>0, <1>0 DEF Refund, GhostsOK
      <3>2. UNCHANGED <<stray, guessed, blurred>>
        BY <1>18 DEF Refund
      <3> QED BY <3>1, <3>2, <1>0 DEF GhostsOK
    <2>5. TasksOK' /\ Others(w) /\ Left(w)
      BY <1>18, <1>0, LeaveHas DEF Refund
    <2>6. Fit'
      <3>1. /\ UNCHANGED <<applied, requests, stale, lock, batch>>
            /\ order'[o] = IF order[o] \in {"PAID", "PROVISIONING"} THEN "FAILED" ELSE order[o]
            /\ refunds'[o] = IF order[o] \in {"PAID", "PROVISIONING"} /\ refunds[o] = 0
                             THEN refunds[o] + 1 ELSE refunds[o]
            /\ \A d \in Orders \ {o} : refunds'[d] = refunds[d]
        BY <1>18, <2>0, <1>0, FlipHas DEF Refund, FailOrderWithRefund, OrderStatuses, RowsOK
      <3>2. ASSUME o \in Bot
            PROVE  /\ \A v \in Procs \ {w} : task[v].order = o => task[v].pc \notin Alone
                   /\ BotFit(o)
        <4>1. BotFit(o)
          BY <3>2, <1>0 DEF Fit
        <4>2. task[w].pc \in Working
          BY <1>18 DEF Refund, Alone, Working, Sent
        <4> QED BY <4>1, <4>2, <2>0 DEF BotFit, Working
      <3>3. ASSUME o \in Bot
            PROVE  /\ order'[o] = "COMPLETED" => refunds'[o] = 0
                   /\ order'[o] = "FAILED" => refunds'[o] = 1
                   /\ order'[o] \in {"PAID", "PROVISIONING"} => refunds'[o] = 0
                   /\ o \in applied' => order'[o] = "COMPLETED"
        <4>1. BotFit(o)
          BY <3>2, <3>3
        <4> QED BY <4>1, <3>1 DEF BotFit
      <3>4. order'[o] = "PAID" => order[o] = "PAID"
        BY <3>1
      <3> QED BY <1>18, <2>0, <2>1, <2>5, <3>1, <3>2, <3>3, <3>4, <1>0, SettlesFit DEF Refund
    <2> QED BY <2>1, <2>2, <2>3, <2>5, <2>6, InvPartsNext
  <1>19. ASSUME NEW w \in Procs, Adopt(w) PROVE Inv'
    <2>0. PICK o \in Orders : o = task[w].order
      BY <1>19, <1>0 DEF Adopt, FlowFit, Sent
    <2>1. RowsOK' /\ order' \in [Orders -> OrderStatuses] /\ \A d \in Orders \ {o} : order'[d] = order[d]
      <3>1. task[w].seen \in Values /\ UNCHANGED <<refunds, intent>>
        BY <1>19, <1>0 DEF Adopt, PersistApplied, PersistAppApplied, TasksOK, TaskRecord
      <3>2. /\ applied' \subseteq Orders /\ appApplied' \subseteq Orders
            /\ row' = row \/ row' = task[w].seen
        BY <1>19, <2>0, <1>0 DEF Adopt, PersistApplied, PersistAppApplied, RowsOK
      <3>3. order' = order \/ order' = Flip(o, {"PROVISIONING"}, "COMPLETED")
            \/ order' = Flip(o, OrderStatuses, "COMPLETED")
        BY <1>19, <2>0 DEF Adopt, PersistApplied, PersistAppApplied
      <3> QED BY <3>1, <3>2, <3>3, <1>0, FlipHas DEF RowsOK, OrderStatuses
    <2>2. RemoteOK' /\ RestOK'
      BY <1>19, <1>0 DEF Adopt, RemoteOK, RestOK
    <2>3. GhostsOK'
      <3>1. stray' = stray /\ unrecorded' = unrecorded /\ guessed' \subseteq Orders
        BY <1>19, <2>0, <1>0 DEF Adopt, GhostsOK
      <3>2. blurred' \in BOOLEAN
        <4>1. blurred' = blurred \/ blurred' = (blurred \/ Blurs(task[w].seen, Orders \ {task[w].order}))
          BY <1>19, Zenon DEF Adopt
        <4>2. (blurred \/ Blurs(task[w].seen, Orders \ {task[w].order})) \in BOOLEAN
          OBVIOUS
        <4> QED BY <4>1, <4>2, <1>0 DEF GhostsOK
      <3> QED BY <3>1, <3>2, <1>0 DEF GhostsOK
    <2>5. TasksOK' /\ Others(w) /\ Left(w)
      BY <1>19, <1>0, LeaveHas DEF Adopt
    <2>6. Fit'
      <3>1. /\ UNCHANGED <<refunds, requests, stale, lock, batch>>
            /\ order'[o] = "PAID" => order[o] = "PAID"
            /\ applied' = applied \/ applied' = applied \cup {o}
        BY <1>19, <2>0, <1>0, FlipHas DEF Adopt, PersistApplied, PersistAppApplied, OrderStatuses
      <3>2. ASSUME o \in Bot
            PROVE  /\ order[o] = "PROVISIONING" /\ refunds[o] = 0 /\ BotFit(o)
                   /\ \A v \in Procs \ {w} : task[v].order = o => task[v].pc \notin Alone
        <4>1. BotFit(o)
          BY <3>2, <1>0 DEF Fit
        <4>2. task[w].pc \in Alone /\ task[w].pc \in Working
          BY <1>19 DEF Adopt, Alone, Working, Sent
        <4> QED BY <4>1, <4>2, <2>0 DEF BotFit, Working
      <3>3. ASSUME o \in Bot
            PROVE \/ order'[o] = "COMPLETED"
                  \/ order'[o] = order[o] /\ applied' = applied
        <4>1. ~Runs(w, "reconciler")
          BY <3>3, <2>0, <1>0 DEF FlowFit, Bot
        <4> QED BY <4>1, <3>2, <3>3, <1>19, <2>0, <1>0, FlipHas
                DEF Adopt, PersistApplied, OrderStatuses
      <3>4. ASSUME o \in Bot
            PROVE  /\ order'[o] = "COMPLETED" => refunds'[o] = 0
                   /\ order'[o] = "FAILED" => refunds'[o] = 1
                   /\ order'[o] \in {"PAID", "PROVISIONING"} => refunds'[o] = 0
                   /\ o \in applied' => order'[o] = "COMPLETED"
        BY <3>1, <3>2, <3>3, <3>4 DEF BotFit
      <3> QED BY <1>19, <2>0, <2>1, <2>5, <3>1, <3>2, <3>4, <1>0, SettlesFit DEF Adopt
    <2> QED BY <2>1, <2>2, <2>3, <2>5, <2>6, InvPartsNext
  <1>20. ASSUME NEW w \in Procs, AcquireLock(w) PROVE Inv'
    <2>1. RowsOK'
      BY <1>20, <1>0 DEF AcquireLock, RowsOK
    <2>2. RemoteOK'
      BY <1>20, <1>0 DEF AcquireLock, RemoteOK
    <2>3. RestOK'
      BY <1>20, <1>0 DEF AcquireLock, RestOK
    <2>4. GhostsOK'
      BY <1>20, <1>0 DEF AcquireLock, GhostsOK
    <2>5. /\ TasksOK' /\ Others(w) /\ task'[w].pc = "probe" /\ task'[w].locked
          /\ task'[w].order = task[w].order /\ task'[w].flow = task[w].flow
      <3>1. PICK r \in TaskRecord : r = task[w]
        BY <1>0 DEF TasksOK
      <3>2. PICK t : t = [r EXCEPT !.locked = TRUE, !.pc = "probe"]
        OBVIOUS
      <3>3. t \in TaskRecord /\ t.pc = "probe" /\ t.locked /\ t.order = r.order /\ t.flow = r.flow
        BY <3>2 DEF TaskRecord, Steps
      <3>4. task' = [task EXCEPT ![w] = t]
        BY <1>20, <3>1, <3>2, <1>0 DEF AcquireLock, TasksOK
      <3> QED BY <1>20, <3>1, <3>3, <3>4, <1>0 DEF AcquireLock, TasksOK, Others
    <2>6. Fit'
      <3>0. task[w].flow = "reconciler" /\ task[w].order \in MiniApp
        BY <1>20, <1>0 DEF AcquireLock, FlowFit
      <3>4. \A v \in Procs \ {w} : lock # v
        BY <1>20 DEF AcquireLock
      <3>5. LockFit(w)' /\ FlowFit(w)'
        BY <1>20, <2>5, <3>0, <1>0 DEF AcquireLock, LockFit, FlowFit, Held, Sent
      <3>6. \A v \in Procs \ {w} : LockFit(v)'
        BY <2>5, <3>4, <1>0 DEF LockFit, Others
      <3>7. \A v \in Procs \ {w} : FlowFit(v)'
        BY <2>5, <1>0 DEF FlowFit, Others
      <3>1. \A v \in Procs : LockFit(v)' /\ FlowFit(v)'
        BY <3>5, <3>6, <3>7
      <3>2. \A o \in Orders : OrderFit(o)'
        <4>1. UNCHANGED <<order, requests, stale>>
          BY <1>20 DEF AcquireLock
        <4> QED BY <2>5, <4>1, <1>0 DEF Fit, OrderFit, Others, Before
      <3>3. ASSUME NEW o \in Bot PROVE BotFit(o)'
        <4>1. BotFit(o) /\ o # task[w].order
          BY <3>0, <1>0 DEF Fit, Bot
        <4>2. UNCHANGED <<order, refunds, applied, stale, batch>>
          BY <1>20 DEF AcquireLock
        <4>3. \A v \in Procs : task'[v].order = o => v # w /\ task'[v] = task[v]
          BY <2>5, <4>1 DEF Others
        <4>4. \A v \in Procs : lock # v
          BY <1>20 DEF AcquireLock
        <4> QED BY <4>1, <4>2, <4>3, <4>4 DEF BotFit
      <3> QED BY <3>1, <3>2, <3>3 DEF Fit
    <2> QED BY <2>1, <2>2, <2>3, <2>4, <2>5, <2>6, InvPartsNext
  <1>21. ASSUME NEW w \in Procs, ReleaseLock(w) PROVE Inv'
    <2>1. RowsOK'
      BY <1>21, <1>0 DEF ReleaseLock, RowsOK
    <2>2. RemoteOK'
      BY <1>21, <1>0 DEF ReleaseLock, RemoteOK
    <2>3. RestOK'
      BY <1>21, <1>0 DEF ReleaseLock, RestOK
    <2>4. GhostsOK'
      BY <1>21, <1>0 DEF ReleaseLock, GhostsOK
    <2>5. TasksOK' /\ Others(w) /\ task'[w].pc = "idle" /\ task'[w].flow = "none"
      BY <1>21, <1>0, IdleIsTask DEF ReleaseLock, TasksOK, Others, IdleTask
    <2>6. Fit'
      <3>1. \A v \in Procs : LockFit(v)'
        BY <1>21, <2>5, <1>0 DEF ReleaseLock, LockFit, Others, Held, Sent
      <3>2. \A v \in Procs : FlowFit(v)'
        BY <2>5, <1>0 DEF FlowFit, Others, Sent
      <3>3. \A o \in Orders : OrderFit(o)'
        BY <1>21, <2>5, <1>0 DEF ReleaseLock, Fit, OrderFit, Others, Before
      <3>4. ASSUME NEW o \in Bot PROVE BotFit(o)'
        <4>1. BotFit(o)
          BY <1>0 DEF Fit
        <4>2. \A v \in Procs \ {w} : lock = v => lock' = v
          BY <1>21 DEF ReleaseLock
        <4> QED BY <1>21, <2>5, <4>1, <4>2
                DEF ReleaseLock, BotFit, Others, Alone, Working, Before, Sent
      <3> QED BY <3>1, <3>2, <3>3, <3>4 DEF Fit
    <2> QED BY <2>1, <2>2, <2>3, <2>4, <2>5, <2>6, InvPartsNext
  <1>22. ASSUME NEW w \in Procs, PipelineBody(w) PROVE Inv'
    <2>1. RowsOK'
      BY <1>22, <1>0 DEF PipelineBody, RowsOK
    <2>2. RemoteOK'
      BY <1>22, <1>0 DEF PipelineBody, RemoteOK
    <2>3. RestOK'
      BY <1>22, <1>0 DEF PipelineBody, RestOK
    <2>4. GhostsOK'
      BY <1>22, <1>0 DEF PipelineBody, GhostsOK
    <2>0. PICK o \in Orders : o = task[w].order
      BY <1>22, <1>0 DEF PipelineBody
    <2>7. /\ UNCHANGED Data /\ task[w].pc = "body" /\ task[w].flow = "pipeline" /\ lock = w
          /\ task[w].locked
      BY <1>22, <1>0 DEF PipelineBody, Data, LockFit, Held
    <2>5. /\ TasksOK' /\ Others(w)
          /\ \/ Left(w)
             \/ /\ Keeps(w) /\ task'[w].pc = "finish"
                /\ o \in applied /\ order[o] # "COMPLETED"
             \/ /\ Keeps(w) /\ task'[w].pc \in {"claim", "refund"}
                /\ order[o] = "PAID"
      <3>1. row \in Values
        BY <1>0 DEF RowsOK
      <3> QED BY <1>22, <2>0, <3>1, <1>0, GotoHas, LeaveHas, ReadHas DEF PipelineBody, Steps
    <2>6. Fit'
      <3>1. CASE Left(w)
        BY <2>5, <2>7, <3>1, <1>0, LeavesFit
      <3>2. CASE Keeps(w) /\ task'[w].pc \in {"finish", "claim", "refund"}
        <4>2. \A v \in Procs : LockFit(v)' /\ FlowFit(v)'
          <5>1. LockFit(w)'
            BY <2>7, <3>2 DEF LockFit, Keeps, Data, Sent
          <5>2. FlowFit(w)'
            BY <2>7, <3>2, <1>0 DEF FlowFit, Keeps, Sent
          <5>3. UNCHANGED lock
            BY <2>7 DEF Data
          <5> QED BY <2>5, <5>1, <5>2, <5>3, <1>0, SameLocks
        <4>3. \A d \in Orders : OrderFit(d)'
          BY <2>5, <2>7, <3>2, <1>0 DEF Fit, OrderFit, Others, Keeps, Data, Before
        <4>4. ASSUME NEW d \in Bot PROVE BotFit(d)'
          <5>1. BotFit(d) /\ OrderFit(d)
            BY <1>0 DEF Fit, Bot
          <5>2. CASE d # o
            BY <5>1, <5>2, <2>0, <2>5, <2>7, <3>2 DEF BotFit, Others, Keeps, Data
          <5>3. CASE d = o
            <6>1. task'[w].pc # "finish" /\ order[o] = "PAID"
              BY <5>1, <5>3, <2>5, <3>2, <2>7 DEF BotFit, Left, Keeps
            <6>2. \A v \in Procs \ {w} : task[v].order = d => task[v].pc \notin Working
              BY <5>1, <5>3, <6>1, <2>7, <1>0 DEF BotFit, LockFit, Working, Held
            <6> QED BY <5>1, <5>3, <6>1, <6>2, <2>0, <2>5, <2>7, <3>2
                    DEF BotFit, OrderFit, Others, Keeps, Data, Working, Alone, Before, Sent
          <5> QED BY <5>2, <5>3
        <4> QED BY <4>2, <4>3, <4>4 DEF Fit
      <3> QED BY <2>5, <3>1, <3>2
    <2> QED BY <2>1, <2>2, <2>3, <2>4, <2>5, <2>6, InvPartsNext
  <1>23. ASSUME NEW w \in Procs, ExecutorBody(w) PROVE Inv'
    <2>1. RowsOK'
      BY <1>23, <1>0 DEF ExecutorBody, RowsOK
    <2>2. RemoteOK'
      BY <1>23, <1>0 DEF ExecutorBody, RemoteOK
    <2>3. RestOK'
      BY <1>23, <1>0 DEF ExecutorBody, RestOK
    <2>4. GhostsOK'
      BY <1>23, <1>0 DEF ExecutorBody, GhostsOK
    <2>0. PICK o \in Orders : o = task[w].order /\ o \in MiniApp
      BY <1>23, <1>0 DEF ExecutorBody, FlowFit
    <2>7. /\ UNCHANGED Data /\ task[w].pc = "body" /\ task[w].flow = "executor" /\ lock = w
          /\ task[w].locked
      BY <1>23, <1>0 DEF ExecutorBody, Data, LockFit, Held
    <2>5. /\ TasksOK' /\ Others(w)
          /\ Left(w) \/ (Keeps(w) /\ task'[w].pc \in {"claim", "refund"})
      <3>1. CASE o \in appApplied \/ order[o] # "PAID"
        BY <1>23, <3>1, <2>0, <1>0, LeaveHas DEF ExecutorBody
      <3>2. CASE ~(o \in appApplied \/ order[o] # "PAID")
        <4>1. PICK v \in Values : v = Target(o, row, today)
          BY <1>0, TargetType DEF RowsOK, RestOK
        <4>2. PICK pc \in {"claim", "refund"} :
                task' = [task EXCEPT ![w].pc = pc, ![w].seen = row, ![w].target = v]
          BY <1>23, <3>2, <4>1, <2>0, Zenon DEF ExecutorBody
        <4>6. PICK r \in TaskRecord, x \in Values : r = task[w] /\ x = row
          BY <1>0 DEF TasksOK, RowsOK
        <4>3. PICK t : t = [r EXCEPT !.pc = pc, !.seen = x, !.target = v]
          OBVIOUS
        <4>4. /\ t \in TaskRecord /\ t.pc = pc /\ t.order = r.order /\ t.flow = r.flow
              /\ t.locked = r.locked
          BY <4>3 DEF TaskRecord, Steps
        <4>5. task' = [task EXCEPT ![w] = t]
          BY <4>2, <4>3, <4>6, <1>0 DEF TasksOK
        <4> QED BY <4>6, <4>4, <4>5, <2>7, <1>0 DEF TasksOK, Others, Keeps
      <3> QED BY <3>1, <3>2
    <2>6. Fit'
      <3>1. CASE Left(w)
        BY <2>5, <2>7, <3>1, <1>0, LeavesFit
      <3>2. CASE Keeps(w) /\ task'[w].pc \in {"claim", "refund"}
        <4>2. \A v \in Procs : LockFit(v)' /\ FlowFit(v)'
          <5>1. LockFit(w)'
            BY <2>7, <3>2 DEF LockFit, Keeps, Data, Sent
          <5>2. FlowFit(w)'
            BY <2>7, <3>2, <1>0 DEF FlowFit, Keeps, Sent
          <5>3. UNCHANGED lock
            BY <2>7 DEF Data
          <5> QED BY <2>5, <5>1, <5>2, <5>3, <1>0, SameLocks
        <4>3. \A d \in Orders : OrderFit(d)'
          BY <2>5, <2>7, <3>2, <1>0 DEF Fit, OrderFit, Others, Keeps, Data, Before
        <4>4. ASSUME NEW d \in Bot PROVE BotFit(d)'
          <5>1. BotFit(d) /\ d # o
            BY <2>0, <1>0 DEF Fit, Bot
          <5> QED BY <5>1, <2>0, <2>5, <2>7, <3>2 DEF BotFit, Others, Keeps, Data
        <4> QED BY <4>2, <4>3, <4>4 DEF Fit
      <3> QED BY <2>5, <3>1, <3>2
    <2> QED BY <2>1, <2>2, <2>3, <2>4, <2>5, <2>6, InvPartsNext
  <1>24. ASSUME NEW w \in Procs, RecoveryBody(w) PROVE Inv'
    <2>1. RowsOK'
      BY <1>24, <1>0 DEF RecoveryBody, RowsOK
    <2>2. RemoteOK'
      BY <1>24, <1>0 DEF RecoveryBody, RemoteOK
    <2>3. RestOK'
      BY <1>24, <1>0 DEF RecoveryBody, RestOK
    <2>4. GhostsOK'
      BY <1>24, <1>0 DEF RecoveryBody, GhostsOK
    <2>0. PICK o \in Orders : o = task[w].order
      BY <1>24, <1>0 DEF RecoveryBody
    <2>7. /\ UNCHANGED Data /\ task[w].pc = "body" /\ task[w].flow = "recovery" /\ lock = w
          /\ task[w].locked
      BY <1>24, <1>0 DEF RecoveryBody, Data, LockFit, Held
    <2>5. /\ TasksOK' /\ Others(w)
          /\ \/ Left(w)
             \/ Keeps(w) /\ task'[w].pc = "finish" /\ o \in applied
             \/ Keeps(w) /\ task'[w].pc = "probe" /\ order[o] = "PROVISIONING"
      BY <1>24, <2>0, <1>0, GotoHas, LeaveHas DEF RecoveryBody, Steps
    <2>6. Fit'
      <3>1. CASE Left(w)
        BY <2>5, <2>7, <3>1, <1>0, LeavesFit
      <3>2. CASE Keeps(w) /\ task'[w].pc \in {"finish", "probe"}
        <4>2. \A v \in Procs : LockFit(v)' /\ FlowFit(v)'
          <5>1. LockFit(w)'
            BY <2>7, <3>2 DEF LockFit, Keeps, Data, Sent
          <5>2. FlowFit(w)'
            BY <2>7, <3>2, <1>0 DEF FlowFit, Keeps, Sent
          <5>3. UNCHANGED lock
            BY <2>7 DEF Data
          <5> QED BY <2>5, <5>1, <5>2, <5>3, <1>0, SameLocks
        <4>3. \A d \in Orders : OrderFit(d)'
          BY <2>5, <2>7, <3>2, <1>0 DEF Fit, OrderFit, Others, Keeps, Data, Before
        <4>4. ASSUME NEW d \in Bot PROVE BotFit(d)'
          <5>1. BotFit(d)
            BY <1>0 DEF Fit
          <5>2. CASE d # o
            BY <5>1, <5>2, <2>0, <2>5, <2>7, <3>2 DEF BotFit, Others, Keeps, Data
          <5>3. CASE d = o
            <6>1. o \in stale
              BY <5>1, <5>3, <2>0, <2>7 DEF BotFit
            <6>2. \A v \in Procs \ {w} : task[v].order = d => task[v].pc \notin Working
              BY <5>1, <5>3, <6>1, <2>7 DEF BotFit
            <6>3. \/ task'[w].pc = "finish" /\ o \in applied
                  \/ task'[w].pc = "probe" /\ order[o] = "PROVISIONING"
              BY <2>5, <3>2 DEF Left
            <6> QED BY <5>1, <5>3, <6>1, <6>2, <6>3, <2>0, <2>5, <2>7, <3>2
                    DEF BotFit, Others, Keeps, Data, Working, Alone, Before, Sent
          <5> QED BY <5>2, <5>3
        <4> QED BY <4>2, <4>3, <4>4 DEF Fit
      <3> QED BY <2>5, <3>1, <3>2
    <2> QED BY <2>1, <2>2, <2>3, <2>4, <2>5, <2>6, InvPartsNext
  <1>25. ASSUME NEW w \in Procs, Claim(w) PROVE Inv'
    <2>0. PICK o \in Orders : o = task[w].order
      BY <1>25, <1>0 DEF Claim, FlowFit
    <2>7. /\ UNCHANGED <<refunds, requests, applied, stale, lock, batch>> /\ task[w].pc = "claim"
          /\ lock = w /\ task[w].locked /\ task[w].flow \in {"pipeline", "executor"}
      BY <1>25, <1>0 DEF Claim, LockFit, FlowFit, Held
    <2>8. PICK v \in Values : v = IF Runs(w, "pipeline") THEN Target(o, task[w].seen, today)
                                  ELSE task[w].target
      BY <1>0, TargetType DEF TasksOK, TaskRecord, RestOK
    <2>9. /\ order' \in [Orders -> OrderStatuses]
          /\ order'[o] = IF order[o] = "PAID" THEN "PROVISIONING" ELSE order[o]
          /\ \A d \in Orders \ {o} : order'[d] = order[d]
      BY <1>25, <2>0, <1>0, FlipHas DEF Claim, OrderStatuses
    <2>1. RowsOK'
      <3>1. \/ intent' = intent
            \/ intent' = [intent EXCEPT ![o] = [before |-> task[w].seen, expected |-> v,
                                                written |-> TRUE]]
        BY <1>25, <2>0, <2>8, Zenon DEF Claim
      <3>2. task[w].seen \in Values
        BY <1>0 DEF TasksOK, TaskRecord
      <3>3. intent' \in [Orders -> [before : Values, expected : Values, written : BOOLEAN]]
        <4>1. PICK i : i = [before |-> task[w].seen, expected |-> v, written |-> TRUE]
          OBVIOUS
        <4>2. i \in [before : Values, expected : Values, written : BOOLEAN]
          BY <3>2, <4>1
        <4>3. intent' = intent \/ intent' = [intent EXCEPT ![o] = i]
          BY <3>1, <4>1
        <4> QED BY <4>2, <4>3, <1>0 DEF RowsOK
      <3> QED BY <1>25, <2>9, <3>3, <1>0 DEF Claim, RowsOK
    <2>2. RemoteOK'
      BY <1>25, <1>0 DEF Claim, RemoteOK
    <2>3. RestOK'
      BY <1>25, <1>0 DEF Claim, RestOK
    <2>4. GhostsOK'
      BY <1>25, <1>0 DEF Claim, GhostsOK
    <2>5. /\ TasksOK' /\ Others(w)
          /\ \/ Left(w) /\ order[o] # "PAID"
             \/ Keeps(w) /\ task'[w].pc \in Before /\ order[o] = "PAID"
      <3>1. CASE order[o] # "PAID"
        BY <1>25, <3>1, <2>0, <2>7, <1>0, LeaveHas DEF Claim
      <3>2. CASE order[o] = "PAID"
        <4>1. PICK pc \in Before : pc = IF Operation[o] = "EXTRA_TIME" THEN "send" ELSE "reset"
          BY DEF Before
        <4>2. task' = [task EXCEPT ![w].target = v, ![w].pc = pc]
          BY <1>25, <3>2, <4>1, <2>0, <2>8, Zenon DEF Claim
        <4>3. PICK r \in TaskRecord : r = task[w]
          BY <1>0 DEF TasksOK
        <4>4. PICK t : t = [r EXCEPT !.target = v, !.pc = pc]
          OBVIOUS
        <4>5. /\ t \in TaskRecord /\ t.pc = pc /\ t.order = r.order /\ t.flow = r.flow
              /\ t.locked = r.locked
          BY <4>4 DEF TaskRecord, Steps, Before
        <4>6. task' = [task EXCEPT ![w] = t]
          BY <4>2, <4>3, <4>4, <1>0 DEF TasksOK
        <4> QED BY <4>3, <4>5, <4>6, <3>2, <2>7, <1>0 DEF TasksOK, Others, Keeps
      <3> QED BY <3>1, <3>2
    <2>6. Fit'
      <3>1. CASE Left(w) /\ order[o] # "PAID"
        <4>1. order' = order
          BY <3>1, <2>9, <1>0 DEF RowsOK
        <4> QED BY <2>5, <2>7, <3>1, <4>1, <1>0, LeavesFit DEF Data
      <3>2. CASE Keeps(w) /\ task'[w].pc \in Before /\ order[o] = "PAID"
        <4>1. LockFit(w)' /\ FlowFit(w)'
          BY <2>7, <3>2, <1>0 DEF LockFit, FlowFit, Keeps, Before, Sent
        <4>2. \A u \in Procs : LockFit(u)' /\ FlowFit(u)'
          BY <2>5, <2>7, <4>1, <1>0, SameLocks
        <4>3. \A u \in Procs \ {w} : task[u].pc \notin Held
          BY <2>7, <1>0 DEF LockFit
        <4>4. ASSUME NEW d \in Orders PROVE OrderFit(d)'
          <5>1. OrderFit(d)
            BY <1>0 DEF Fit
          <5>2. CASE d = o
            BY <5>1, <5>2, <4>3, <2>5, <2>7, <2>9, <3>2 DEF OrderFit, Others, Before, Held
          <5>3. CASE d # o
            BY <5>1, <5>3, <2>0, <2>5, <2>7, <2>9, <3>2 DEF OrderFit, Others, Keeps
          <5> QED BY <5>2, <5>3
        <4>5. ASSUME NEW d \in Bot PROVE BotFit(d)'
          <5>1. BotFit(d) /\ OrderFit(d) /\ d \in Orders
            BY <1>0 DEF Fit, Bot
          <5>2. CASE d = o
            <6>1. \A u \in Procs \ {w} : task[u].order = d => task[u].pc \notin Working
              BY <5>1, <5>2, <4>3, <3>2 DEF BotFit, Working, Held
            <6> QED BY <5>1, <5>2, <6>1, <2>0, <2>5, <2>7, <2>9, <3>2
                    DEF BotFit, OrderFit, Others, Keeps, Working, Alone, Before
          <5>3. CASE d # o
            BY <5>1, <5>3, <2>0, <2>5, <2>7, <2>9, <3>2 DEF BotFit, Others, Keeps
          <5> QED BY <5>2, <5>3
        <4> QED BY <4>2, <4>4, <4>5 DEF Fit
      <3> QED BY <2>5, <3>1, <3>2
    <2> QED BY <2>1, <2>2, <2>3, <2>4, <2>5, <2>6, InvPartsNext
  <1>26. ASSUME NEW w \in Procs, SendUpdate(w) PROVE Inv'
    <2>0. PICK o \in Orders : o = task[w].order
      BY <1>26, <1>0 DEF SendUpdate, FlowFit
    <2>1. RowsOK'
      BY <1>26, <1>0 DEF SendUpdate, RowsOK
    <2>2. RemoteOK'
      BY <1>26, <2>0, <1>0 DEF SendUpdate, RemoteOK, TasksOK, TaskRecord
    <2>3. RestOK'
      BY <1>26, <1>0 DEF SendUpdate, RestOK
    <2>4. GhostsOK'
      BY <1>26, <1>0 DEF SendUpdate, GhostsOK
    <2>5. TasksOK' /\ Others(w) /\ Keeps(w) /\ task'[w].pc = "answer"
      BY <1>26, <1>0, GotoHas DEF SendUpdate, Steps
    <2>7. /\ UNCHANGED <<order, refunds, applied, stale, lock, batch>> /\ task[w].pc = "send"
          /\ lock = w /\ task[w].locked
      BY <1>26, <1>0 DEF SendUpdate, LockFit, Held
    <2>6. Fit'
      <3>1. LockFit(w)' /\ FlowFit(w)'
        BY <2>5, <2>7, <1>0 DEF LockFit, FlowFit, Keeps, Held, Sent
      <3>2. \A u \in Procs : LockFit(u)' /\ FlowFit(u)'
        BY <2>5, <2>7, <3>1, <1>0, SameLocks
      <3>3. \A u \in Procs \ {w} : task[u].pc \notin Held
        BY <2>7, <1>0 DEF LockFit
      <3>4. ASSUME NEW d \in Orders PROVE OrderFit(d)'
        <4>1. OrderFit(d)
          BY <1>0 DEF Fit
        <4>2. \A u \in Procs : task'[u].pc \notin Before
          BY <2>5, <3>3 DEF Others, Before, Held
        <4>3. requests'[d] = IF d = o THEN requests[d] + 1 ELSE requests[d]
          BY <1>26, <2>0, <1>0 DEF SendUpdate, RemoteOK
        <4>4. d = o => requests[d] = 0 /\ order[d] # "PAID"
          BY <4>1, <2>0, <2>7 DEF OrderFit, Before
        <4> QED BY <4>1, <4>2, <4>3, <4>4, <2>7 DEF OrderFit
      <3>5. ASSUME NEW d \in Bot PROVE BotFit(d)'
        <4>1. BotFit(d)
          BY <1>0 DEF Fit
        <4> QED BY <4>1, <2>5, <2>7 DEF BotFit, Others, Keeps, Working, Alone, Before, Sent
      <3> QED BY <3>2, <3>4, <3>5 DEF Fit
    <2> QED BY <2>1, <2>2, <2>3, <2>4, <2>5, <2>6, InvPartsNext
  <1>27. ASSUME NEW w \in Procs, LockLapses(w) PROVE Inv'
    <2>1. RowsOK'
      BY <1>27, <1>0 DEF LockLapses, RowsOK
    <2>2. RemoteOK'
      BY <1>27, <1>0 DEF LockLapses, RemoteOK
    <2>3. RestOK'
      BY <1>27, <1>0 DEF LockLapses, RestOK
    <2>4. GhostsOK'
      <3>1. stray' \subseteq Orders
        BY <1>27, <1>0 DEF LockLapses, GhostsOK, FlowFit, Sent
      <3>2. UNCHANGED <<unrecorded, guessed, blurred>>
        BY <1>27 DEF LockLapses
      <3> QED BY <3>1, <3>2, <1>0 DEF GhostsOK
    <2>5. TasksOK' /\ task' = task
      BY <1>27, <1>0 DEF LockLapses, TasksOK
    <2>6. Fit'
      <3>1. \A v \in Procs : lock = v => v = w
        BY <1>27 DEF LockLapses
      <3>2. \A v \in Procs : LockFit(v)'
        BY <1>27, <2>5, <3>1, <1>0 DEF LockLapses, LockFit, Held, Sent
      <3>3. \A v \in Procs : FlowFit(v)'
        BY <2>5, <1>0 DEF FlowFit
      <3>4. UNCHANGED <<order, refunds, requests, applied, stale, batch>> /\ task[w].order \notin stale
        BY <1>27 DEF LockLapses
      <3>5. \A o \in Orders : OrderFit(o)'
        BY <2>5, <3>4, <1>0 DEF Fit, OrderFit
      <3>6. ASSUME NEW o \in Bot PROVE BotFit(o)'
        <4>1. BotFit(o)
          BY <1>0 DEF Fit
        <4> QED BY <2>5, <3>1, <3>4, <4>1 DEF BotFit
      <3> QED BY <3>2, <3>3, <3>5, <3>6 DEF Fit
    <2> QED BY <2>1, <2>2, <2>3, <2>4, <2>5, <2>6, InvPartsNext
  <1>28. ASSUME NEW u \in flying, UpdateLands(u) PROVE Inv'
    <2>1. RowsOK'
      BY <1>28, <1>0 DEF UpdateLands, RowsOK
    <2>2. RemoteOK'
      BY <1>28, <1>0 DEF UpdateLands, RemoteOK, Values
    <2>3. RestOK'
      BY <1>28, <1>0 DEF UpdateLands, RestOK
    <2>4. GhostsOK'
      BY <1>28, <1>0 DEF UpdateLands, GhostsOK
    <2>5. TasksOK'
      BY <1>28, <1>0 DEF UpdateLands, TasksOK
    <2>6. Fit'
      BY <1>28, <1>0, WorldFit DEF UpdateLands
    <2> QED BY <2>1, <2>2, <2>3, <2>4, <2>5, <2>6, InvPartsNext
  <1>29. ASSUME NEW u \in flying, UpdateIsLost(u) PROVE Inv'
    <2>1. RowsOK'
      BY <1>29, <1>0 DEF UpdateIsLost, RowsOK
    <2>2. RemoteOK'
      BY <1>29, <1>0 DEF UpdateIsLost, RemoteOK
    <2>3. RestOK'
      BY <1>29, <1>0 DEF UpdateIsLost, RestOK
    <2>4. GhostsOK'
      BY <1>29, <1>0 DEF UpdateIsLost, GhostsOK
    <2>5. TasksOK'
      BY <1>29, <1>0 DEF UpdateIsLost, TasksOK
    <2>6. Fit'
      BY <1>29, <1>0, WorldFit DEF UpdateIsLost
    <2> QED BY <2>1, <2>2, <2>3, <2>4, <2>5, <2>6, InvPartsNext
  <1>30. ASSUME NextDay PROVE Inv'
    <2>1. RowsOK'
      BY <1>30, <1>0 DEF NextDay, RowsOK
    <2>2. RemoteOK'
      BY <1>30, <1>0 DEF NextDay, RemoteOK
    <2>3. RestOK'
      BY <1>30, <1>0 DEF NextDay, RestOK
    <2>4. GhostsOK'
      BY <1>30, <1>0 DEF NextDay, GhostsOK
    <2>5. TasksOK'
      BY <1>30, <1>0 DEF NextDay, TasksOK
    <2>6. Fit'
      BY <1>30, <1>0, WorldFit DEF NextDay
    <2> QED BY <2>1, <2>2, <2>3, <2>4, <2>5, <2>6, InvPartsNext
  <1>31. ASSUME StartRecovery PROVE Inv'
    <2>1. RowsOK'
      BY <1>31, <1>0 DEF StartRecovery, RowsOK
    <2>2. RemoteOK'
      BY <1>31, <1>0 DEF StartRecovery, RemoteOK
    <2>3. RestOK'
      BY <1>31, <1>0 DEF StartRecovery, RestOK
    <2>4. GhostsOK'
      BY <1>31, <1>0 DEF StartRecovery, GhostsOK
    <2>5. TasksOK'
      BY <1>31, <1>0 DEF StartRecovery, TasksOK
    <2>6. Fit'
      BY <1>31, <1>0, WorldFit DEF StartRecovery
    <2> QED BY <2>1, <2>2, <2>3, <2>4, <2>5, <2>6, InvPartsNext
  <1>32. ASSUME NEW o \in Orders, GrowsStale(o) PROVE Inv'
    <2>1. RowsOK'
      BY <1>32, <1>0 DEF GrowsStale, RowsOK
    <2>2. RemoteOK'
      BY <1>32, <1>0 DEF GrowsStale, RemoteOK
    <2>3. RestOK'
      BY <1>32, <1>0 DEF GrowsStale, RestOK
    <2>4. GhostsOK'
      BY <1>32, <1>0 DEF GrowsStale, GhostsOK
    <2>5. TasksOK'
      BY <1>32, <1>0 DEF GrowsStale, TasksOK
    <2>6. Fit'
      <3>1. \A d \in stale' : d \in stale \/ d = o
        BY <1>32 DEF GrowsStale
      <3>2. \A w \in Procs : task[w].order = o /\ task[w].locked => lock = w
        BY <1>32 DEF GrowsStale
      <3>3. order[o] = "PROVISIONING"
        BY <1>32 DEF GrowsStale
      <3>4. /\ UNCHANGED <<task, order, refunds, requests, applied, lock, batch>>
            /\ stale \subseteq stale'
        BY <1>32 DEF GrowsStale
      <3> QED BY <3>1, <3>2, <3>3, <3>4, <1>0, WorldFit
    <2> QED BY <2>1, <2>2, <2>3, <2>4, <2>5, <2>6, InvPartsNext
  <1>33. ASSUME LockExpires PROVE Inv'
    <2>1. RowsOK'
      BY <1>33, <1>0 DEF LockExpires, RowsOK
    <2>2. RemoteOK'
      BY <1>33, <1>0 DEF LockExpires, RemoteOK
    <2>3. RestOK'
      BY <1>33, <1>0 DEF LockExpires, RestOK
    <2>4. GhostsOK'
      BY <1>33, <1>0 DEF LockExpires, GhostsOK
    <2>5. TasksOK'
      BY <1>33, <1>0 DEF LockExpires, TasksOK
    <2>6. Fit'
      <3>1. /\ UNCHANGED <<task, order, refunds, requests, applied, stale, batch>>
            /\ \A v \in Procs : lock # v
        BY <1>33 DEF LockExpires
      <3>2. \A v \in Procs : LockFit(v)'
        BY <3>1, <1>0 DEF LockFit
      <3>3. \A v \in Procs : FlowFit(v)'
        BY <3>1, <1>0 DEF FlowFit
      <3>4. \A o \in Orders : OrderFit(o)'
        BY <3>1, <1>0 DEF Fit, OrderFit
      <3>5. ASSUME NEW o \in Bot PROVE BotFit(o)'
        <4>1. BotFit(o)
          BY <1>0 DEF Fit
        <4> QED BY <3>1, <4>1 DEF BotFit
      <3> QED BY <3>2, <3>3, <3>4, <3>5 DEF Fit
    <2> QED BY <2>1, <2>2, <2>3, <2>4, <2>5, <2>6, InvPartsNext
  <1>34. ASSUME NEW o \in Orders, RecoverNext(o) PROVE Inv'
    <2>1. RowsOK'
      BY <1>34, <1>0 DEF RecoverNext, RowsOK, Begin
    <2>2. RemoteOK'
      BY <1>34, <1>0 DEF RecoverNext, RemoteOK, Begin
    <2>3. RestOK'
      <3>1. lock' = lock \/ lock' = Recovery
        BY <1>34, Zenon DEF RecoverNext
      <3>2. /\ Recovery \in Procs /\ batch' = batch \ {o}
            /\ UNCHANGED <<stale, sweeps, today, jobs, faults>>
        BY <1>34 DEF RecoverNext, Procs
      <3> QED BY <3>1, <3>2, <1>0 DEF RestOK
    <2>4. GhostsOK'
      BY <1>34, <1>0 DEF RecoverNext, GhostsOK, Begin
    <2>0. Recovery \in Procs /\ task[Recovery].pc = "idle" /\ o \in batch /\ batch' = batch \ {o}
          /\ UNCHANGED <<order, refunds, requests, applied, stale>>
      BY <1>34 DEF RecoverNext, Procs
    <2>7. CASE task' = task /\ lock' = lock
      <3>1. TasksOK'
        BY <2>7, <1>0 DEF TasksOK
      <3>2. Fit'
        BY <2>0, <2>7, <1>0, WorldFit
      <3> QED BY <2>1, <2>2, <2>3, <2>4, <3>1, <3>2, InvPartsNext
    <2>8. CASE o \in applied /\ Begin(Recovery, "recovery", o, "finish") /\ UNCHANGED lock
      <3>1. task' = [task EXCEPT ![Recovery] = StartedUnlocked("recovery", o, "finish")]
        BY <2>8, Zenon DEF Begin, StartedUnlocked
      <3>2. "recovery" \in Flows /\ "finish" \in Steps
        BY DEF Flows, Steps
      <3>3. /\ TasksOK' /\ Others(Recovery) /\ task'[Recovery].pc = "finish"
            /\ task'[Recovery].flow = "recovery" /\ task'[Recovery].order = o
        BY <3>1, <3>2, <2>0, <1>0, StartHas
      <3>4. FlowFit(Recovery)'
        BY <3>3 DEF FlowFit, Sent
      <3>5. Fit'
        BY <3>3, <3>4, <2>0, <2>8, <1>0, StartsFit DEF Held, Sent, Working, Alone, Before
      <3> QED BY <2>1, <2>2, <2>3, <2>4, <3>3, <3>5, InvPartsNext
    <2>9. CASE /\ lock = Free /\ lock' = Recovery
               /\ task' = [task EXCEPT ![Recovery] = [IdleTask EXCEPT
                             !.flow = "recovery", !.order = o, !.pc = "body", !.locked = TRUE]]
      <3>1. task' = [task EXCEPT ![Recovery] = Started("recovery", o, "body")]
        BY <2>9, Zenon DEF Started
      <3>2. "recovery" \in Flows /\ "body" \in Steps
        BY DEF Flows, Steps
      <3>3. /\ TasksOK' /\ Others(Recovery) /\ task'[Recovery].pc = "body" /\ task'[Recovery].locked
            /\ task'[Recovery].flow = "recovery" /\ task'[Recovery].order = o
        BY <3>1, <3>2, <2>0, <1>0, StartHas
      <3>4. FlowFit(Recovery)'
        BY <3>3 DEF FlowFit, Sent
      <3>6. lock = Free /\ lock' = Recovery
        BY <2>9
      <3>5. Fit'
        BY <3>3, <3>4, <3>6, <2>0, <1>0, StartsFit DEF Held, Sent, Working, Alone, Before
      <3> QED BY <2>1, <2>2, <2>3, <2>4, <3>3, <3>5, InvPartsNext
    <2> QED BY <1>34, <2>7, <2>8, <2>9, Zenon DEF RecoverNext
  <1>35. CASE BotCrash
    <2>1. RowsOK'
      BY <1>35, <1>0 DEF BotCrash, RowsOK
    <2>2. RemoteOK'
      BY <1>35, <1>0 DEF BotCrash, RemoteOK
    <2>3. RestOK'
      BY <1>35, <1>0 DEF BotCrash, RestOK
    <2>4. GhostsOK'
      BY <1>35, <1>0 DEF BotCrash, GhostsOK
    <2>5. TasksOK' /\ \A w \in Procs : task'[w] = IdleTask
      BY <1>35, IdleIsTask DEF BotCrash, TasksOK, IdleTask
    <2>7. \A w \in Procs : task'[w].pc = "idle" /\ task'[w].flow = "none"
      BY <2>5 DEF IdleTask
    <2>6. Fit'
      <3>1. UNCHANGED <<order, refunds, requests, applied, stale>> /\ batch' = {}
        BY <1>35 DEF BotCrash
      <3>2. \A v \in Procs : LockFit(v)' /\ FlowFit(v)'
        BY <2>7 DEF LockFit, FlowFit, Held, Sent
      <3>3. \A o \in Orders : OrderFit(o)'
        BY <2>7, <3>1, <1>0 DEF Fit, OrderFit, Before
      <3>4. ASSUME NEW o \in Bot PROVE BotFit(o)'
        <4>1. BotFit(o)
          BY <1>0 DEF Fit
        <4> QED BY <2>7, <3>1, <4>1 DEF BotFit, Working, Alone, Before, Sent
      <3> QED BY <3>2, <3>3, <3>4 DEF Fit
    <2> QED BY <2>1, <2>2, <2>3, <2>4, <2>5, <2>6, InvPartsNext
  <1>36. CASE UNCHANGED vars
    <2>1. UNCHANGED vars
      BY <1>36
    <2>2. RowsOK' /\ RemoteOK' /\ TasksOK' /\ RestOK'
      BY <2>1, <1>0 DEF vars, RowsOK, RemoteOK, TasksOK, RestOK
    <2>3. GhostsOK'
      BY <2>1, <1>0 DEF vars, GhostsOK
    <2>4. Fit'
      BY <2>1, <1>0, WorldFit DEF vars
    <2> QED BY <2>2, <2>3, <2>4, InvPartsNext
  <1> QED BY <1>1, <1>2, <1>3, <1>4, <1>5, <1>6, <1>7, <1>8, <1>9, <1>10, <1>11, <1>12, <1>13, <1>14, <1>15, <1>16, <1>17, <1>18, <1>19, <1>20, <1>21, <1>22, <1>23, <1>24, <1>25, <1>26, <1>27, <1>28, <1>29, <1>30, <1>31, <1>32, <1>33, <1>34, <1>35, <1>36 DEF Next, Step

LEMMA InvAlways == Spec => []Inv
  BY InitInv, InvStep, PTL DEF Spec

-----------------------------------------------------------------------------
(* What a step does to the status of an order.                             *)

(* A step moves at most one order, and never a settled order of the bot.   *)
OneOrder ==
    \/ order' = order
    \/ \E o \in Orders :
          /\ \A d \in Orders \ {o} : order'[d] = order[d]
          /\ o \in Bot /\ order[o] \in {"COMPLETED", "FAILED"} => order'[o] = order[o]

LEMMA OneOrderMoves ==
    ASSUME Inv, [Next]_vars
    PROVE  OneOrder
  <1>0. /\ RowsOK /\ Fit /\ \A w \in Procs : FlowFit(w)
        /\ \A w \in Procs : task[w].pc # "idle" /\ task[w].flow # "sync" => task[w].order \in Orders
    BY InvParts DEF Fit, TasksOK
  <1> USE DEF At, Runs, OrderOf
  <1>1. ASSUME NEW w \in Procs, Finish(w) PROVE OneOrder
    <2>1. PICK o \in Orders : o = task[w].order
      BY <1>1, <1>0 DEF Finish, FlowFit
    <2>2. /\ \A d \in Orders \ {o} : order'[d] = order[d]
          /\ order'[o] \in {order[o], "COMPLETED"}
      BY <1>1, <2>1, <1>0, FlipHas DEF Finish, CompleteOrder, OrderStatuses
    <2>3. o \in Bot => order[o] = "COMPLETED"
      BY <1>1, <2>1, <1>0 DEF Finish, Fit, BotFit
    <2> QED BY <2>2, <2>3 DEF OneOrder
  <1>2. ASSUME NEW w \in Procs, Claim(w) PROVE OneOrder
    <2>1. PICK o \in Orders : o = task[w].order
      BY <1>2, <1>0 DEF Claim, FlowFit
    <2>2. order' = Flip(o, {"PAID"}, "PROVISIONING")
      BY <1>2, <2>1, Zenon DEF Claim
    <2> QED BY <2>2, <1>0, FlipHas DEF OneOrder, OrderStatuses
  <1>3. ASSUME NEW w \in Procs, Persist(w) PROVE OneOrder
    <2>1. PICK o \in Orders : o = task[w].order
      BY <1>3, <1>0 DEF Persist, FlowFit, Sent
    <2>2. order' = Flip(o, {"PROVISIONING"}, "COMPLETED")
      BY <1>3, <2>1 DEF Persist, PersistApplied, PersistAppApplied
    <2> QED BY <2>2, <1>0, FlipHas DEF OneOrder, OrderStatuses
  <1>4. ASSUME NEW w \in Procs, Refund(w) PROVE OneOrder
    <2>1. PICK o \in Orders : o = task[w].order
      BY <1>4, <1>0 DEF Refund, FlowFit, Sent
    <2>2. order' = Flip(o, {"PAID", "PROVISIONING"}, "FAILED")
      BY <1>4, <2>1 DEF Refund, FailOrderWithRefund
    <2> QED BY <2>2, <1>0, FlipHas DEF OneOrder, OrderStatuses
  <1>5. ASSUME NEW w \in Procs, Adopt(w) PROVE OneOrder
    <2>1. PICK o \in Orders : o = task[w].order
      BY <1>5, <1>0 DEF Adopt, FlowFit
    <2>3. Runs(w, "reconciler") => o \notin Bot
      BY <2>1, <1>0 DEF Runs, FlowFit, Bot
    <2>4. \/ order' = order
          \/ order' = Flip(o, {"PROVISIONING"}, "COMPLETED")
          \/ order' = Flip(o, OrderStatuses, "COMPLETED") /\ Runs(w, "reconciler")
      BY <1>5, <2>1, Zenon DEF Adopt, PersistApplied, PersistAppApplied, OrderOf, rows
    <2>2. \/ order' = order
          \/ order' = Flip(o, {"PROVISIONING"}, "COMPLETED")
          \/ order' = Flip(o, OrderStatuses, "COMPLETED") /\ o \notin Bot
      BY <2>3, <2>4
    <2> QED BY <2>2, <1>0, FlipHas DEF OneOrder, OrderStatuses
  <1>6. CASE UNCHANGED order
    BY <1>6 DEF OneOrder
  <1>7. \/ UNCHANGED order
        \/ \E w \in Procs : Finish(w) \/ Claim(w) \/ Persist(w) \/ Refund(w) \/ Adopt(w)
    <2>1. CASE UNCHANGED vars
      BY <2>1 DEF vars, rows
    <2>2. ASSUME NEW w \in Procs, Step(w)
          PROVE  UNCHANGED order \/ Finish(w) \/ Claim(w) \/ Persist(w) \/ Refund(w) \/ Adopt(w)
      BY <2>2, Zenon DEF Step, rows, AcquireLock, GiveUpLock, ReleaseLock, PipelineBody, ExecutorBody,
         RecoveryBody, PanelRefuses, ResetTraffic, SendUpdate, UpdateConfirmed, UpdateUnknown,
         PersistFails, ProbeRecovery, ProbeReconciler, SyncRead, SyncWrite, LockLapses, Heartbeat
    <2>3. ASSUME NEW w \in Procs, NEW o \in Orders,
                 Dispatch(w, o) \/ FollowUpPaid(w, o) \/ FollowUpProvisioning(w, o) \/ OpenPage(w)
          PROVE  UNCHANGED order
      BY <2>3, Zenon DEF rows, Dispatch, FollowUpPaid, FollowUpProvisioning, OpenPage, Locked
    <2>4. ASSUME NEW w \in Procs, OpenPage(w) PROVE UNCHANGED order
      BY <2>4, Zenon DEF rows, OpenPage, Locked
    <2>5. ASSUME NEW o \in Orders, RecoverNext(o) \/ GrowsStale(o) PROVE UNCHANGED order
      BY <2>5, Zenon DEF rows, RecoverNext, GrowsStale
    <2>6. ASSUME NEW u \in flying, UpdateLands(u) \/ UpdateIsLost(u) PROVE UNCHANGED order
      BY <2>6 DEF rows, UpdateLands, UpdateIsLost
    <2>7. ASSUME StartRecovery \/ NextDay \/ LockExpires \/ BotCrash PROVE UNCHANGED order
      BY <2>7, Zenon DEF rows, StartRecovery, NextDay, LockExpires, BotCrash
    <2> QED BY <2>1, <2>2, <2>3, <2>4, <2>5, <2>6, <2>7, Zenon DEF Next
  <1> QED BY <1>1, <1>2, <1>3, <1>4, <1>5, <1>6, <1>7

-----------------------------------------------------------------------------
(* The row and the panel.  An applied order is not open, an intent belongs *)
(* to an order that was claimed, and the reconcilers work on such orders.  *)
RouteFit(o) ==
    /\ o \in applied => order[o] \notin {"PAID", "PROVISIONING"}
    /\ order[o] = "PAID" => ~intent[o].written
Doing(t)   == \/ t.pc \in Before \cup Sent
              \/ t.flow = "recovery" /\ t.pc \in {"probe", "adopt"}
Claimed(t) == Doing(t) \/ t.flow = "reconciler"
RouteKept(w) ==
    /\ task[w].pc = "finish" => task[w].order \in applied
    /\ task[w].flow = "reconciler" => intent[task[w].order].written
    /\ Claimed(task[w]) => order[task[w].order] # "PAID"

(* While no request outlives the lock of its sender, one process at a time *)
(* is between its claim and its persist, and a request on its way is that  *)
(* of the holder, or of an owner that crashed.                             *)
SoloFit(w) ==
    /\ task[w].pc \in Sent => lock = w
    /\ Doing(task[w]) => order[task[w].order] = "PROVISIONING"
FlyingFit(u) ==
    /\ \/ lock = Dead
       \/ lock \in Procs /\ task[lock].pc = "answer" /\ task[lock].order = u[1]
    /\ order[u[1]] = "PROVISIONING" /\ requests[u[1]] > 0

(* A panel that differs from the row shows what an order that is still     *)
(* PROVISIONING asked for: if the executor claimed the order, the values   *)
(* of its intent.  A refund leaves no such order behind.                   *)
Expected(o, v) == intent[o].written => SameTerms(v, intent[o].expected)
Explained == \/ SameTerms(row, panel)
             \/ \E o \in Orders : order[o] = "PROVISIONING" /\ requests[o] > 0 /\ Expected(o, panel)
RowFit(w) ==
    /\ task[w].pc \in Before => Expected(task[w].order, task[w].target)
    /\ task[w].pc \in {"persist", "retry", "adopt"} => SameTerms(task[w].seen, panel)
    /\ task[w].pc = "refund" => \/ requests[task[w].order] = 0 \/ SameTerms(row, panel)
                                \/ ~Expected(task[w].order, panel)

Routes == (\A o \in Orders : RouteFit(o)) /\ (\A w \in Procs : RouteKept(w))
Solo   == stray = {} => (\A w \in Procs : SoloFit(w)) /\ (\A u \in flying : FlyingFit(u))
RowInv == stray = {} /\ unrecorded = {} =>
    Explained /\ (\A w \in Procs : RowFit(w)) /\ (\A u \in flying : Expected(u[1], u[2]))
RowsInv == Routes /\ Solo /\ RowInv

LEMMA OrderTyped ==
    ASSUME Inv, NEW w \in Procs, task[w].pc # "idle", task[w].flow # "sync"
    PROVE  task[w].order \in Orders
  BY DEF Inv, TypeOK

LEMMA GotoKeeps ==
    ASSUME Inv, NEW w \in Procs, NEW pc \in Steps, Goto(w, pc), task[w].pc # "idle"
    PROVE  /\ Others(w) /\ Keeps(w) /\ task'[w].pc = pc
           /\ task'[w].seen = task[w].seen /\ task'[w].target = task[w].target
  BY DEF Inv, TypeOK, TaskRecord, Goto, Others, Keeps

LEMMA LeaveLeft ==
    ASSUME Inv, NEW w \in Procs, Leave(w), task[w].pc # "idle"
    PROVE  Others(w) /\ Left(w)
  BY LeaveHas, InvParts

LEMMA ReadKeeps ==
    ASSUME Inv, NEW w \in Procs, NEW pc \in Steps, NEW v \in Values, task[w].pc # "idle",
           task' = [task EXCEPT ![w].pc = pc, ![w].seen = v]
    PROVE  /\ Others(w) /\ Keeps(w) /\ task'[w].pc = pc
           /\ task'[w].seen = v /\ task'[w].target = task[w].target
  BY DEF Inv, TypeOK, TaskRecord, Others, Keeps

(* A step of one process that changes none of the data.                    *)
Books == <<order, row, intent, applied, remote, unrecorded>>
LEMMA MoveKept ==
    ASSUME RowsInv, NEW w \in Procs, Others(w), UNCHANGED Books, stray \subseteq stray',
           RouteKept(w)',
           stray' = {} =>
              /\ SoloFit(w)' /\ (unrecorded = {} => RowFit(w)')
              /\ \A v \in Procs \ {w} : lock = v => lock' = v
              /\ flying # {} => /\ lock' = lock
                                /\ lock = w => /\ task'[w].pc = task[w].pc
                                               /\ task'[w].order = task[w].order
    PROVE  RowsInv'
  <1>1. Routes'
    <2>1. \A o \in Orders : RouteFit(o)'
      BY DEF RowsInv, Routes, RouteFit, Books
    <2>2. \A v \in Procs \ {w} : RouteKept(v)'
      BY DEF RowsInv, Routes, RouteKept, Claimed, Doing, Books, Others
    <2> QED BY <2>1, <2>2 DEF Routes
  <1>2. Solo'
    <2> SUFFICES ASSUME stray' = {}
                 PROVE  (\A v \in Procs : SoloFit(v)') /\ (\A u \in flying' : FlyingFit(u)')
      BY DEF Solo
    <2>0. (\A v \in Procs : SoloFit(v)) /\ (\A u \in flying : FlyingFit(u))
      BY DEF RowsInv, Solo
    <2>1. \A v \in Procs \ {w} : SoloFit(v)'
      BY <2>0 DEF SoloFit, Doing, Books, Others
    <2>2. \A u \in flying' : FlyingFit(u)'
      BY <2>0 DEF FlyingFit, Books, remote, Others
    <2> QED BY <2>1, <2>2
  <1>3. RowInv'
    <2> SUFFICES ASSUME stray' = {}, unrecorded' = {}
                 PROVE  /\ Explained' /\ (\A v \in Procs : RowFit(v)')
                        /\ \A u \in flying' : Expected(u[1], u[2])'
      BY DEF RowInv
    <2>0. Explained /\ (\A v \in Procs : RowFit(v)) /\ \A u \in flying : Expected(u[1], u[2])
      BY DEF RowsInv, RowInv, Books
    <2>1. Explained'
      BY <2>0 DEF Explained, Books, remote, SameTerms, Expected
    <2>2. \A v \in Procs \ {w} : RowFit(v)'
      BY <2>0 DEF RowFit, Books, remote, Others, SameTerms, Expected
    <2>3. \A u \in flying' : Expected(u[1], u[2])'
      BY <2>0 DEF Expected, Books, remote, SameTerms
    <2> QED BY <2>1, <2>2, <2>3 DEF Books
  <1> QED BY <1>1, <1>2, <1>3 DEF RowsInv

(* A process leaves, and the request it waited for, if it is still on its  *)
(* way, outlives its lock.                                                 *)
LEMMA LeaveKept ==
    ASSUME Inv, RowsInv, NEW w \in Procs, Leave(w), task[w].pc # "idle",
           UNCHANGED <<Books, lock>>, stray \subseteq stray',
           task[w].pc = "answer" => stray' # {} \/ flying = {}
    PROVE  RowsInv'
  <1>1. Others(w) /\ Left(w)
    BY LeaveLeft
  <1>2. RouteKept(w)'
    BY <1>1 DEF RowsInv, Routes, RouteKept, Claimed, Doing, Left, Keeps, Before, Sent, Books
  <1>3. SoloFit(w)' /\ RowFit(w)'
    BY <1>1 DEF SoloFit, Doing, RowFit, Left, Before, Sent
  <1>4. stray' = {} /\ flying # {} => lock # w
    BY DEF RowsInv, Solo, FlyingFit
  <1> QED BY <1>1, <1>2, <1>3, <1>4, MoveKept

(* A process that waits for no answer goes on with its order.              *)
LEMMA GoKept ==
    ASSUME RowsInv, NEW w \in Procs, Others(w), Keeps(w), UNCHANGED <<Books, lock>>,
           stray \subseteq stray', task[w].pc # "answer" \/ flying = {},
           RouteKept(w)', stray' = {} => SoloFit(w)', stray' = {} /\ unrecorded = {} => RowFit(w)'
    PROVE  RowsInv'
  <1>4. stray' = {} /\ flying # {} => lock # w
    BY DEF RowsInv, Solo, FlyingFit
  <1> QED BY <1>4, MoveKept

(* A process takes the lock.                                               *)
LEMMA LockKept ==
    ASSUME Inv, RowsInv, NEW w \in Procs, Others(w), lock = Free, lock' = w, task[w].pc \notin Sent,
           task'[w].pc = "body" \/ (task'[w].pc = "probe" /\ task'[w].flow # "recovery"),
           UNCHANGED <<Books, stray>>, RouteKept(w)'
    PROVE  RowsInv'
  <1>1. SoloFit(w)' /\ RowFit(w)'
    BY DEF SoloFit, Doing, RowFit, Before, Sent
  <1>2. stray = {} => flying = {}
    BY DEF RowsInv, Solo, FlyingFit
  <1> QED BY <1>1, <1>2, MoveKept

(* The steps that only leave.                                              *)
LEMMA LeavingKept ==
    ASSUME Inv, RowsInv, NEW w \in Procs, Leave(w), UNCHANGED <<rows, Quiet, ghosts>>,
           task[w].pc \notin {"idle", "answer"}
    PROVE  RowsInv'
  BY LeaveKept DEF rows, Quiet, ghosts, Books

LEMMA UpdateUnknownKept ==
    ASSUME Inv, RowsInv, NEW w \in Procs, UpdateUnknown(w)
    PROVE  RowsInv'
  <1>1. /\ task[w].pc = "answer" /\ Leave(w) /\ UNCHANGED <<Books, lock>> /\ stray \subseteq stray'
        /\ (\E u \in flying : u[1] = task[w].order) => stray' # {}
    BY DEF UpdateUnknown, At, rows, Quiet, Books, OrderOf
  <1>2. CASE stray' = {}
    <2>1. lock = w /\ \A u \in flying : FlyingFit(u)
      BY <1>1, <1>2 DEF RowsInv, Solo, SoloFit, Doing, Sent
    <2>2. flying = {}
      BY <1>1, <1>2, <2>1 DEF FlyingFit
    <2> QED BY <1>1, <2>2, LeaveKept
  <1> QED BY <1>1, <1>2, LeaveKept

LEMMA UpdateConfirmedKept ==
    ASSUME Inv, RowsInv, NEW w \in Procs, UpdateConfirmed(w)
    PROVE  RowsInv'
  <1>1. /\ task[w].pc = "answer" /\ UNCHANGED <<Books, lock, stray>>
        /\ \A u \in flying : u[1] # task[w].order
        /\ task' = [task EXCEPT ![w] = IF task[w].lost THEN Done(task[w])
                                       ELSE [task[w] EXCEPT !.pc = "persist", !.seen = panel]]
    BY DEF UpdateConfirmed, At, rows, Quiet, ghosts, Books, OrderOf, Inv, TypeOK
  <1>2. stray = {} => lock = w /\ flying = {}
    BY <1>1 DEF RowsInv, Solo, SoloFit, Doing, FlyingFit, Sent
  <1>3. CASE task[w].lost
    <2>1. Leave(w)
      BY <1>1, <1>3 DEF Leave
    <2> QED BY <1>1, <1>2, <2>1, LeaveKept
  <1>4. CASE ~task[w].lost
    <2>1. task' = [task EXCEPT ![w].pc = "persist", ![w].seen = panel]
      BY <1>1, <1>4 DEF Inv, TypeOK
    <2>2. /\ Others(w) /\ Keeps(w)
          /\ task'[w].pc = "persist" /\ task'[w].seen = panel
      BY <1>1, <2>1, ReadKeeps DEF Inv, TypeOK, Steps
    <2>3. RouteKept(w)'
      BY <1>1, <2>2 DEF RowsInv, Routes, RouteKept, Claimed, Doing, Keeps, Before, Sent, Books
    <2>4. stray' = {} => SoloFit(w)' /\ RowFit(w)'
      BY <1>1, <1>2, <2>2
         DEF RowsInv, Solo, SoloFit, Doing, Keeps, RowFit, Before, Sent, Books, SameTerms, remote
    <2> QED BY <1>1, <1>2, <2>2, <2>3, <2>4, MoveKept
  <1> QED BY <1>3, <1>4

LEMMA PipelineBodyKept ==
    ASSUME Inv, RowsInv, NEW w \in Procs, PipelineBody(w)
    PROVE  RowsInv'
  <1>1. task[w].pc = "body" /\ task[w].flow = "pipeline" /\ UNCHANGED <<rows, Quiet, ghosts>>
    BY DEF PipelineBody, At, Runs
  <1>2. UNCHANGED <<Books, lock, stray>>
    BY <1>1 DEF rows, Quiet, ghosts, Books
  <1>3. ASSUME task[w].order \in applied, Goto(w, "finish") PROVE RowsInv'
    <2>1. Others(w) /\ Keeps(w) /\ task'[w].pc = "finish"
      BY <1>1, <1>3, GotoKeeps DEF Steps
    <2> QED BY <1>1, <1>2, <1>3, <2>1, GoKept
            DEF RouteKept, Claimed, Doing, Keeps, Before, Sent, Books, SoloFit, RowFit
  <1>4. ASSUME Leave(w) PROVE RowsInv'
    BY <1>1, <1>4, LeavingKept
  <1>5. ASSUME order[task[w].order] = "PAID", NEW pc \in {"claim", "refund"},
               task' = [task EXCEPT ![w].pc = pc, ![w].seen = row]
        PROVE  RowsInv'
    <2>1. Others(w) /\ Keeps(w) /\ task'[w].pc \in {"claim", "refund"}
      BY <1>1, <1>5, ReadKeeps DEF Steps, Inv, TypeOK
    <2>2. requests[task[w].order] = 0
      BY <1>1, <1>5, OrderTyped DEF Inv, OrderFit
    <2> QED BY <1>1, <1>2, <2>1, <2>2, GoKept
            DEF RouteKept, Claimed, Doing, Keeps, Before, Sent, Books, remote, SoloFit, RowFit
  <1> QED BY <1>3, <1>4, <1>5 DEF PipelineBody, OrderOf

LEMMA ExecutorBodyKept ==
    ASSUME Inv, RowsInv, NEW w \in Procs, ExecutorBody(w)
    PROVE  RowsInv'
  <1>1. task[w].pc = "body" /\ task[w].flow = "executor" /\ UNCHANGED <<rows, Quiet, ghosts>>
    BY DEF ExecutorBody, At, Runs
  <1>2. UNCHANGED <<Books, lock, stray>>
    BY <1>1 DEF rows, Quiet, ghosts, Books
  <1>4. ASSUME Leave(w) PROVE RowsInv'
    BY <1>1, <1>4, LeavingKept
  <1>5. ASSUME order[task[w].order] = "PAID", NEW pc \in {"claim", "refund"}, NEW t,
               task' = [task EXCEPT ![w].pc = pc, ![w].seen = row, ![w].target = t]
        PROVE  RowsInv'
    <2>1. Others(w) /\ Keeps(w) /\ task'[w].pc \in {"claim", "refund"}
      BY <1>1, <1>5 DEF Others, Keeps, Inv, TypeOK, TaskRecord
    <2>2. requests[task[w].order] = 0
      BY <1>1, <1>5, OrderTyped DEF Inv, OrderFit
    <2> QED BY <1>1, <1>2, <2>1, <2>2, GoKept
            DEF RouteKept, Claimed, Doing, Keeps, Before, Sent, Books, remote, SoloFit, RowFit
  <1> QED BY <1>4, <1>5 DEF ExecutorBody, OrderOf

LEMMA RecoveryBodyKept ==
    ASSUME Inv, RowsInv, NEW w \in Procs, RecoveryBody(w)
    PROVE  RowsInv'
  <1>1. task[w].pc = "body" /\ task[w].flow = "recovery" /\ UNCHANGED <<rows, Quiet, ghosts>>
    BY DEF RecoveryBody, At, Runs
  <1>2. UNCHANGED <<Books, lock, stray>>
    BY <1>1 DEF rows, Quiet, ghosts, Books
  <1>3. ASSUME task[w].order \in applied, Goto(w, "finish") PROVE RowsInv'
    <2>1. Others(w) /\ Keeps(w) /\ task'[w].pc = "finish"
      BY <1>1, <1>3, GotoKeeps DEF Steps
    <2> QED BY <1>1, <1>2, <1>3, <2>1, GoKept
            DEF RouteKept, Claimed, Doing, Keeps, Before, Sent, Books, SoloFit, RowFit
  <1>4. ASSUME Leave(w) PROVE RowsInv'
    BY <1>1, <1>4, LeavingKept
  <1>5. ASSUME order[task[w].order] = "PROVISIONING", Goto(w, "probe") PROVE RowsInv'
    <2>1. Others(w) /\ Keeps(w) /\ task'[w].pc = "probe"
      BY <1>1, <1>5, GotoKeeps DEF Steps
    <2> QED BY <1>1, <1>2, <1>5, <2>1, GoKept
            DEF RouteKept, Claimed, Doing, Keeps, Before, Sent, Books, SoloFit, RowFit
  <1> QED BY <1>3, <1>4, <1>5 DEF RecoveryBody, OrderOf

LEMMA PanelRefusesKept ==
    ASSUME Inv, RowsInv, NEW w \in Procs, PanelRefuses(w)
    PROVE  RowsInv'
  <1>1. task[w].pc \in Before /\ Goto(w, "refund") /\ UNCHANGED <<Books, lock, stray>>
    BY DEF PanelRefuses, At, rows, Quiet, ghosts, Books, Before
  <1>2. Others(w) /\ Keeps(w) /\ task'[w].pc = "refund"
    BY <1>1, GotoKeeps DEF Steps, Before
  <1>3. requests[task[w].order] = 0
    <2>1. task[w].order \in Orders
      BY <1>1, OrderTyped DEF Inv, FlowFit, Before
    <2> QED BY <1>1, <2>1 DEF Inv, OrderFit
  <1>4. RouteKept(w)'
    BY <1>1, <1>2 DEF RowsInv, Routes, RouteKept, Claimed, Doing, Keeps, Before, Sent, Books
  <1>5. SoloFit(w)' /\ RowFit(w)'
    BY <1>1, <1>2, <1>3 DEF SoloFit, Doing, RowFit, Keeps, Before, Sent, Books, remote
  <1> QED BY <1>1, <1>2, <1>4, <1>5, GoKept DEF Before

LEMMA PersistFailsKept ==
    ASSUME Inv, RowsInv, NEW w \in Procs, PersistFails(w)
    PROVE  RowsInv'
  <1>1. task[w].pc \in {"persist", "retry"} /\ UNCHANGED <<rows, Quiet, ghosts>>
    BY DEF PersistFails, At
  <1>2. UNCHANGED <<Books, lock, stray>>
    BY <1>1 DEF rows, Quiet, ghosts, Books
  <1>3. ASSUME Leave(w) PROVE RowsInv'
    BY <1>1, <1>3, LeavingKept
  <1>4. ASSUME NEW pc \in {"retry", "orphan"}, Goto(w, pc) PROVE RowsInv'
    <2>1. Others(w) /\ Keeps(w) /\ task'[w].pc \in {"retry", "orphan"} /\ task'[w].seen = task[w].seen
      BY <1>1, <1>4, GotoKeeps DEF Steps
    <2>2. RouteKept(w)'
      BY <1>1, <1>2, <2>1 DEF RowsInv, Routes, RouteKept, Claimed, Doing, Keeps, Before, Sent, Books
    <2>3. stray' = {} /\ unrecorded' = {} => SoloFit(w)' /\ RowFit(w)'
      BY <1>1, <1>2, <2>1
         DEF RowsInv, Solo, RowInv, SoloFit, Doing, Keeps, RowFit, Before, Sent, Books, remote, SameTerms
    <2>4. stray' = {} => SoloFit(w)'
      BY <1>1, <1>2, <2>1 DEF RowsInv, Solo, SoloFit, Doing, Keeps, Before, Sent, Books
    <2>5. stray' = {} /\ flying # {} => lock # w
      BY <1>1, <1>2 DEF RowsInv, Solo, FlyingFit
    <2> QED BY <1>2, <2>1, <2>2, <2>3, <2>4, <2>5, MoveKept DEF Books
  <1> QED BY <1>3, <1>4 DEF PersistFails

LEMMA ProbeRecoveryKept ==
    ASSUME Inv, RowsInv, NEW w \in Procs, ProbeRecovery(w)
    PROVE  RowsInv'
  <1>1. task[w].pc = "probe" /\ task[w].flow = "recovery" /\ UNCHANGED <<rows, Quiet, ghosts>>
    BY DEF ProbeRecovery, At, Runs
  <1>2. UNCHANGED <<Books, lock, stray>>
    BY <1>1 DEF rows, Quiet, ghosts, Books
  <1>3. ASSUME Leave(w) PROVE RowsInv'
    BY <1>1, <1>3, LeavingKept
  <1>4. ASSUME task' = [task EXCEPT ![w].pc = "adopt", ![w].seen = panel] PROVE RowsInv'
    <2>1. Others(w) /\ Keeps(w) /\ task'[w].pc = "adopt" /\ task'[w].seen = panel
      BY <1>1, <1>4, ReadKeeps DEF Steps, Inv, TypeOK
    <2>2. RouteKept(w)'
      BY <1>1, <1>2, <2>1 DEF RowsInv, Routes, RouteKept, Claimed, Doing, Keeps, Before, Sent, Books
    <2>3. stray' = {} => SoloFit(w)'
      BY <1>1, <1>2, <2>1 DEF RowsInv, Solo, SoloFit, Doing, Keeps, Before, Sent, Books
    <2> QED BY <1>1, <1>2, <2>1, <2>2, <2>3, GoKept
            DEF Before, Sent, Books, remote, RowFit, SameTerms
  <1>5. ASSUME SameTerms(panel, row), Goto(w, "refund") PROVE RowsInv'
    <2>1. Others(w) /\ Keeps(w) /\ task'[w].pc = "refund"
      BY <1>1, <1>5, GotoKeeps DEF Steps
    <2>2. RouteKept(w)'
      BY <1>1, <1>2, <2>1 DEF RowsInv, Routes, RouteKept, Claimed, Doing, Keeps, Before, Sent, Books
    <2> QED BY <1>1, <1>2, <1>5, <2>1, <2>2, GoKept
            DEF Before, Sent, Books, remote, SoloFit, Doing, RowFit, SameTerms
  <1> QED BY <1>3, <1>4, <1>5 DEF ProbeRecovery, NotAppliedTo

LEMMA ProbeReconcilerKept ==
    ASSUME Inv, RowsInv, NEW w \in Procs, ProbeReconciler(w)
    PROVE  RowsInv'
  <1>1. task[w].pc = "probe" /\ task[w].flow = "reconciler" /\ UNCHANGED <<rows, Quiet, ghosts>>
    BY DEF ProbeReconciler, At, Runs
  <1>2. UNCHANGED <<Books, lock, stray>>
    BY <1>1 DEF rows, Quiet, ghosts, Books
  <1>3. ASSUME Leave(w) PROVE RowsInv'
    BY <1>1, <1>3, LeavingKept
  <1>4. ASSUME task' = [task EXCEPT ![w].pc = "adopt", ![w].seen = panel] PROVE RowsInv'
    <2>1. Others(w) /\ Keeps(w) /\ task'[w].pc = "adopt" /\ task'[w].seen = panel
      BY <1>1, <1>4, ReadKeeps DEF Steps, Inv, TypeOK
    <2>2. RouteKept(w)'
      BY <1>1, <1>2, <2>1 DEF RowsInv, Routes, RouteKept, Claimed, Doing, Keeps, Before, Sent, Books
    <2>3. stray' = {} => SoloFit(w)'
      BY <1>1, <1>2, <2>1 DEF RowsInv, Solo, SoloFit, Doing, Keeps, Before, Sent, Books
    <2> QED BY <1>1, <1>2, <2>1, <2>2, <2>3, GoKept
            DEF Before, Sent, Books, remote, RowFit, SameTerms
  <1>5. ASSUME ~MatchesIntent(intent[task[w].order], panel), Goto(w, "refund") PROVE RowsInv'
    <2>1. Others(w) /\ Keeps(w) /\ task'[w].pc = "refund"
      BY <1>1, <1>5, GotoKeeps DEF Steps
    <2>2. RouteKept(w)'
      BY <1>1, <1>2, <2>1 DEF RowsInv, Routes, RouteKept, Claimed, Doing, Keeps, Before, Sent, Books
    <2>3. ~Expected(task[w].order, panel)
      BY <1>1, <1>5 DEF RowsInv, Routes, RouteKept, MatchesIntent, Expected, SameTerms
    <2>4. ~Expected(task[w].order, panel)' /\ task'[w].order = task[w].order
      BY <1>2, <2>1, <2>3 DEF Expected, SameTerms, Books, remote, Keeps
    <2> QED BY <1>1, <1>2, <2>1, <2>2, <2>4, GoKept
            DEF Before, Sent, SoloFit, Doing, RowFit
  <1> QED BY <1>3, <1>4, <1>5 DEF ProbeReconciler, OrderOf

LEMMA SyncReadKept ==
    ASSUME Inv, RowsInv, NEW w \in Procs, SyncRead(w)
    PROVE  RowsInv'
  <1>1. task[w].pc = "probe" /\ task[w].flow = "sync" /\ UNCHANGED <<rows, Quiet, ghosts>>
    BY DEF SyncRead, At, Runs
  <1>2. UNCHANGED <<Books, lock, stray>>
    BY <1>1 DEF rows, Quiet, ghosts, Books
  <1>3. ASSUME Leave(w) PROVE RowsInv'
    BY <1>1, <1>3, LeavingKept
  <1>4. ASSUME task' = [task EXCEPT ![w].pc = "adopt", ![w].seen = panel] PROVE RowsInv'
    <2>1. Others(w) /\ Keeps(w) /\ task'[w].pc = "adopt" /\ task'[w].seen = panel
      BY <1>1, <1>4, ReadKeeps DEF Steps, Inv, TypeOK
    <2> QED BY <1>1, <1>2, <2>1, GoKept
            DEF Before, Sent, Books, remote, SoloFit, Doing, RowFit, SameTerms, RouteKept, Claimed, Keeps
  <1> QED BY <1>3, <1>4 DEF SyncRead

(* The steps that take, release or lose the lock.                          *)
LEMMA LockedKept ==
    ASSUME Inv, RowsInv, NEW w \in Procs, task[w].pc = "idle",
           NEW f \in {"pipeline", "executor", "sync", "recovery"}, NEW o \in Orders \cup {NoOrder},
           NEW pc \in {"body", "probe"}, f = "sync" \/ (o \in Orders /\ pc = "body"),
           lock = Free, lock' = w, UNCHANGED <<Books, stray>>,
           task' = [task EXCEPT ![w] = [IdleTask EXCEPT !.flow = f, !.order = o, !.pc = pc,
                                                        !.locked = TRUE]]
    PROVE  RowsInv'
  <1>1. Others(w) /\ task'[w].pc = pc /\ task'[w].flow = f
    <2>1. PICK t : t = [IdleTask EXCEPT !.flow = f, !.order = o, !.pc = pc, !.locked = TRUE]
      OBVIOUS
    <2>2. t.pc = pc /\ t.flow = f
      BY <2>1 DEF IdleTask
    <2>3. task' = [task EXCEPT ![w] = t]
      BY <2>1
    <2> QED BY <2>2, <2>3 DEF Inv, TypeOK, Others
  <1>2. RouteKept(w)'
    BY <1>1 DEF RouteKept, Claimed, Doing, Before, Sent
  <1> QED BY <1>1, <1>2, LockKept DEF Sent

LEMMA TakesKept ==
    ASSUME Inv, RowsInv, NEW w \in Procs,
           \/ OpenPage(w)
           \/ \E o \in Orders : Dispatch(w, o) \/ FollowUpPaid(w, o)
    PROVE  RowsInv'
  <1>1. CASE OpenPage(w)
    BY <1>1, LockedKept DEF OpenPage, Locked, At, rows, ghosts, Books
  <1>2. ASSUME NEW o \in Orders, Dispatch(w, o) PROVE RowsInv'
    BY <1>2, LockedKept DEF Dispatch, Locked, At, rows, ghosts, Books
  <1>3. ASSUME NEW o \in Orders, FollowUpPaid(w, o) PROVE RowsInv'
    BY <1>3, LockedKept DEF FollowUpPaid, At, rows, ghosts, Books
  <1> QED BY <1>1, <1>2, <1>3

(* What passes the processes by.                                           *)
LEMMA PassingKept ==
    ASSUME Inv, RowsInv, UNCHANGED <<Books, stray, task>>,
           lock' = lock \/ (lock = Dead /\ \A u \in flying : u[1] \in stray)
    PROVE  RowsInv'
  <1>1. Routes'
    BY DEF RowsInv, Routes, RouteFit, RouteKept, Claimed, Doing, Books
  <1>2. Solo'
    <2> SUFFICES ASSUME stray = {}
                 PROVE  (\A v \in Procs : SoloFit(v)') /\ (\A u \in flying' : FlyingFit(u)')
      BY DEF Solo
    <2>0. (\A v \in Procs : SoloFit(v)) /\ (\A u \in flying : FlyingFit(u))
      BY DEF RowsInv, Solo
    <2>1. \A v \in Procs : SoloFit(v)'
      BY <2>0 DEF SoloFit, Doing, Books
    <2>2. \A u \in flying' : FlyingFit(u)'
      BY <2>0 DEF FlyingFit, Books, remote
    <2> QED BY <2>1, <2>2
  <1>3. RowInv'
    BY DEF RowsInv, RowInv, RowFit, Explained, Expected, SameTerms, Books, remote
  <1> QED BY <1>1, <1>2, <1>3 DEF RowsInv

(* A process starts without the lock.                                      *)
LEMMA BeginKept ==
    ASSUME Inv, RowsInv, NEW w \in Procs, NEW o \in Orders, NEW f \in {"reconciler", "recovery"},
           NEW pc \in {"lock", "finish"}, task[w].pc = "idle", Begin(w, f, o, pc),
           UNCHANGED <<Books, lock, stray>>,
           pc = "finish" => f = "recovery" /\ o \in applied,
           f = "reconciler" => order[o] # "PAID" /\ intent[o].written
    PROVE  RowsInv'
  <1>1. Others(w) /\ task'[w].pc = pc /\ task'[w].flow = f /\ task'[w].order = o
    <2>1. task' = [task EXCEPT ![w] = StartedUnlocked(f, o, pc)]
      BY DEF StartedUnlocked, Begin
    <2>2. TasksOK /\ f \in Flows /\ pc \in Steps
      BY InvParts DEF Flows, Steps
    <2> QED BY <2>1, <2>2, StartHas, Zenon
  <1>2. RouteKept(w)'
    BY <1>1 DEF RouteKept, Claimed, Doing, Before, Sent, Books
  <1>3. SoloFit(w)' /\ RowFit(w)'
    BY <1>1 DEF SoloFit, Doing, RowFit, Before, Sent
  <1>4. stray' = {} /\ flying # {} => lock # w
    BY DEF RowsInv, Solo, FlyingFit
  <1> QED BY <1>1, <1>2, <1>3, <1>4, MoveKept

LEMMA FollowUpProvisioningKept ==
    ASSUME Inv, RowsInv, NEW w \in Procs, NEW o \in Orders, FollowUpProvisioning(w, o)
    PROVE  RowsInv'
  BY BeginKept DEF FollowUpProvisioning, At, rows, ghosts, Books

LEMMA RecoverNextKept ==
    ASSUME Inv, RowsInv, NEW o \in Orders, RecoverNext(o)
    PROVE  RowsInv'
  <1>1. task[Recovery].pc = "idle" /\ UNCHANGED <<Books, stray>>
    BY DEF RecoverNext, At, rows, ghosts, Books
  <1>2. Recovery \in Procs
    BY DEF Procs
  <1>3. CASE o \in applied /\ Begin(Recovery, "recovery", o, "finish") /\ UNCHANGED lock
    BY <1>1, <1>2, <1>3, BeginKept
  <1>4. CASE UNCHANGED <<task, lock>>
    BY <1>1, <1>4, PassingKept
  <1>5. CASE /\ lock = Free /\ lock' = Recovery
             /\ task' = [task EXCEPT ![Recovery] = [IdleTask EXCEPT
                            !.flow = "recovery", !.order = o, !.pc = "body", !.locked = TRUE]]
    BY <1>1, <1>2, <1>5, LockedKept
  <1> QED BY <1>3, <1>4, <1>5 DEF RecoverNext

LEMMA AcquireLockKept ==
    ASSUME Inv, RowsInv, NEW w \in Procs, AcquireLock(w)
    PROVE  RowsInv'
  <1>1. /\ task[w].pc = "lock" /\ lock = Free /\ lock' = w /\ UNCHANGED <<Books, stray>>
        /\ task' = [task EXCEPT ![w].locked = TRUE, ![w].pc = "probe"]
    BY DEF AcquireLock, At, rows, ghosts, Books
  <1>2. /\ Others(w) /\ task'[w].pc = "probe"
        /\ task'[w].flow = task[w].flow /\ task'[w].order = task[w].order
    BY <1>1 DEF Others, Inv, TypeOK, TaskRecord
  <1>3. task[w].flow = "reconciler"
    BY <1>1 DEF Inv, FlowFit
  <1>4. RouteKept(w)'
    BY <1>1, <1>2, <1>3 DEF RowsInv, Routes, RouteKept, Claimed, Doing, Before, Sent, Books
  <1> QED BY <1>1, <1>2, <1>3, <1>4, LockKept DEF Sent

LEMMA ReleaseLockKept ==
    ASSUME Inv, RowsInv, NEW w \in Procs, ReleaseLock(w)
    PROVE  RowsInv'
  <1>1. /\ task[w].pc = "release" /\ lock' = (IF lock = w THEN Free ELSE lock)
        /\ UNCHANGED <<Books, stray>> /\ task' = [task EXCEPT ![w] = IdleTask]
    BY DEF ReleaseLock, At, rows, ghosts, Books
  <1>2. Others(w) /\ task'[w].pc = "idle" /\ task'[w].flow = "none"
    BY <1>1 DEF Others, Inv, TypeOK, IdleTask
  <1>3. RouteKept(w)' /\ SoloFit(w)' /\ RowFit(w)'
    BY <1>2 DEF RouteKept, Claimed, Doing, SoloFit, RowFit, Before, Sent
  <1>4. stray' = {} /\ flying # {} => lock # w
    BY <1>1 DEF RowsInv, Solo, FlyingFit
  <1> QED BY <1>1, <1>2, <1>3, <1>4, MoveKept

LEMMA HeartbeatKept ==
    ASSUME Inv, RowsInv, NEW w \in Procs, Heartbeat(w)
    PROVE  RowsInv'
  <1>1. /\ UNCHANGED <<Books, lock, stray>> /\ task' = [task EXCEPT ![w].lost = TRUE]
    BY DEF Heartbeat, rows, Quiet, ghosts, Books
  <1>2. /\ Others(w) /\ Keeps(w) /\ task'[w].pc = task[w].pc
        /\ task'[w].seen = task[w].seen /\ task'[w].target = task[w].target
    BY <1>1 DEF Others, Keeps, Inv, TypeOK, TaskRecord
  <1>3. RouteKept(w)' /\ (stray' = {} => SoloFit(w)')
    BY <1>1, <1>2 DEF RowsInv, Routes, Solo, RouteKept, Claimed, Doing, SoloFit, Keeps, Books
  <1>4. stray' = {} /\ unrecorded = {} => RowFit(w)'
    BY <1>1, <1>2 DEF RowsInv, RowInv, RowFit, Expected, SameTerms, Keeps, Books, remote
  <1> QED BY <1>1, <1>2, <1>3, <1>4, MoveKept DEF Keeps

(* A lapse is recorded: it leaves a request behind.                        *)
LEMMA LockLapsesKept ==
    ASSUME Inv, RowsInv, NEW w \in Procs, LockLapses(w)
    PROVE  RowsInv'
  <1>1. /\ task' = task /\ UNCHANGED <<order, applied, intent>> /\ stray' # {}
    BY DEF LockLapses, rows
  <1>2. Routes'
    BY <1>1 DEF RowsInv, Routes, RouteFit, RouteKept, Claimed, Doing
  <1> QED BY <1>1, <1>2 DEF RowsInv, Solo, RowInv

LEMMA TimesKept ==
    ASSUME Inv, RowsInv,
           \/ StartRecovery \/ NextDay \/ LockExpires \/ UNCHANGED vars
           \/ \E o \in Orders : GrowsStale(o)
    PROVE  RowsInv'
  <1>1. CASE StartRecovery
    BY <1>1, PassingKept DEF StartRecovery, rows, ghosts, Books
  <1>2. CASE NextDay
    BY <1>2, PassingKept DEF NextDay, rows, ghosts, Books
  <1>3. CASE LockExpires
    BY <1>3, PassingKept DEF LockExpires, rows, ghosts, Books
  <1>4. CASE UNCHANGED vars
    BY <1>4, PassingKept DEF vars, rows, ghosts, Books
  <1>5. ASSUME NEW o \in Orders, GrowsStale(o) PROVE RowsInv'
    BY <1>5, PassingKept DEF GrowsStale, rows, ghosts, Books
  <1> QED BY <1>1, <1>2, <1>3, <1>4, <1>5

LEMMA BotCrashKept ==
    ASSUME Inv, RowsInv, BotCrash
    PROVE  RowsInv'
  <1>1. /\ UNCHANGED <<Books, stray>> /\ lock' = (IF lock = Free THEN Free ELSE Dead)
        /\ \A w \in Procs : task'[w].pc = "idle" /\ task'[w].flow = "none"
    BY DEF BotCrash, rows, ghosts, Books, IdleTask
  <1>2. Routes'
    BY <1>1 DEF RowsInv, Routes, RouteFit, RouteKept, Claimed, Doing, Before, Sent, Books
  <1>3. Solo'
    BY <1>1 DEF RowsInv, Solo, SoloFit, Doing, FlyingFit, Before, Sent, Books, remote
  <1>4. RowInv'
    BY <1>1 DEF RowsInv, RowInv, RowFit, Explained, Expected, SameTerms, Before, Books, remote
  <1> QED BY <1>2, <1>3, <1>4 DEF RowsInv


(* The steps that change the data, all but one by the holder of the lock:  *)
(* no other process is in the middle of anything.                          *)
LEMMA HolderAlone ==
    ASSUME Inv, RowsInv, NEW w \in Procs, task[w].pc \in Held \cup Sent, stray = {}
    PROVE  /\ lock = w
           /\ \A v \in Procs \ {w} : task[v].pc \notin Held \cup Sent
           /\ task[w].pc # "answer" => flying = {}
  <1>1. \A v \in Procs : task[v].pc \in Held \cup Sent => lock = v
    BY DEF Inv, LockFit, RowsInv, Solo, SoloFit, Doing
  <1>2. \A u \in flying : FlyingFit(u)
    BY DEF RowsInv, Solo
  <1> QED BY <1>1, <1>2 DEF FlyingFit

LEMMA HolderKept ==
    ASSUME Inv, RowsInv, NEW w \in Procs, task[w].pc \in Held \cup Sent, task[w].pc # "answer",
           Others(w), UNCHANGED <<lock, stray>>, unrecorded \subseteq unrecorded',
           applied \subseteq applied',
           \A o \in Orders : /\ order'[o] = "PAID" => order[o] = "PAID"
                             /\ intent[o].written => intent'[o].written
                             /\ RouteFit(o)',
           RouteKept(w)',
           stray = {} /\ flying = {} => SoloFit(w)' /\ \A u \in flying' : FlyingFit(u)',
           /\ stray = {} /\ flying = {} /\ unrecorded' = {} /\ Explained /\ RowFit(w)
           => Explained' /\ RowFit(w)' /\ \A u \in flying' : Expected(u[1], u[2])'
    PROVE  RowsInv'
  <1>1. ASSUME NEW v \in Procs \ {w} PROVE RouteKept(v)'
    <2>1. RouteKept(v) /\ FlowFit(v) /\ task'[v] = task[v]
      BY DEF RowsInv, Routes, Others, Inv
    <2>2. Claimed(task[v]) \/ task[v].flow = "reconciler" => task[v].order \in Orders
      <3>1. Claimed(task[v]) \/ task[v].flow = "reconciler" =>
              task[v].flow \in {"executor", "reconciler"} \/ (task[v].pc # "idle" /\ task[v].flow # "sync")
        BY <2>1 DEF Claimed, Doing, FlowFit, Before, Sent
      <3>2. MiniApp \subseteq Orders
        OBVIOUS
      <3> QED BY <2>1, <3>1, <3>2, OrderTyped DEF FlowFit
    <2> QED BY <2>1, <2>2 DEF RouteKept
  <1>2. Routes'
    BY <1>1 DEF Routes
  <1>3. ASSUME stray = {}
        PROVE  /\ flying = {}
               /\ \A v \in Procs \ {w} : SoloFit(v)' /\ RowFit(v)'
    <2>1. flying = {} /\ \A v \in Procs \ {w} : task[v].pc \notin Held \cup Sent
      BY <1>3, HolderAlone
    <2> QED BY <2>1 DEF SoloFit, Doing, RowFit, Others, Held, Sent, Before
  <1>4. Solo'
    BY <1>3 DEF Solo
  <1>5. RowInv'
    BY <1>3 DEF RowInv, RowsInv
  <1> QED BY <1>2, <1>4, <1>5 DEF RowsInv

LEMMA HolderLeaves ==
    ASSUME Inv, RowsInv, NEW w \in Procs, task[w].pc \in Held \cup Sent, task[w].pc # "answer",
           Leave(w), UNCHANGED <<lock, stray, intent, flying>>, unrecorded \subseteq unrecorded',
           applied \subseteq applied',
           \A o \in Orders : (order'[o] = "PAID" => order[o] = "PAID") /\ RouteFit(o)',
           stray = {} /\ flying = {} /\ unrecorded' = {} /\ Explained /\ RowFit(w) => Explained'
    PROVE  RowsInv'
  <1>1. Others(w) /\ Left(w)
    BY LeaveLeft DEF Held, Sent
  <1>2. SoloFit(w)' /\ RowFit(w)'
    BY <1>1 DEF SoloFit, Doing, RowFit, Left, Before, Sent
  <1>3. RouteKept(w)'
    <2>1. task[w].flow = "reconciler" => task[w].order \in Orders
      BY OrderTyped DEF Held, Sent
    <2> QED BY <1>1, <2>1 DEF RowsInv, Routes, RouteKept, Claimed, Doing, Left, Keeps, Before, Sent
  <1> QED BY <1>1, <1>2, <1>3, HolderKept

LEMMA ClaimKept ==
    ASSUME Inv, RowsInv, NEW w \in Procs, Claim(w)
    PROVE  RowsInv'
  <1> DEFINE o == task[w].order
             t == IF task[w].flow = "pipeline" THEN Target(o, task[w].seen, today) ELSE task[w].target
  <1>1. /\ task[w].pc = "claim" /\ order' = Flip(o, {"PAID"}, "PROVISIONING")
        /\ UNCHANGED <<refunds, row, applied, appApplied, Quiet, ghosts>>
    BY DEF Claim, At, OrderOf
  <1>2. o \in Orders /\ task[w].flow \in {"pipeline", "executor"}
    BY <1>1, OrderTyped DEF Inv, FlowFit
  <1>3. /\ order' \in [Orders -> OrderStatuses]
        /\ order'[o] = IF order[o] = "PAID" THEN "PROVISIONING" ELSE order[o]
        /\ \A d \in Orders \ {o} : order'[d] = order[d]
    BY <1>1, <1>2, FlipHas, InvParts DEF OrderStatuses
  <1>4. CASE order[o] # "PAID" /\ Leave(w) /\ UNCHANGED intent
    <2>1. order' = order
      BY <1>3, <1>4 DEF Inv, TypeOK
    <2> QED BY <1>1, <1>4, <2>1, LeavingKept DEF rows
  <1>5. CASE /\ order[o] = "PAID"
             /\ task' = [task EXCEPT ![w].target = t,
                          ![w].pc = IF Operation[o] = "EXTRA_TIME" THEN "send" ELSE "reset"]
             /\ intent' = IF task[w].flow = "pipeline" THEN intent
                          ELSE [intent EXCEPT ![o] = [before |-> task[w].seen, expected |-> t,
                                                      written |-> TRUE]]
    <2> HIDE DEF t
    <2>1. /\ Others(w) /\ Keeps(w) /\ task'[w].pc \in Before /\ task'[w].target = t
      BY <1>5 DEF Others, Keeps, Inv, TypeOK, TaskRecord, Before
    <2>2. /\ requests[o] = 0 /\ ~intent[o].written /\ o \notin applied
      BY <1>2, <1>5 DEF Inv, OrderFit, RowsInv, Routes, RouteFit
    <2>3. /\ \A d \in Orders \ {o} : intent'[d] = intent[d]
          /\ intent'[o].written => intent'[o].expected = t
          /\ \A d \in Orders : intent[d].written => intent'[d].written
      BY <1>2, <1>5, <2>2 DEF Inv, TypeOK
    <2>4. \A d \in Orders : (order'[d] = "PAID" => order[d] = "PAID") /\ RouteFit(d)'
      BY <1>1, <1>2, <1>3, <1>5, <2>2, <2>3 DEF RowsInv, Routes, RouteFit
    <2>5. RouteKept(w)'
      BY <1>2, <1>3, <1>5, <2>1 DEF RouteKept, Claimed, Doing, Keeps, Before
    <2>6. SoloFit(w)'
      BY <1>2, <1>3, <1>5, <2>1 DEF SoloFit, Doing, Keeps, Before, Sent
    <2>7. RowFit(w)'
      BY <1>2, <2>1, <2>3 DEF RowFit, Expected, SameTerms, Keeps, Before
    <2>8. Explained => Explained'
      <3>1. ASSUME NEW d \in Orders, order[d] = "PROVISIONING", requests[d] > 0, Expected(d, panel)
            PROVE  Explained'
        <4>1. d # o
          BY <3>1, <1>5
        <4> QED BY <1>1, <1>3, <2>3, <3>1, <4>1 DEF Explained, Expected, SameTerms, Quiet, remote
      <3> QED BY <1>1, <3>1 DEF Explained, SameTerms, Quiet, remote
    <2>9. UNCHANGED <<lock, stray, unrecorded, applied, flying>>
      BY <1>1 DEF Quiet, remote, ghosts
    <2>10. \A d \in Orders : /\ order'[d] = "PAID" => order[d] = "PAID"
                             /\ intent[d].written => intent'[d].written
                             /\ RouteFit(d)'
      BY <2>3, <2>4
    <2> QED BY <1>1, <2>1, <2>5, <2>6, <2>7, <2>8, <2>9, <2>10, HolderKept DEF Held
  <1> QED BY <1>4, <1>5 DEF Claim, OrderOf, Runs

LEMMA ResetTrafficKept ==
    ASSUME Inv, RowsInv, NEW w \in Procs, ResetTraffic(w)
    PROVE  RowsInv'
  <1>1. /\ task[w].pc = "reset" /\ panel' = [panel EXCEPT !.used = 0]
        /\ UNCHANGED <<order, row, intent, applied, flying, requests, lock, ghosts>>
        /\ \E pc \in {"send", "refund"} : Goto(w, pc)
    BY DEF ResetTraffic, At, rows
  <1>2. /\ Others(w) /\ Keeps(w) /\ task'[w].pc \in {"send", "refund"}
        /\ task'[w].target = task[w].target
    BY <1>1, GotoKeeps DEF Steps
  <1>3. panel'.limit = panel.limit /\ panel'.expiry = panel.expiry
    BY <1>1 DEF Inv, TypeOK, Values
  <1>4. task[w].order \in Orders /\ requests[task[w].order] = 0
    <2>1. task[w].order \in Orders
      BY <1>1, OrderTyped DEF Inv, FlowFit, Before
    <2> QED BY <1>1, <2>1 DEF Inv, OrderFit, Before
  <1>5. RouteKept(w)' /\ \A o \in Orders : RouteFit(o)'
    BY <1>1, <1>2 DEF RowsInv, Routes, RouteKept, RouteFit, Claimed, Doing, Keeps, Before, Sent
  <1>6. stray = {} => SoloFit(w)' /\ \A u \in flying' : FlyingFit(u)'
    <2> SUFFICES ASSUME stray = {} PROVE SoloFit(w)' /\ flying' = {}
      OBVIOUS
    <2>1. flying = {}
      BY <1>1, HolderAlone DEF Held
    <2> QED BY <1>1, <1>2, <2>1 DEF RowsInv, Solo, SoloFit, Doing, Keeps, Before, Sent
  <1>7. Explained => Explained'
    BY <1>1, <1>3 DEF Explained, Expected, SameTerms
  <1>8. RowFit(w) => RowFit(w)'
    BY <1>1, <1>2, <1>3, <1>4 DEF RowFit, Expected, SameTerms, Keeps, Before
  <1>9. UNCHANGED <<stray, unrecorded>>
    BY <1>1 DEF ghosts
  <1> QED BY <1>1, <1>2, <1>5, <1>6, <1>7, <1>8, <1>9, HolderKept DEF Held

LEMMA SendUpdateKept ==
    ASSUME Inv, RowsInv, NEW w \in Procs, SendUpdate(w)
    PROVE  RowsInv'
  <1> DEFINE o == task[w].order
  <1>1. /\ task[w].pc = "send" /\ flying' = flying \cup {<<o, task[w].target>>}
        /\ requests' = [requests EXCEPT ![o] = @ + 1] /\ Goto(w, "answer")
        /\ UNCHANGED <<order, row, intent, applied, panel, lock, ghosts>>
    BY DEF SendUpdate, At, rows, OrderOf
  <1>2. Others(w) /\ Keeps(w) /\ task'[w].pc = "answer"
    BY <1>1, GotoKeeps DEF Steps
  <1>3. o \in Orders
    BY <1>1, OrderTyped DEF Inv, FlowFit
  <1>4. /\ \A d \in Orders : requests'[d] >= requests[d]
        /\ requests'[o] > 0
    BY <1>1, <1>3 DEF Inv, TypeOK
  <1>5. RouteKept(w)' /\ \A d \in Orders : RouteFit(d)'
    BY <1>1, <1>2 DEF RowsInv, Routes, RouteKept, RouteFit, Claimed, Doing, Keeps, Before, Sent
  <1>6. stray = {} => SoloFit(w)' /\ \A u \in flying' : FlyingFit(u)'
    <2> SUFFICES ASSUME stray = {} PROVE SoloFit(w)' /\ \A u \in flying' : FlyingFit(u)'
      OBVIOUS
    <2>1. flying = {} /\ lock = w /\ order[o] = "PROVISIONING"
      BY <1>1, HolderAlone DEF Held, RowsInv, Solo, SoloFit, Doing, Before
    <2>2. SoloFit(w)'
      BY <1>1, <1>2, <2>1 DEF SoloFit, Doing, Keeps, Before
    <2> QED BY <1>1, <1>2, <1>4, <2>1, <2>2 DEF FlyingFit, Keeps
  <1>7. Explained => Explained'
    BY <1>1, <1>4 DEF Explained, Expected, SameTerms, Inv, TypeOK
  <1>8. RowFit(w) /\ flying = {} => RowFit(w)' /\ \A u \in flying' : Expected(u[1], u[2])'
    BY <1>1, <1>2 DEF RowFit, Expected, SameTerms, Before
  <1>9. UNCHANGED <<stray, unrecorded>>
    BY <1>1 DEF ghosts
  <1> QED BY <1>1, <1>2, <1>5, <1>6, <1>7, <1>8, <1>9, HolderKept DEF Held


(* The holder writes the row, and with it the order and the event.         *)
LEMMA WritesRow ==
    ASSUME Inv, RowsInv, NEW w \in Procs, task[w].pc \in {"persist", "retry", "adopt"}, Leave(w),
           row' = task[w].seen, UNCHANGED <<Quiet, stray, unrecorded, intent>>,
           \/ UNCHANGED <<order, applied>>
           \/ /\ task[w].order \in Orders /\ order[task[w].order] # "PAID"
              /\ \/ /\ order' = Flip(task[w].order, {"PROVISIONING"}, "COMPLETED")
                    /\ applied' \in {applied, applied \cup {task[w].order}}
                 \/ /\ order' = Flip(task[w].order, OrderStatuses, "COMPLETED")
                    /\ applied' = applied
    PROVE  RowsInv'
  <1>1. /\ applied \subseteq applied'
        /\ \A o \in Orders : (order'[o] = "PAID" => order[o] = "PAID") /\ RouteFit(o)'
    <2>1. CASE UNCHANGED <<order, applied>>
      BY <2>1 DEF RowsInv, Routes, RouteFit
    <2>2. CASE /\ task[w].order \in Orders /\ order[task[w].order] # "PAID"
               /\ order' = Flip(task[w].order, {"PROVISIONING"}, "COMPLETED")
               /\ applied' \in {applied, applied \cup {task[w].order}}
      BY <2>2 DEF RowsInv, Routes, RouteFit, Flip, Inv, TypeOK
    <2>3. CASE /\ task[w].order \in Orders
               /\ order' = Flip(task[w].order, OrderStatuses, "COMPLETED") /\ applied' = applied
      BY <2>3 DEF RowsInv, Routes, RouteFit, Flip, Inv, TypeOK, OrderStatuses
    <2> QED BY <2>1, <2>2, <2>3
  <1>2. RowFit(w) => Explained'
    BY DEF RowFit, Explained, SameTerms, Quiet, remote
  <1>3. UNCHANGED <<lock, flying>>
    BY DEF Quiet, remote
  <1> QED BY <1>1, <1>2, <1>3, HolderLeaves DEF Held, Sent

LEMMA PersistKept ==
    ASSUME Inv, RowsInv, NEW w \in Procs, Persist(w)
    PROVE  RowsInv'
  <1>1. /\ task[w].pc \in {"persist", "retry"} /\ Leave(w) /\ row' = task[w].seen
        /\ UNCHANGED <<Quiet, stray, unrecorded, intent>>
        /\ order' = Flip(task[w].order, {"PROVISIONING"}, "COMPLETED")
        /\ applied' \in {applied, applied \cup {task[w].order}}
    BY DEF Persist, PersistApplied, PersistAppApplied, At, ghosts, OrderOf
  <1>2. task[w].order \in Orders /\ order[task[w].order] # "PAID"
    BY <1>1, OrderTyped DEF Inv, FlowFit, Sent, RowsInv, Routes, RouteKept, Claimed, Doing
  <1> QED BY <1>1, <1>2, WritesRow

LEMMA AdoptKept ==
    ASSUME Inv, RowsInv, NEW w \in Procs, Adopt(w)
    PROVE  RowsInv'
  <1>1. /\ task[w].pc = "adopt" /\ task[w].flow # "sync" /\ Leave(w)
        /\ UNCHANGED <<Quiet, stray, unrecorded>>
    BY DEF Adopt, At, Runs
  <1>2. task[w].flow \in {"recovery", "reconciler"} => task[w].order \in Orders /\ order[task[w].order] # "PAID"
    BY <1>1, OrderTyped DEF RowsInv, Routes, RouteKept, Claimed, Doing
  <1>3. CASE Runs(w, "recovery") /\ PersistApplied(task[w].order, task[w].seen)
    BY <1>1, <1>2, <1>3, WritesRow DEF PersistApplied, Runs
  <1>4. CASE Runs(w, "reconciler") /\ PersistAppApplied(task[w].order, task[w].seen, OrderStatuses)
    BY <1>1, <1>2, <1>4, WritesRow DEF PersistAppApplied, Runs
  <1>5. CASE UNCHANGED <<rows, guessed, blurred>>
    BY <1>1, <1>5, LeavingKept DEF ghosts
  <1> QED BY <1>3, <1>4, <1>5 DEF Adopt, OrderOf

LEMMA SyncWriteKept ==
    ASSUME Inv, RowsInv, NEW w \in Procs, SyncWrite(w)
    PROVE  RowsInv'
  BY WritesRow DEF SyncWrite, At

(* A refund leaves no open order that the panel would owe its values to.   *)
LEMMA RefundKept ==
    ASSUME Inv, RowsInv, NEW w \in Procs, Refund(w)
    PROVE  RowsInv'
  <1> DEFINE o == task[w].order
  <1>1. /\ task[w].pc \in {"refund", "orphan"} /\ Leave(w) /\ UNCHANGED <<row, intent, applied, Quiet, stray>>
        /\ order' = Flip(o, {"PAID", "PROVISIONING"}, "FAILED")
        /\ unrecorded' = IF task[w].pc = "orphan" THEN unrecorded \cup {o} ELSE unrecorded
    BY DEF Refund, FailOrderWithRefund, At, OrderOf
  <1>2. o \in Orders
    BY <1>1, OrderTyped DEF Inv, FlowFit
  <1>3. /\ order'[o] \notin {"PAID", "PROVISIONING"}
        /\ \A d \in Orders \ {o} : order'[d] = order[d]
    BY <1>1, <1>2 DEF Flip, Inv, TypeOK
  <1>4. \A d \in Orders : (order'[d] = "PAID" => order[d] = "PAID") /\ RouteFit(d)'
    BY <1>1, <1>3 DEF RowsInv, Routes, RouteFit
  <1>5. UNCHANGED <<lock, flying, panel, requests>> /\ unrecorded \subseteq unrecorded'
    BY <1>1 DEF Quiet, remote
  <1>6. ASSUME unrecorded' = {}, Explained, RowFit(w) PROVE Explained'
    <2>1. task[w].pc = "refund"
      BY <1>1, <1>6
    <2>2. CASE SameTerms(row, panel)
      BY <1>1, <1>5, <2>2 DEF Explained, SameTerms
    <2>3. ASSUME NEW d \in Orders, order[d] = "PROVISIONING", requests[d] > 0, Expected(d, panel),
                 ~SameTerms(row, panel)
          PROVE  Explained'
      <3>1. d # o
        BY <1>6, <2>1, <2>3 DEF RowFit
      <3> QED BY <1>1, <1>3, <1>5, <2>3, <3>1 DEF Explained, Expected, SameTerms
    <2> QED BY <1>6, <2>2, <2>3 DEF Explained
  <1> QED BY <1>1, <1>4, <1>5, <1>6, HolderLeaves DEF Held, Sent

(* The order of an applied operation is no longer open.                    *)
LEMMA FinishKept ==
    ASSUME Inv, RowsInv, NEW w \in Procs, Finish(w)
    PROVE  RowsInv'
  <1> DEFINE o == task[w].order
             from == IF Runs(w, "recovery") THEN {"PROVISIONING"} ELSE OrderStatuses
  <1>1. /\ task[w].pc = "finish" /\ Leave(w)
        /\ order' = Flip(o, from, "COMPLETED")
        /\ UNCHANGED <<row, intent, applied, Quiet, ghosts>>
    BY DEF Finish, CompleteOrder, At, OrderOf
  <1>2. o \in Orders /\ order[o] \notin {"PAID", "PROVISIONING"}
    BY <1>1 DEF RowsInv, Routes, RouteKept, RouteFit, Inv, TypeOK
  <1>3. /\ order'[o] \notin {"PAID", "PROVISIONING"}
        /\ \A d \in Orders \ {o} : order'[d] = order[d]
    <2> HIDE DEF from
    <2> QED BY <1>1, <1>2 DEF Flip, Inv, TypeOK
  <1>4. Others(w) /\ Left(w) /\ UNCHANGED <<lock, stray, unrecorded, panel, flying, requests>>
    BY <1>1, LeaveLeft DEF Quiet, remote, ghosts
  <1>5. ASSUME NEW d \in Orders
        PROVE  /\ order'[d] = "PAID" <=> order[d] = "PAID"
               /\ order'[d] = "PROVISIONING" <=> order[d] = "PROVISIONING"
    BY <1>2, <1>3
  <1>6. Routes'
    <2>1. \A d \in Orders : RouteFit(d)'
      BY <1>1, <1>5 DEF RowsInv, Routes, RouteFit
    <2>2. RouteKept(w)'
      BY <1>1, <1>2, <1>4, <1>5 DEF RowsInv, Routes, RouteKept, Claimed, Doing, Left, Keeps, Before, Sent
    <2>3. ASSUME NEW v \in Procs \ {w} PROVE RouteKept(v)'
      <3>1. RouteKept(v) /\ FlowFit(v) /\ task'[v] = task[v]
        BY <1>4 DEF RowsInv, Routes, Others, Inv
      <3>2. Claimed(task[v]) => order'[task[v].order] # "PAID"
        BY <1>1, <1>3, <3>1 DEF RouteKept, Flip, Inv, TypeOK
      <3> QED BY <1>1, <3>1, <3>2 DEF RouteKept
    <2> QED BY <2>1, <2>2, <2>3 DEF Routes
  <1>7. Solo'
    <2> SUFFICES ASSUME stray = {}
                 PROVE  (\A v \in Procs : SoloFit(v)') /\ (\A u \in flying : FlyingFit(u)')
      BY <1>4 DEF Solo
    <2>0. (\A v \in Procs : SoloFit(v)) /\ (\A u \in flying : FlyingFit(u) /\ u[1] \in Orders)
      BY DEF RowsInv, Solo, Inv, TypeOK
    <2>1. SoloFit(w)'
      BY <1>4 DEF SoloFit, Doing, Left, Before, Sent
    <2>2. ASSUME NEW v \in Procs \ {w} PROVE SoloFit(v)'
      <3>1. Doing(task[v]) => task[v].order \in Orders
        BY OrderTyped DEF Doing, Inv, FlowFit, Before, Sent
      <3> QED BY <2>0, <1>4, <1>5, <3>1 DEF SoloFit, Doing, Others
    <2>3. ASSUME NEW u \in flying PROVE FlyingFit(u)'
      BY <2>0, <1>1, <1>4, <1>5 DEF FlyingFit, Others
    <2> QED BY <2>1, <2>2, <2>3
  <1>8. RowInv'
    <2> SUFFICES ASSUME stray = {}, unrecorded = {}
                 PROVE  /\ Explained' /\ (\A v \in Procs : RowFit(v)')
                        /\ \A u \in flying : Expected(u[1], u[2])'
      BY <1>4 DEF RowInv
    <2>0. Explained /\ (\A v \in Procs : RowFit(v)) /\ \A u \in flying : Expected(u[1], u[2])
      BY DEF RowsInv, RowInv
    <2>1. Explained'
      BY <2>0, <1>1, <1>4, <1>5 DEF Explained, Expected, SameTerms
    <2>2. RowFit(w)'
      BY <1>4 DEF RowFit, Left, Before
    <2>3. \A v \in Procs \ {w} : RowFit(v)'
      BY <2>0, <1>1, <1>4 DEF RowFit, Expected, SameTerms, Others
    <2>4. \A u \in flying : Expected(u[1], u[2])'
      BY <2>0, <1>1 DEF Expected, SameTerms
    <2> QED BY <2>1, <2>2, <2>3, <2>4
  <1> QED BY <1>6, <1>7, <1>8 DEF RowsInv

(* A request that lands gives the panel the values its order asked for.    *)
LEMMA FlyingKept ==
    ASSUME Inv, RowsInv, NEW u \in flying, UpdateLands(u) \/ UpdateIsLost(u)
    PROVE  RowsInv'
  <1>1. /\ flying' = flying \ {u}
        /\ UNCHANGED <<order, row, intent, applied, requests, lock, task, stray, unrecorded>>
    BY DEF UpdateLands, UpdateIsLost, rows, ghosts
  <1>2. \/ UNCHANGED panel
        \/ UpdateLands(u) /\ panel' = [panel EXCEPT !.limit = u[2].limit, !.expiry = u[2].expiry]
    BY DEF UpdateLands, UpdateIsLost
  <1>3. Routes'
    BY <1>1 DEF RowsInv, Routes, RouteFit, RouteKept, Claimed, Doing
  <1>4. Solo'
    BY <1>1 DEF RowsInv, Solo, SoloFit, Doing, FlyingFit
  <1>5. RowInv'
    <2> SUFFICES ASSUME stray = {}, unrecorded = {}
                 PROVE  /\ Explained' /\ (\A v \in Procs : RowFit(v)')
                        /\ \A x \in flying' : Expected(x[1], x[2])'
      BY <1>1 DEF RowInv
    <2>0. /\ Explained /\ (\A v \in Procs : RowFit(v)) /\ \A x \in flying : Expected(x[1], x[2])
          /\ FlyingFit(u)
      BY DEF RowsInv, RowInv, Solo
    <2>1. CASE UNCHANGED panel
      BY <1>1, <2>0, <2>1 DEF Explained, RowFit, Expected, SameTerms
    <2>2. CASE UpdateLands(u) /\ panel' = [panel EXCEPT !.limit = u[2].limit, !.expiry = u[2].expiry]
      <3>1. SameTerms(panel, u[2])'
        BY <2>2 DEF SameTerms, Inv, TypeOK, Values
      <3>2. u[1] \in Orders
        BY DEF Inv, TypeOK
      <3>3. Explained'
        BY <1>1, <2>0, <3>1, <3>2 DEF Explained, Expected, SameTerms, FlyingFit
      <3>4. ASSUME NEW v \in Procs PROVE task[v].pc \in Before \/ task[v].pc \notin Held \cup Sent \/ task[v].pc \in {"answer", "body", "claim", "probe", "orphan"}
        <4>1. lock = v => task[v].pc = "answer"
          BY <2>0 DEF FlyingFit
        <4> QED BY <4>1 DEF Inv, LockFit, RowsInv, Solo, SoloFit, Doing
      <3>5. \A v \in Procs : RowFit(v)'
        BY <1>1, <2>0, <3>4 DEF RowFit, Expected, SameTerms, Held, Sent, Before
      <3>6. \A x \in flying' : Expected(x[1], x[2])'
        BY <1>1, <2>0 DEF Expected, SameTerms
      <3> QED BY <3>3, <3>5, <3>6
    <2> QED BY <1>2, <2>1, <2>2
  <1> QED BY <1>3, <1>4, <1>5 DEF RowsInv

LEMMA RowsInit == Init => RowsInv
  <1> SUFFICES ASSUME Init PROVE RowsInv
    OBVIOUS
  <1>1. /\ \A w \in Procs : task[w].pc = "idle" /\ task[w].flow = "none"
        /\ \A o \in Orders : order[o] = "PAID" /\ ~intent[o].written
        /\ applied = {} /\ flying = {} /\ SameTerms(row, panel)
    BY DEF Init, IdleTask, NoIntent, SameTerms
  <1>2. Routes
    BY <1>1 DEF Routes, RouteFit, RouteKept, Claimed, Doing, Before, Sent
  <1>3. Solo
    BY <1>1 DEF Solo, SoloFit, Doing, Before, Sent
  <1>4. RowInv
    BY <1>1 DEF RowInv, Explained, RowFit, Before
  <1> QED BY <1>2, <1>3, <1>4 DEF RowsInv

LEMMA RowsStep == Inv /\ RowsInv /\ [Next]_vars => RowsInv'
  <1> SUFFICES ASSUME Inv, RowsInv, [Next]_vars PROVE RowsInv'
    OBVIOUS
  <1>1. ASSUME NEW w \in Procs, Step(w) PROVE RowsInv'
    <2>1. ASSUME GiveUpLock(w) PROVE RowsInv'
      BY <2>1, LeavingKept DEF GiveUpLock, At
    <2> QED BY <1>1, <2>1, Zenon, AcquireLockKept, ReleaseLockKept, PipelineBodyKept,
         ExecutorBodyKept, RecoveryBodyKept, FinishKept, ClaimKept, PanelRefusesKept,
         ResetTrafficKept, SendUpdateKept, UpdateConfirmedKept, UpdateUnknownKept, PersistKept,
         PersistFailsKept, RefundKept, ProbeRecoveryKept, ProbeReconcilerKept, AdoptKept,
         SyncReadKept, SyncWriteKept, LockLapsesKept, HeartbeatKept DEF Step
  <1>2. ASSUME NEW w \in Procs, OpenPage(w) PROVE RowsInv'
    BY <1>2, TakesKept
  <1>3. ASSUME NEW w \in Procs, NEW o \in Orders,
               Dispatch(w, o) \/ FollowUpPaid(w, o) \/ FollowUpProvisioning(w, o)
        PROVE  RowsInv'
    BY <1>3, TakesKept, FollowUpProvisioningKept
  <1>4. ASSUME NEW o \in Orders, RecoverNext(o) \/ GrowsStale(o) PROVE RowsInv'
    BY <1>4, RecoverNextKept, TimesKept
  <1>5. ASSUME NEW u \in flying, UpdateLands(u) \/ UpdateIsLost(u) PROVE RowsInv'
    BY <1>5, FlyingKept
  <1>6. ASSUME StartRecovery \/ NextDay \/ LockExpires \/ BotCrash \/ UNCHANGED vars PROVE RowsInv'
    BY <1>6, TimesKept, BotCrashKept
  <1> QED BY <1>1, <1>2, <1>3, <1>4, <1>5, <1>6, Zenon DEF Next

LEMMA RowsAlways == Spec => []RowsInv
  BY RowsInit, RowsStep, InvAlways, PTL DEF Spec

(* Once every order is settled, the terms on the service page are those    *)
(* the panel enforces: whatever the pipelines, the executor and the        *)
(* reconcilers did, the last of them to write the panel also wrote the     *)
(* row, or left an order open that accounts for the difference.            *)
THEOREM RowFollowsPanel == Spec => []RowIsPanel
  <1>1. RowsInv => RowIsPanel
    BY DEF RowsInv, RowInv, Explained, RowIsPanel
  <1> QED BY <1>1, RowsAlways, PTL


-----------------------------------------------------------------------------
(* What a set of orders buys.  The sum of the library is one recursive     *)
(* function on the subsets of the orders; that it exists, and what it      *)
(* returns, follows from a smallest counterexample.                        *)

(* Of some subsets of a finite set one has none below it.                  *)
LEMMA Smallest ==
    ASSUME NEW S, IsFiniteSet(S), NEW T \in SUBSET SUBSET S, T # {}
    PROVE  \E s \in T : \A x \in s : s \ {x} \notin T
  <1>1. IsWellFoundedOn(StrictSubsetOrdering(S), SUBSET S)
    <2>1. FiniteSubsetsOf(S) = SUBSET S
      BY FS_FiniteSubsetsOfFinite
    <2>2. IsWellFoundedOn(StrictSubsetOrdering(S), FiniteSubsetsOf(S))
      BY FS_StrictSubsetOrderingWellFounded
    <2> QED BY <2>1, <2>2, Zenon
  <1>2. PICK s \in T : \A r \in T : <<r, s>> \notin StrictSubsetOrdering(S)
    BY <1>1, WFMin
  <1>3. ASSUME NEW x \in s, s \ {x} \in T PROVE FALSE
    BY <1>2, <1>3 DEF StrictSubsetOrdering
  <1> QED BY <1>2, <1>3

(* Of some numbers one is the least.                                       *)
LEMMA LeastNumber ==
    ASSUME NEW T \in SUBSET Nat, T # {}
    PROVE  \E n \in T : n = 0 \/ n - 1 \notin T
  <1>1. PICK n \in T : \A m \in T : <<m, n>> \notin OpToRel(<, Nat)
    BY NatLessThanWellFounded, WFMin
  <1>2. \A m \in T : ~(m < n)
    BY <1>1 DEF OpToRel
  <1> QED BY <1>2

(* How the fold takes its next term. *)
Pick(s) == CHOOSE x \in s : TRUE
Summand(f, g, s) == IF s = {} THEN 0 ELSE f[Pick(s)] + g[s \ {Pick(s)}]

(* The sums of all subsets exist.                                          *)
LEMMA SumTable ==
    ASSUME NEW S, IsFiniteSet(S), NEW f
    PROVE  \E g : g = [s \in SUBSET S |-> Summand(f, g, s)]
  <1> DEFINE Small(n) == {s \in SUBSET S : Cardinality(s) <= n}
             Table(n, g) == g = [s \in Small(n) |-> Summand(f, g, s)]
             Missing == {n \in Nat : ~\E g : Table(n, g)}
  <1>1. \A s \in SUBSET S : /\ IsFiniteSet(s) /\ Cardinality(s) \in Nat
                            /\ (s = {} <=> Cardinality(s) = 0)
    BY FS_Subset, FS_CardinalityType, FS_EmptySet
  <1>2. \A s \in SUBSET S : s # {} => /\ Pick(s) \in s /\ s \ {Pick(s)} \in SUBSET S
                                      /\ Cardinality(s \ {Pick(s)}) = Cardinality(s) - 1
    BY <1>1, FS_RemoveElement DEF Pick
  <1>3. Table(0, [s \in Small(0) |-> 0])
    <2>1. \A s \in Small(0) : s = {}
      BY <1>1
    <2> QED BY <2>1 DEF Summand
  <1>4. ASSUME NEW n \in Nat, NEW g, Table(n, g) PROVE \E h : Table(n + 1, h)
    <2> DEFINE h == [s \in Small(n + 1) |-> Summand(f, g, s)]
    <2>1. ASSUME NEW s \in Small(n + 1) PROVE Summand(f, g, s) = Summand(f, h, s)
      <3>1. CASE s = {}
        BY <3>1 DEF Summand
      <3>2. CASE s # {}
        <4> DEFINE r == s \ {Pick(s)}
        <4>1. r \in Small(n) /\ r \in Small(n + 1)
          BY <1>1, <1>2, <3>2
        <4>2. g[r] = Summand(f, g, r) /\ h[r] = Summand(f, g, r)
          BY <1>4, <4>1
        <4> QED BY <4>2 DEF Summand
      <3> QED BY <3>1, <3>2
    <2>2. Table(n + 1, h)
      BY <2>1
    <2> QED BY <2>2
  <1> HIDE DEF Table
  <1>5. Missing = {}
    <2>1. SUFFICES ASSUME Missing # {} PROVE FALSE
      OBVIOUS
    <2>2. PICK n \in Missing : n = 0 \/ n - 1 \notin Missing
      BY <2>1, LeastNumber
    <2>3. n \in Nat /\ n # 0 /\ n - 1 \in Nat
      BY <1>3, <2>2
    <2>4. PICK g : Table(n - 1, g)
      BY <2>2, <2>3
    <2>5. \E h : Table(n - 1 + 1, h)
      BY <1>4, <2>3, <2>4
    <2> QED BY <2>2, <2>3, <2>5
  <1>6. Cardinality(S) \in Nat
    BY FS_CardinalityType
  <1>7. PICK g : Table(Cardinality(S), g)
    BY <1>5, <1>6
  <1>8. Small(Cardinality(S)) = SUBSET S
    BY FS_Subset
  <1> QED BY <1>7, <1>8 DEF Table

(* A sum is read off such a table.                                         *)
LEMMA SumRead ==
    ASSUME NEW S, IsFiniteSet(S), NEW f
    PROVE  \E g : /\ \A s \in SUBSET S : g[s] = Summand(f, g, s)
                  /\ SumFunctionOnSet(f, S) = g[S]
  <1> DEFINE g == CHOOSE h : h = [s \in SUBSET S |-> Summand(f, h, s)]
  <1>1. g = [s \in SUBSET S |-> Summand(f, g, s)]
    BY SumTable
  <1>2. SumFunctionOnSet(f, S) = g[S]
    BY DEF SumFunctionOnSet, FoldFunctionOnSet, MapThenFoldSet, Summand, Pick
  <1> HIDE DEF g
  <1>3. \A s \in SUBSET S : g[s] = Summand(f, g, s)
    BY <1>1
  <1> QED BY <1>2, <1>3

(* A sum moves by what one of its terms moves.                             *)
OneTermMoves(f, h, z, d, S) ==
    /\ IsFiniteSet(S) /\ d \in Int
    /\ \A x \in S : f[x] \in Int /\ h[x] = f[x] + (IF x = z THEN d ELSE 0)

LEMMA SumMoves ==
    ASSUME NEW S, NEW f, NEW h, NEW z, NEW d, OneTermMoves(f, h, z, d, S)
    PROVE  /\ SumFunctionOnSet(f, S) \in Int
           /\ SumFunctionOnSet(h, S) = SumFunctionOnSet(f, S) + (IF z \in S THEN d ELSE 0)
  <1>0. /\ IsFiniteSet(S) /\ d \in Int
        /\ \A x \in S : f[x] \in Int /\ h[x] = f[x] + (IF x = z THEN d ELSE 0)
    BY DEF OneTermMoves
  <1>1. PICK g : /\ \A s \in SUBSET S : g[s] = Summand(f, g, s)
                 /\ SumFunctionOnSet(f, S) = g[S]
    BY <1>0, SumRead
  <1>2. PICK k : /\ \A s \in SUBSET S : k[s] = Summand(h, k, s)
                 /\ SumFunctionOnSet(h, S) = k[S]
    BY <1>0, SumRead
  <1> DEFINE Right(s) == g[s] \in Int /\ k[s] = g[s] + (IF z \in s THEN d ELSE 0)
             Wrong == {s \in SUBSET S : ~Right(s)}
  <1>3. Wrong = {}
    <2>1. SUFFICES ASSUME Wrong # {} PROVE FALSE
      OBVIOUS
    <2>2. PICK s \in Wrong : \A x \in s : s \ {x} \notin Wrong
      BY <1>0, <2>1, Smallest
    <2>3. s # {}
      <3>1. g[{}] = 0 /\ k[{}] = 0
        BY <1>1, <1>2 DEF Summand
      <3>2. Right({})
        BY <3>1
      <3> QED BY <2>2, <3>2
    <2> DEFINE x == Pick(s)
               r == s \ {x}
    <2>4. x \in s /\ x \in S /\ Right(r)
      BY <2>2, <2>3 DEF Pick
    <2>5. g[s] = f[x] + g[r] /\ k[s] = h[x] + k[r]
      BY <1>1, <1>2, <2>3 DEF Summand
    <2> HIDE DEF x
    <2>6. (z \in r <=> z \in s /\ z # x) /\ f[x] \in Int /\ h[x] = f[x] + (IF x = z THEN d ELSE 0)
      BY <1>0, <2>4
    <2>7. g[s] \in Int
      BY <1>0, <2>4, <2>5, <2>6
    <2>8. k[s] = g[s] + (IF z \in s THEN d ELSE 0)
      BY <1>0, <2>4, <2>5, <2>6
    <2> QED BY <2>7, <2>8
  <1> QED BY <1>1, <1>2, <1>3

(* A sum grows with its terms.                                             *)
LEMMA SumGrows ==
    ASSUME NEW S, IsFiniteSet(S), NEW f, NEW h,
           \A x \in S : f[x] \in Nat /\ h[x] \in Nat /\ f[x] <= h[x]
    PROVE  /\ SumFunctionOnSet(f, S) \in Nat /\ SumFunctionOnSet(h, S) \in Nat
           /\ SumFunctionOnSet(f, S) <= SumFunctionOnSet(h, S)
  <1>1. PICK g : /\ \A s \in SUBSET S : g[s] = Summand(f, g, s)
                 /\ SumFunctionOnSet(f, S) = g[S]
    BY SumRead
  <1>2. PICK k : /\ \A s \in SUBSET S : k[s] = Summand(h, k, s)
                 /\ SumFunctionOnSet(h, S) = k[S]
    BY SumRead
  <1> DEFINE Right(s) == g[s] \in Nat /\ k[s] \in Nat /\ g[s] <= k[s]
             Wrong == {s \in SUBSET S : ~Right(s)}
  <1>3. Wrong = {}
    <2>1. SUFFICES ASSUME Wrong # {} PROVE FALSE
      OBVIOUS
    <2>2. PICK s \in Wrong : \A x \in s : s \ {x} \notin Wrong
      BY <2>1, Smallest
    <2>3. s # {}
      <3>1. g[{}] = 0 /\ k[{}] = 0
        BY <1>1, <1>2 DEF Summand
      <3>2. Right({})
        BY <3>1
      <3> QED BY <2>2, <3>2
    <2> DEFINE x == Pick(s)
               r == s \ {x}
    <2>4. x \in s /\ x \in S /\ Right(r)
      BY <2>2, <2>3 DEF Pick
    <2>5. g[s] = f[x] + g[r] /\ k[s] = h[x] + k[r]
      BY <1>1, <1>2, <2>3 DEF Summand
    <2> HIDE DEF x
    <2>6. f[x] \in Nat /\ h[x] \in Nat /\ f[x] <= h[x]
      BY <2>4
    <2> HIDE DEF r
    <2> QED BY <2>2, <2>4, <2>5, <2>6
  <1> QED BY <1>1, <1>2, <1>3

VolumePart(S) == [o \in Orders |-> IF o \in S /\ Operation[o] # "EXTRA_TIME" THEN Volume[o] ELSE 0]
DaysPart(S)   == [o \in Orders |-> IF o \in S /\ Operation[o] # "EXTRA_VOLUME" THEN Days[o] ELSE 0]
VolumeFor(o)  == IF Operation[o] = "EXTRA_TIME" THEN 0 ELSE Volume[o]
DaysFor(o)    == IF Operation[o] = "EXTRA_VOLUME" THEN 0 ELSE Days[o]

LEMMA PartsSum ==
    ASSUME NEW S
    PROVE  /\ VolumeOf(S) = SumFunctionOnSet(VolumePart(S), Orders)
           /\ DaysOf(S) = SumFunctionOnSet(DaysPart(S), Orders)
  <1>1. DOMAIN VolumePart(S) = Orders /\ DOMAIN DaysPart(S) = Orders
    BY DEF VolumePart, DaysPart
  <1>2. /\ VolumeOf(S) = SumFunction(VolumePart(S))
        /\ DaysOf(S) = SumFunction(DaysPart(S))
    BY DEF VolumeOf, DaysOf, VolumePart, DaysPart
  <1> QED BY <1>1, <1>2, Zenon DEF SumFunction

(* More orders buy no less, and one more buys what it is for.              *)
LEMMA MoreBuysMore ==
    ASSUME NEW S, NEW T, S \subseteq T
    PROVE  /\ VolumeOf(S) \in Nat /\ VolumeOf(T) \in Nat /\ VolumeOf(S) <= VolumeOf(T)
           /\ DaysOf(S) \in Nat /\ DaysOf(T) \in Nat /\ DaysOf(S) <= DaysOf(T)
  <1>1. \A x \in Orders : Volume[x] \in Nat /\ Days[x] \in Nat
    OBVIOUS
  <1>2. \A x \in Orders : /\ VolumePart(S)[x] \in Nat /\ VolumePart(T)[x] \in Nat
                          /\ VolumePart(S)[x] <= VolumePart(T)[x]
    BY <1>1 DEF VolumePart
  <1>3. \A x \in Orders : /\ DaysPart(S)[x] \in Nat /\ DaysPart(T)[x] \in Nat
                          /\ DaysPart(S)[x] <= DaysPart(T)[x]
    BY <1>1 DEF DaysPart
  <1>4. IsFiniteSet(Orders)
    OBVIOUS
  <1> QED BY <1>2, <1>3, <1>4, SumGrows, PartsSum

LEMMA OneMoreBuys ==
    ASSUME NEW S, NEW o \in Orders, o \notin S
    PROVE  /\ VolumeOf(S \cup {o}) = VolumeOf(S) + VolumeFor(o)
           /\ DaysOf(S \cup {o}) = DaysOf(S) + DaysFor(o)
  <1> DEFINE T == S \cup {o}
  <1>1. IsFiniteSet(Orders) /\ \A x \in Orders : Volume[x] \in Nat /\ Days[x] \in Nat
    OBVIOUS
  <1>2. OneTermMoves(VolumePart(S), VolumePart(T), o, VolumeFor(o), Orders)
    BY <1>1 DEF OneTermMoves, VolumePart, VolumeFor
  <1>3. OneTermMoves(DaysPart(S), DaysPart(T), o, DaysFor(o), Orders)
    BY <1>1 DEF OneTermMoves, DaysPart, DaysFor
  <1> HIDE DEF T
  <1>4. /\ SumFunctionOnSet(VolumePart(T), Orders) = SumFunctionOnSet(VolumePart(S), Orders) + VolumeFor(o)
        /\ SumFunctionOnSet(DaysPart(T), Orders) = SumFunctionOnSet(DaysPart(S), Orders) + DaysFor(o)
    BY <1>2, <1>3, SumMoves
  <1> QED BY <1>4, PartsSum DEF T


-----------------------------------------------------------------------------
(* Requests on their way.  One is out only for an order that asked for it, *)
(* none is when its sender has the answer or when the order is stale; and  *)
(* an open order has no refund.                                            *)
Grounded(o) == \A u \in flying : u[1] # o
FlightsFit(w) ==
    /\ task[w].pc \in Sent => requests[task[w].order] > 0
    /\ task[w].pc \in Sent \ {"answer"} => Grounded(task[w].order)
StaleFit(o) ==
    /\ o \in stale => Grounded(o) /\ \A w \in Procs : task[w].order = o => task[w].pc \notin Before
    /\ order[o] \in {"PAID", "PROVISIONING"} => refunds[o] = 0
Flights == /\ \A w \in Procs : FlightsFit(w)
           /\ \A o \in Orders : StaleFit(o)
           /\ \A u \in flying : requests[u[1]] > 0

(* A process goes on without sending: it was at the panel before, or is    *)
(* not now.                                                                *)
Follows(w) ==
    \/ task'[w].pc \notin Sent \cup Before
    \/ /\ task'[w].order = task[w].order
       /\ \/ task'[w].pc \in Before /\ (task[w].pc \in Before \/ task[w].order \notin stale)
          \/ task'[w].pc = "answer" /\ task[w].pc = "answer"
          \/ /\ task'[w].pc \in Sent /\ task[w].pc \in Sent
             /\ task[w].pc # "answer" \/ Grounded(task[w].order)

LEMMA FlightsMove ==
    ASSUME Flights, NEW w \in Procs, Others(w), Follows(w), UNCHANGED <<flying, requests, stale>>,
           \A o \in Orders : order'[o] \in {"PAID", "PROVISIONING"} =>
              order[o] \in {"PAID", "PROVISIONING"} /\ refunds'[o] = refunds[o]
    PROVE  Flights'
  <1>1. \A o : Grounded(o)' <=> Grounded(o)
    BY DEF Grounded
  <1>2. FlightsFit(w)'
    BY <1>1 DEF Flights, FlightsFit, Follows, Before, Sent
  <1>3. \A v \in Procs \ {w} : FlightsFit(v)'
    BY <1>1 DEF Flights, FlightsFit, Others
  <1>4. ASSUME NEW o \in Orders PROVE StaleFit(o)'
    BY <1>1 DEF Flights, StaleFit, Others, Follows, Before, Sent
  <1>5. \A u \in flying' : requests'[u[1]] > 0
    BY DEF Flights
  <1> QED BY <1>2, <1>3, <1>4, <1>5 DEF Flights

Steady == UNCHANGED <<order, refunds, flying, requests, stale>>

LEMMA FlightsSteady ==
    ASSUME Flights, NEW w \in Procs, Others(w), Follows(w), Steady
    PROVE  Flights'
  BY FlightsMove DEF Steady

LEMMA FlightsLeave ==
    ASSUME Inv, Flights, NEW w \in Procs, Leave(w), task[w].pc # "idle",
           UNCHANGED <<flying, requests, stale>>,
           \A o \in Orders : order'[o] \in {"PAID", "PROVISIONING"} =>
              order[o] \in {"PAID", "PROVISIONING"} /\ refunds'[o] = refunds[o]
    PROVE  Flights'
  <1>1. Others(w) /\ Follows(w)
    BY LeaveLeft DEF Left, Follows, Before, Sent
  <1> QED BY <1>1, FlightsMove

(* The steps that leave or go to a place away from the panel.              *)
LEMMA FlightsAway ==
    ASSUME Inv, Flights, NEW w \in Procs,
           \/ GiveUpLock(w) \/ PipelineBody(w) \/ ExecutorBody(w) \/ RecoveryBody(w)
           \/ PanelRefuses(w) \/ UpdateUnknown(w) \/ ProbeRecovery(w) \/ ProbeReconciler(w)
           \/ SyncRead(w)
    PROVE  Flights'
  <1>1. Steady /\ task[w].pc # "idle"
    BY DEF Steady, rows, Quiet, remote, At, GiveUpLock, PipelineBody, ExecutorBody, RecoveryBody,
           PanelRefuses, UpdateUnknown, ProbeRecovery, ProbeReconciler, SyncRead
  <1>2. CASE Leave(w)
    BY <1>1, <1>2, FlightsLeave DEF Steady
  <1>3. ASSUME NEW pc \in {"finish", "probe", "refund"}, Goto(w, pc) PROVE Flights'
    <2>1. Others(w) /\ task'[w].pc = pc
      BY <1>1, <1>3, GotoKeeps DEF Steps
    <2> QED BY <1>1, <2>1, FlightsSteady DEF Follows, Before, Sent
  <1>4. ASSUME NEW pc \in {"claim", "refund", "adopt"}, NEW v,
               task' = [task EXCEPT ![w].pc = pc, ![w].seen = v]
        PROVE  Flights'
    <2>1. Others(w) /\ task'[w].pc = pc
      BY <1>4 DEF Others, Inv, TypeOK, TaskRecord
    <2> QED BY <1>1, <2>1, FlightsSteady DEF Follows, Before, Sent
  <1>5. ASSUME NEW pc \in {"claim", "refund"}, NEW v, NEW t,
               task' = [task EXCEPT ![w].pc = pc, ![w].seen = v, ![w].target = t]
        PROVE  Flights'
    <2>1. Others(w) /\ task'[w].pc = pc
      BY <1>5 DEF Others, Inv, TypeOK, TaskRecord
    <2> QED BY <1>1, <2>1, FlightsSteady DEF Follows, Before, Sent
  <1>6. \/ Leave(w)
        \/ \E pc \in {"finish", "probe", "refund"} : Goto(w, pc)
        \/ \E pc \in {"claim", "refund", "adopt"} : \E v :
              task' = [task EXCEPT ![w].pc = pc, ![w].seen = v]
        \/ \E pc \in {"claim", "refund"} : \E v, t :
              task' = [task EXCEPT ![w].pc = pc, ![w].seen = v, ![w].target = t]
    <2>1. CASE GiveUpLock(w) \/ UpdateUnknown(w) \/ PanelRefuses(w)
      BY <2>1 DEF GiveUpLock, UpdateUnknown, PanelRefuses
    <2>2. CASE PipelineBody(w)
      BY <2>2 DEF PipelineBody
    <2>3. CASE ExecutorBody(w)
      BY <2>3 DEF ExecutorBody
    <2>4. CASE RecoveryBody(w)
      BY <2>4 DEF RecoveryBody
    <2>5. CASE ProbeRecovery(w) \/ ProbeReconciler(w) \/ SyncRead(w)
      BY <2>5 DEF ProbeRecovery, ProbeReconciler, SyncRead
    <2> QED BY <2>1, <2>2, <2>3, <2>4, <2>5
  <1> QED BY <1>2, <1>3, <1>4, <1>5, <1>6

(* The steps that settle an order and leave.                               *)
LEMMA FlightsSettle ==
    ASSUME Inv, Flights, NEW w \in Procs,
           Finish(w) \/ Persist(w) \/ Refund(w) \/ Adopt(w) \/ SyncWrite(w)
    PROVE  Flights'
  <1>1. /\ Leave(w) /\ task[w].pc # "idle" /\ UNCHANGED <<flying, requests, stale>>
    BY DEF Finish, Persist, Refund, Adopt, SyncWrite, At, Quiet, remote
  <1>2. ASSUME NEW o \in Orders, order'[o] \in {"PAID", "PROVISIONING"}
        PROVE  order[o] \in {"PAID", "PROVISIONING"} /\ refunds'[o] = refunds[o]
    <2>1. CASE Refund(w)
      <3>1. /\ order' = Flip(task[w].order, {"PAID", "PROVISIONING"}, "FAILED")
            /\ refunds' = [refunds EXCEPT ![task[w].order] =
                  IF order[task[w].order] \in {"PAID", "PROVISIONING"} /\ @ = 0 THEN @ + 1 ELSE @]
        BY <2>1 DEF Refund, FailOrderWithRefund, OrderOf
      <3> QED BY <1>2, <3>1 DEF Flip, Inv, TypeOK
    <2>2. CASE ~Refund(w)
      <3>1. /\ UNCHANGED refunds
            /\ order' = order \/ \E from : order' = Flip(task[w].order, from, "COMPLETED")
        <4>1. CASE Finish(w)
          BY <4>1 DEF Finish, CompleteOrder, OrderOf
        <4>2. CASE Persist(w)
          BY <4>2 DEF Persist, PersistApplied, PersistAppApplied, OrderOf
        <4>3. CASE Adopt(w)
          BY <4>3 DEF Adopt, PersistApplied, PersistAppApplied, OrderOf, rows
        <4>4. CASE SyncWrite(w)
          BY <4>4 DEF SyncWrite
        <4> QED BY <2>2, <4>1, <4>2, <4>3, <4>4
      <3> QED BY <1>2, <3>1 DEF Flip, Inv, TypeOK
    <2> QED BY <2>1, <2>2
  <1> QED BY <1>1, <1>2, FlightsLeave

LEMMA FlightsClaim ==
    ASSUME Inv, Flights, NEW w \in Procs, Claim(w)
    PROVE  Flights'
  <1> DEFINE o == task[w].order
  <1>1. /\ task[w].pc = "claim" /\ order' = Flip(o, {"PAID"}, "PROVISIONING")
        /\ UNCHANGED <<refunds, flying, requests, stale>>
    BY DEF Claim, At, OrderOf, Quiet, remote
  <1>2. \A d \in Orders : order'[d] \in {"PAID", "PROVISIONING"} =>
            order[d] \in {"PAID", "PROVISIONING"} /\ refunds'[d] = refunds[d]
    BY <1>1 DEF Flip, Inv, TypeOK
  <1>3. CASE Leave(w)
    BY <1>1, <1>2, <1>3, FlightsLeave
  <1>4. ASSUME order[o] = "PAID", NEW t, NEW pc \in Before,
               task' = [task EXCEPT ![w].target = t, ![w].pc = pc]
        PROVE  Flights'
    <2>1. o \notin stale
      BY <1>1, <1>4, OrderTyped DEF Inv, FlowFit, OrderFit
    <2>2. Others(w) /\ task'[w].pc = pc /\ task'[w].order = o
      BY <1>4 DEF Others, Inv, TypeOK, TaskRecord
    <2> QED BY <1>1, <1>2, <2>1, <2>2, FlightsMove DEF Follows
  <1> QED BY <1>3, <1>4 DEF Claim, OrderOf, Before

LEMMA FlightsPanel ==
    ASSUME Inv, Flights, NEW w \in Procs,
           ResetTraffic(w) \/ UpdateConfirmed(w) \/ PersistFails(w) \/ Heartbeat(w)
    PROVE  Flights'
  <1>1. CASE ResetTraffic(w)
    <2>1. Steady /\ task[w].pc = "reset" /\ \E pc \in {"send", "refund"} : Goto(w, pc)
      BY <1>1 DEF ResetTraffic, At, Steady, rows
    <2>2. Others(w) /\ Keeps(w) /\ task'[w].pc \in {"send", "refund"}
      BY <2>1, GotoKeeps DEF Steps
    <2> QED BY <2>1, <2>2, FlightsSteady DEF Follows, Keeps, Before, Sent
  <1>2. CASE UpdateConfirmed(w)
    <2>1. /\ Steady /\ task[w].pc = "answer" /\ Grounded(task[w].order)
          /\ task' = [task EXCEPT ![w] = IF task[w].lost THEN Done(task[w])
                                         ELSE [task[w] EXCEPT !.pc = "persist", !.seen = panel]]
      BY <1>2 DEF UpdateConfirmed, At, Steady, rows, Quiet, remote, OrderOf, Grounded, Inv, TypeOK
    <2>2. CASE task[w].lost
      <3>1. Leave(w)
        BY <2>1, <2>2 DEF Leave
      <3> QED BY <2>1, <3>1, FlightsLeave DEF Steady
    <2>3. CASE ~task[w].lost
      <3>1. Others(w) /\ task'[w].pc = "persist" /\ task'[w].order = task[w].order
        BY <2>1, <2>3 DEF Others, Inv, TypeOK, TaskRecord
      <3> QED BY <2>1, <3>1, FlightsSteady DEF Follows, Sent
    <2> QED BY <2>2, <2>3
  <1>3. CASE PersistFails(w)
    <2>1. Steady /\ task[w].pc \in {"persist", "retry"}
      BY <1>3 DEF PersistFails, At, Steady, rows, Quiet, remote
    <2>2. CASE Leave(w)
      BY <2>1, <2>2, FlightsLeave DEF Steady
    <2>3. ASSUME NEW pc \in {"retry", "orphan"}, Goto(w, pc) PROVE Flights'
      <3>1. Others(w) /\ Keeps(w) /\ task'[w].pc = pc
        BY <2>1, <2>3, GotoKeeps DEF Steps
      <3> QED BY <2>1, <3>1, FlightsSteady DEF Follows, Keeps, Sent
    <2> QED BY <1>3, <2>2, <2>3 DEF PersistFails
  <1>4. CASE Heartbeat(w)
    <2>1. Steady /\ task' = [task EXCEPT ![w].lost = TRUE]
      BY <1>4 DEF Heartbeat, Steady, rows, Quiet, remote
    <2>2. Others(w) /\ task'[w].pc = task[w].pc /\ task'[w].order = task[w].order
      BY <2>1 DEF Others, Inv, TypeOK, TaskRecord
    <2> QED BY <2>1, <2>2, FlightsSteady DEF Follows, Before, Sent
  <1> QED BY <1>1, <1>2, <1>3, <1>4

LEMMA FlightsSend ==
    ASSUME Inv, Flights, NEW w \in Procs, SendUpdate(w)
    PROVE  Flights'
  <1> DEFINE o == task[w].order
  <1>1. /\ task[w].pc = "send" /\ flying' = flying \cup {<<o, task[w].target>>}
        /\ requests' = [requests EXCEPT ![o] = @ + 1] /\ Goto(w, "answer")
        /\ UNCHANGED <<order, refunds, stale>>
    BY DEF SendUpdate, At, rows, OrderOf
  <1>2. Others(w) /\ Keeps(w) /\ task'[w].pc = "answer"
    BY <1>1, GotoKeeps DEF Steps
  <1>3. o \in Orders /\ requests[o] = 0 /\ o \notin stale
    <2>1. o \in Orders
      BY <1>1, OrderTyped DEF Inv, FlowFit
    <2> QED BY <1>1, <2>1 DEF Inv, OrderFit, Flights, StaleFit, Before
  <1>4. /\ requests'[o] > 0 /\ \A d \in Orders : requests[d] > 0 => requests'[d] > 0
        /\ \A d : d # o => (Grounded(d)' <=> Grounded(d))
    BY <1>1, <1>3 DEF Inv, TypeOK, Grounded
  <1>5. ASSUME NEW v \in Procs \ {w} PROVE FlightsFit(v)'
    <2>1. FlightsFit(v) /\ FlowFit(v) /\ task'[v] = task[v]
      BY <1>2 DEF Flights, Inv, Others
    <2>2. task[v].pc \in Sent => task[v].order \in Orders /\ task[v].order # o
      BY <1>3, <2>1, OrderTyped DEF FlightsFit, FlowFit, Sent
    <2> QED BY <1>4, <2>1, <2>2 DEF FlightsFit
  <1>6. FlightsFit(w)'
    BY <1>2, <1>4 DEF FlightsFit, Keeps
  <1>7. ASSUME NEW d \in Orders PROVE StaleFit(d)'
    BY <1>1, <1>2, <1>3, <1>4 DEF Flights, StaleFit, Others, Before
  <1>8. \A u \in flying' : requests'[u[1]] > 0
    <2>1. \A u \in flying : u[1] \in Orders /\ requests[u[1]] > 0
      BY DEF Flights, Inv, TypeOK
    <2> QED BY <1>1, <1>4, <2>1
  <1> QED BY <1>5, <1>6, <1>7, <1>8 DEF Flights

LEMMA FlightsStart ==
    ASSUME Inv, Flights, NEW w \in Procs,
           \/ OpenPage(w) \/ AcquireLock(w) \/ ReleaseLock(w)
           \/ \E o \in Orders : \/ Dispatch(w, o) \/ FollowUpPaid(w, o) \/ FollowUpProvisioning(w, o)
                                \/ w = Recovery /\ RecoverNext(o)
    PROVE  Flights'
  <1>1. Steady
    BY DEF OpenPage, AcquireLock, ReleaseLock, Dispatch, FollowUpPaid, FollowUpProvisioning,
           RecoverNext, Locked, Steady, rows, remote
  <1>2. Others(w) /\ (task'[w] = task[w] \/ task'[w].pc \notin Sent \cup Before)
    <2>1. ASSUME NEW t, t.pc \notin Sent \cup Before, task' = [task EXCEPT ![w] = t]
          PROVE  Others(w) /\ task'[w].pc \notin Sent \cup Before
      BY <2>1 DEF Others, Inv, TypeOK
    <2>2. ASSUME NEW f, NEW o, NEW pc \in {"body", "probe", "lock", "finish"}, NEW l,
                 task' = [task EXCEPT ![w] = [IdleTask EXCEPT !.flow = f, !.order = o, !.pc = pc,
                                                              !.locked = l]]
          PROVE  Others(w) /\ task'[w].pc \notin Sent \cup Before
      <3>1. PICK t : t = [IdleTask EXCEPT !.flow = f, !.order = o, !.pc = pc, !.locked = l]
        OBVIOUS
      <3>2. t.pc \notin Sent \cup Before
        BY <3>1 DEF IdleTask, Sent, Before
      <3> QED BY <2>1, <2>2, <3>1, <3>2
    <2>3. ASSUME NEW f, NEW o, NEW pc \in {"lock", "finish"}, Begin(w, f, o, pc)
          PROVE  Others(w) /\ task'[w].pc \notin Sent \cup Before
      <3>1. PICK t : t = [IdleTask EXCEPT !.flow = f, !.order = o, !.pc = pc]
        OBVIOUS
      <3>2. t.pc \notin Sent \cup Before
        BY <3>1 DEF IdleTask, Sent, Before
      <3> QED BY <2>1, <2>3, <3>1, <3>2 DEF Begin
    <2>4. CASE OpenPage(w) \/ \E o \in Orders : Dispatch(w, o) \/ FollowUpPaid(w, o)
      BY <2>2, <2>4 DEF OpenPage, Dispatch, FollowUpPaid, Locked
    <2>5. CASE AcquireLock(w)
      BY <2>5 DEF AcquireLock, Others, Inv, TypeOK, TaskRecord, Before, Sent
    <2>6. CASE ReleaseLock(w)
      <3>1. IdleTask.pc \notin Sent \cup Before
        BY DEF IdleTask, Sent, Before
      <3> QED BY <2>1, <2>6, <3>1 DEF ReleaseLock
    <2>7. CASE \E o \in Orders : FollowUpProvisioning(w, o)
      BY <2>3, <2>7 DEF FollowUpProvisioning
    <2>8. ASSUME NEW o \in Orders, w = Recovery, RecoverNext(o)
          PROVE  Others(w) /\ (task'[w] = task[w] \/ task'[w].pc \notin Sent \cup Before)
      <3>1. CASE UNCHANGED task
        BY <3>1 DEF Others
      <3>2. CASE Begin(Recovery, "recovery", o, "finish")
        BY <2>3, <2>8, <3>2
      <3>3. CASE task' = [task EXCEPT ![Recovery] = [IdleTask EXCEPT
                             !.flow = "recovery", !.order = o, !.pc = "body", !.locked = TRUE]]
        BY <2>2, <2>8, <3>3
      <3> QED BY <2>8, <3>1, <3>2, <3>3 DEF RecoverNext
    <2> QED BY <2>4, <2>5, <2>6, <2>7, <2>8
  <1>3. Follows(w)
    BY <1>2 DEF Follows, Before, Sent
  <1> QED BY <1>1, <1>2, <1>3, FlightsSteady

LEMMA FlightsWorld ==
    ASSUME Inv, Flights,
           \/ StartRecovery \/ NextDay \/ LockExpires \/ BotCrash \/ UNCHANGED vars
           \/ \E w \in Procs : LockLapses(w)
           \/ \E o \in Orders : GrowsStale(o)
           \/ \E u \in flying : UpdateLands(u) \/ UpdateIsLost(u)
    PROVE  Flights'
  <1>1. CASE BotCrash
    <2>1. UNCHANGED <<order, refunds, flying, requests, stale>> /\ \A w \in Procs : task'[w].pc = "idle"
      BY <1>1 DEF BotCrash, rows, remote, IdleTask
    <2> QED BY <2>1 DEF Flights, FlightsFit, StaleFit, Grounded, Before, Sent
  <1>2. ASSUME NEW o \in Orders, GrowsStale(o) PROVE Flights'
    <2>1. /\ UNCHANGED <<order, refunds, flying, requests, task>> /\ stale' = stale \cup {o}
          /\ Grounded(o) /\ \A w \in Procs : task[w].order = o => task[w].pc \notin Before
      BY <1>2 DEF GrowsStale, rows, remote, Grounded, Before, At, OrderOf
    <2> QED BY <2>1 DEF Flights, FlightsFit, StaleFit, Grounded
  <1>3. CASE \/ StartRecovery \/ NextDay \/ LockExpires \/ UNCHANGED vars
             \/ \E w \in Procs : LockLapses(w)
             \/ \E u \in flying : UpdateLands(u) \/ UpdateIsLost(u)
    <2>1. UNCHANGED <<order, refunds, requests, stale, task>> /\ flying' \subseteq flying
      BY <1>3 DEF StartRecovery, NextDay, LockExpires, vars, LockLapses, UpdateLands, UpdateIsLost,
                  rows, remote
    <2> QED BY <2>1 DEF Flights, FlightsFit, StaleFit, Grounded
  <1> QED BY <1>1, <1>2, <1>3

LEMMA FlightsInit == Init => Flights
  BY DEF Init, IdleTask, Flights, FlightsFit, StaleFit, Grounded, Before, Sent

LEMMA FlightsStep == Inv /\ Flights /\ [Next]_vars => Flights'
  <1> SUFFICES ASSUME Inv, Flights, [Next]_vars PROVE Flights'
    OBVIOUS
  <1>1. ASSUME NEW w \in Procs, Step(w) PROVE Flights'
    BY <1>1, Zenon, FlightsAway, FlightsSettle, FlightsClaim, FlightsPanel, FlightsSend,
       FlightsStart, FlightsWorld DEF Step
  <1>2. ASSUME NEW w \in Procs, NEW o \in Orders,
               OpenPage(w) \/ Dispatch(w, o) \/ FollowUpPaid(w, o) \/ FollowUpProvisioning(w, o)
        PROVE  Flights'
    BY <1>2, FlightsStart
  <1>3. ASSUME NEW w \in Procs, OpenPage(w) PROVE Flights'
    BY <1>3, FlightsStart
  <1>4. ASSUME NEW o \in Orders, RecoverNext(o) PROVE Flights'
    <2>1. Recovery \in Procs
      BY DEF Procs
    <2> QED BY <1>4, <2>1, FlightsStart
  <1>5. CASE \/ StartRecovery \/ NextDay \/ LockExpires \/ BotCrash \/ UNCHANGED vars
             \/ \E o \in Orders : GrowsStale(o)
             \/ \E u \in flying : UpdateLands(u) \/ UpdateIsLost(u)
    BY <1>5, FlightsWorld
  <1> QED BY <1>1, <1>2, <1>3, <1>4, <1>5, Zenon DEF Next


-----------------------------------------------------------------------------
(* What was paid for.  The row holds no more than the completed orders     *)
(* bought; the panel holds that, or also what one open order asked for,    *)
(* and a process that refunds its order knows that it is not that one.     *)
Earned == {o \in Orders : order[o] = "COMPLETED" /\ refunds[o] = 0}
Top(v, S, t) ==
    /\ v.limit <= Limit0 + VolumeOf(S)
    /\ v.expiry <= (IF Expiry0 > t THEN Expiry0 ELSE t) + DaysOf(S)
Asked(o, v) ==
    /\ order[o] = "PROVISIONING" /\ requests[o] > 0
    /\ Expected(o, v) /\ Top(v, Earned \cup {o}, today)
Owes(v, S) == Top(v, Earned, today) \/ \E o \in S : Asked(o, v)
Copied(v)  == \/ Top(v, Earned, today)
              \/ \E o \in Orders : order[o] = "PROVISIONING" /\ Top(v, Earned \cup {o}, today)

TargetFit(w) ==
    /\ task[w].pc = "claim" =>
          /\ Top(task[w].seen, Earned, today)
          /\ task[w].flow = "executor" => Top(task[w].target, Earned \cup {task[w].order}, today)
    /\ task[w].pc \in Before \cup {"answer"} => Top(task[w].target, Earned \cup {task[w].order}, today)
    /\ task[w].pc \in Before => Expected(task[w].order, task[w].target)
SeenFit(w) ==
    /\ task[w].pc \in {"persist", "retry"} \/ (task[w].pc = "adopt" /\ task[w].flow = "recovery") =>
          Top(task[w].seen, Earned \cup {task[w].order}, today)
    /\ task[w].pc = "adopt" => task[w].flow = "recovery" \/ Copied(task[w].seen)
RefundFit(w) ==
    task[w].pc = "refund" =>
       /\ Grounded(task[w].order)
       /\ requests[task[w].order] = 0 \/ Owes(panel, Orders \ {task[w].order})
FreeFit(w) == TargetFit(w) /\ SeenFit(w) /\ RefundFit(w)

Clean   == ~blurred /\ unrecorded = {} /\ (stray = {} \/ MiniApp = {})
Fine    == /\ Top(row, Earned, today) /\ Owes(panel, Orders)
           /\ \A w \in Procs : FreeFit(w)
           /\ \A u \in flying : Asked(u[1], u[2])
FreeInv == Clean => Fine

LEMMA TopMore ==
    ASSUME NEW v \in Values, NEW S, NEW T, S \subseteq T, NEW t \in Nat, NEW u \in Nat, t <= u,
           Top(v, S, t)
    PROVE  Top(v, T, u)
  <1>1. /\ VolumeOf(S) \in Nat /\ VolumeOf(T) \in Nat /\ VolumeOf(S) <= VolumeOf(T)
        /\ DaysOf(S) \in Nat /\ DaysOf(T) \in Nat /\ DaysOf(S) <= DaysOf(T)
    BY MoreBuysMore
  <1>2. v.limit \in Nat /\ v.expiry \in Nat /\ Limit0 \in Nat /\ Expiry0 \in Nat
    BY DEF Values
  <1> QED BY <1>1, <1>2 DEF Top

(* calculateRenewal, calculateExtraVolume and calculateExtraTime add what  *)
(* the order bought, and no more.                                          *)
LEMMA TargetTop ==
    ASSUME NEW o \in Orders, NEW S, o \notin S, NEW v \in Values, NEW t \in Nat, Top(v, S, t)
    PROVE  Top(Target(o, v, t), S \cup {o}, t)
  <1>1. /\ VolumeOf(S \cup {o}) = VolumeOf(S) + VolumeFor(o)
        /\ DaysOf(S \cup {o}) = DaysOf(S) + DaysFor(o)
        /\ VolumeOf(S) \in Nat /\ DaysOf(S) \in Nat
    BY OneMoreBuys, MoreBuysMore
  <1>2. /\ v.limit \in Nat /\ v.used \in Nat /\ v.expiry \in Nat /\ Limit0 \in Nat /\ Expiry0 \in Nat
        /\ Volume[o] \in Nat /\ Days[o] \in Nat /\ Operation[o] \in Operations
    BY DEF Values
  <1>3. Remaining(v) \in Nat /\ Remaining(v) <= v.limit
    BY <1>2 DEF Remaining
  <1>4. /\ Extended(v.expiry, Days[o], t) \in Nat
        /\ Extended(v.expiry, Days[o], t) <= (IF Expiry0 > t THEN Expiry0 ELSE t) + DaysOf(S) + Days[o]
    BY <1>1, <1>2 DEF Extended, Top
  <1>5. CASE Operation[o] = "EXTRA_VOLUME"
    <2>1. Target(o, v, t) = [limit |-> Remaining(v) + Volume[o], used |-> 0, expiry |-> v.expiry]
      BY <1>5 DEF Target
    <2> QED BY <1>1, <1>2, <1>3, <1>5, <2>1 DEF Top, VolumeFor, DaysFor
  <1>6. CASE Operation[o] = "EXTRA_TIME"
    <2>1. /\ Target(o, v, t).limit = v.limit
          /\ Target(o, v, t).expiry = Extended(v.expiry, Days[o], t)
      BY <1>6 DEF Target, Values
    <2> QED BY <1>1, <1>2, <1>4, <1>6, <2>1 DEF Top, VolumeFor, DaysFor
  <1>7. CASE Operation[o] = "RENEWAL"
    <2>1. /\ Target(o, v, t).limit = Remaining(v) + Volume[o]
          /\ Target(o, v, t).expiry = IF Days[o] > 0 THEN Extended(v.expiry, Days[o], t) ELSE v.expiry
      BY <1>7 DEF Target
    <2>2. Target(o, v, t).limit <= Limit0 + VolumeOf(S) + Volume[o]
      BY <1>1, <1>2, <1>3, <2>1 DEF Top
    <2>3. Target(o, v, t).expiry <= (IF Expiry0 > t THEN Expiry0 ELSE t) + DaysOf(S) + Days[o]
      BY <1>1, <1>2, <1>4, <2>1 DEF Top
    <2>4. VolumeFor(o) = Volume[o] /\ DaysFor(o) = Days[o]
      BY <1>7 DEF VolumeFor, DaysFor
    <2> QED BY <1>1, <1>2, <2>2, <2>3, <2>4 DEF Top
  <1> QED BY <1>2, <1>5, <1>6, <1>7 DEF Operations

LEMMA TopSame ==
    ASSUME NEW v, NEW u, SameTerms(v, u), NEW S, NEW t, Top(u, S, t)
    PROVE  Top(v, S, t)
  BY DEF Top, SameTerms

(* What a step takes away from nobody: no completed order, no day, and no  *)
(* open order, unless it completes it.                                     *)
Onward ==
    /\ Earned \subseteq Earned' /\ today \in Nat /\ today' \in Nat /\ today <= today'
    /\ \A o \in Orders : order[o] = "PROVISIONING" =>
          \/ order'[o] = "PROVISIONING" /\ intent'[o] = intent[o]
          \/ o \in Earned'
    /\ \A o \in Orders : requests[o] > 0 => requests'[o] > 0

LEMMA OnwardTop ==
    ASSUME Onward, NEW v \in Values, NEW S
    PROVE  /\ Top(v, Earned, today) => Top(v, Earned', today')
           /\ Top(v, Earned \cup S, today) => Top(v, Earned' \cup S, today')
  BY TopMore DEF Onward

LEMMA OnwardCopied ==
    ASSUME Onward, NEW v \in Values, Copied(v)
    PROVE  \/ Top(v, Earned', today')
           \/ \E o \in Orders : order'[o] = "PROVISIONING" /\ Top(v, Earned' \cup {o}, today')
  <1>1. CASE Top(v, Earned, today)
    BY <1>1, OnwardTop
  <1>2. ASSUME NEW o \in Orders, order[o] = "PROVISIONING", Top(v, Earned \cup {o}, today)
        PROVE  \/ Top(v, Earned', today')
               \/ order'[o] = "PROVISIONING" /\ Top(v, Earned' \cup {o}, today')
    <2>1. Top(v, Earned' \cup {o}, today')
      BY <1>2, OnwardTop
    <2>2. o \in Earned' => Earned' \cup {o} = Earned'
      OBVIOUS
    <2> QED BY <1>2, <2>1, <2>2 DEF Onward
  <1> QED BY <1>1, <1>2 DEF Copied

(* The panel under a step that changes at most its usage.                  *)
LEMMA OnwardOwes ==
    ASSUME Onward, panel \in Values, panel' \in Values, SameTerms(panel', panel),
           NEW S \in SUBSET Orders, Owes(panel, S)
    PROVE  \/ Top(panel', Earned', today')
           \/ \E o \in S : /\ order'[o] = "PROVISIONING" /\ requests'[o] > 0
                           /\ intent'[o].written => SameTerms(panel', intent'[o].expected)
                           /\ Top(panel', Earned' \cup {o}, today')
  <1>1. CASE Top(panel, Earned, today)
    BY <1>1, OnwardTop, TopSame
  <1>2. ASSUME NEW o \in S, Asked(o, panel)
        PROVE  \/ Top(panel', Earned', today')
               \/ /\ order'[o] = "PROVISIONING" /\ requests'[o] > 0
                  /\ intent'[o].written => SameTerms(panel', intent'[o].expected)
                  /\ Top(panel', Earned' \cup {o}, today')
    <2>1. Top(panel', Earned' \cup {o}, today')
      BY <1>2, OnwardTop, TopSame DEF Asked
    <2>2. o \in Earned' => Earned' \cup {o} = Earned'
      OBVIOUS
    <2> QED BY <1>2, <2>1, <2>2 DEF Onward, Asked, Expected, SameTerms
  <1> QED BY <1>1, <1>2 DEF Owes

(* A process that stays where it is.                                       *)
LEMMA FreeStays ==
    ASSUME Inv, Inv', Onward, NEW v \in Procs, FreeFit(v), task'[v] = task[v],
           task[v].pc = "refund" => /\ SameTerms(panel', panel)
                                    /\ requests'[task[v].order] = requests[task[v].order]
                                    /\ Grounded(task[v].order)',
           task[v].pc \in Before => intent'[task[v].order] = intent[task[v].order]
    PROVE  FreeFit(v)'
  <1>1. /\ task[v].seen \in Values /\ task[v].target \in Values
        /\ panel \in Values /\ panel' \in Values
    BY DEF Inv, TypeOK, TaskRecord
  <1>2. TargetFit(v)'
    BY <1>1, OnwardTop DEF FreeFit, TargetFit, Expected
  <1>3. SeenFit(v)'
    BY <1>1, OnwardTop, OnwardCopied DEF FreeFit, SeenFit, Copied
  <1>4. RefundFit(v)'
    <2> SUFFICES ASSUME task[v].pc = "refund", requests[task[v].order] # 0
                 PROVE  Owes(panel, Orders \ {task[v].order})'
      BY DEF RefundFit
    <2>1. Owes(panel, Orders \ {task[v].order})
      BY DEF FreeFit, RefundFit
    <2> QED BY <1>1, <2>1, OnwardOwes DEF Owes, Asked, Expected
  <1> QED BY <1>2, <1>3, <1>4 DEF FreeFit


(* A step of one process that leaves the terms of the panel as they are.   *)
LEMMA FreeData ==
    ASSUME Inv, Inv', FreeInv, NEW w \in Procs, Others(w), Onward,
           unrecorded \subseteq unrecorded', stray \subseteq stray', blurred => blurred',
           SameTerms(panel', panel),
           \A v \in Procs \ {w} :
              /\ task[v].pc = "refund" => /\ requests'[task[v].order] = requests[task[v].order]
                                          /\ Grounded(task[v].order) => Grounded(task[v].order)'
              /\ task[v].pc \in Before => intent'[task[v].order] = intent[task[v].order],
           Clean' /\ Clean /\ Fine =>
              /\ Top(row, Earned, today)'
              /\ FreeFit(w)'
              /\ \A u \in flying' : Asked(u[1], u[2])'
    PROVE  FreeInv'
  <1> SUFFICES ASSUME Clean' PROVE Fine'
    BY DEF FreeInv
  <1>1. Clean /\ Fine
    BY DEF Clean, FreeInv
  <1>2. Owes(panel, Orders)'
    <2>1. panel \in Values /\ panel' \in Values
      BY DEF Inv, TypeOK
    <2> QED BY <1>1, <2>1, OnwardOwes DEF Fine, Owes, Asked, Expected
  <1>3. ASSUME NEW v \in Procs \ {w} PROVE FreeFit(v)'
    <2>1. FreeFit(v) /\ task'[v] = task[v]
      BY <1>1 DEF Fine, Others
    <2>2. task[v].pc = "refund" => Grounded(task[v].order)
      BY <2>1 DEF FreeFit, RefundFit
    <2> QED BY <2>1, <2>2, FreeStays
  <1> QED BY <1>1, <1>2, <1>3 DEF Fine

(* A request that stays on its way stays asked for.                        *)
LEMMA StillAsked ==
    ASSUME Inv, Onward, NEW u \in flying, Asked(u[1], u[2]),
           order'[u[1]] = "PROVISIONING", intent'[u[1]] = intent[u[1]]
    PROVE  /\ order'[u[1]] = "PROVISIONING" /\ requests'[u[1]] > 0
           /\ intent'[u[1]].written => SameTerms(u[2], intent'[u[1]].expected)
           /\ Top(u[2], Earned' \cup {u[1]}, today')
  <1>1. u[1] \in Orders /\ u[2] \in Values
    BY DEF Inv, TypeOK
  <1> QED BY <1>1, OnwardTop DEF Onward, Asked, Expected

(* A step of one process that leaves the data as they are.                 *)
Calm == UNCHANGED <<Books, refunds, today, blurred>>
LEMMA FreeMove ==
    ASSUME Inv, Inv', FreeInv, NEW w \in Procs, Others(w), Calm, stray \subseteq stray',
           Clean' /\ Clean /\ Fine => FreeFit(w)'
    PROVE  FreeInv'
  <1>1. UNCHANGED <<order, refunds, row, intent, panel, flying, requests, today, unrecorded, blurred>>
    BY DEF Calm, Books, remote
  <1>2. Earned' = Earned /\ today \in Nat
    BY <1>1 DEF Earned, Inv, TypeOK
  <1>3. Onward /\ SameTerms(panel', panel)
    BY <1>1, <1>2 DEF Onward, SameTerms
  <1>4. \A v \in Procs \ {w} :
              /\ task[v].pc = "refund" => /\ requests'[task[v].order] = requests[task[v].order]
                                          /\ Grounded(task[v].order) => Grounded(task[v].order)'
              /\ task[v].pc \in Before => intent'[task[v].order] = intent[task[v].order]
    BY <1>1 DEF Grounded, Others
  <1>5. Fine => Top(row, Earned, today)' /\ \A u \in flying' : Asked(u[1], u[2])'
    BY <1>1, <1>2 DEF Fine, Asked, Expected
  <1> QED BY <1>1, <1>3, <1>4, <1>5, FreeData

LEMMA FreeLeave ==
    ASSUME Inv, Inv', FreeInv, NEW w \in Procs, Leave(w), task[w].pc # "idle", Calm,
           stray \subseteq stray'
    PROVE  FreeInv'
  <1>1. Others(w) /\ Left(w)
    BY LeaveLeft
  <1>2. FreeFit(w)'
    BY <1>1 DEF FreeFit, TargetFit, SeenFit, RefundFit, Left, Before
  <1> QED BY <1>1, <1>2, FreeMove

(* A process away from the panel and from any verdict.                     *)
Apart == {"idle", "lock", "body", "finish", "probe", "release", "orphan"}
LEMMA FreeAway ==
    ASSUME Inv, Inv', FreeInv, NEW w \in Procs, Others(w), Calm, stray \subseteq stray',
           task'[w].pc \in Apart
    PROVE  FreeInv'
  <1>1. FreeFit(w)'
    BY DEF FreeFit, TargetFit, SeenFit, RefundFit, Before, Apart
  <1> QED BY <1>1, FreeMove

(* An order in the hands of a process is open.                             *)
LEMMA StillOpen ==
    ASSUME Inv, RowsInv, NEW w \in Procs, Doing(task[w]), stray = {} \/ MiniApp = {}
    PROVE  /\ task[w].order \in Orders /\ order[task[w].order] = "PROVISIONING"
           /\ task[w].order \notin Earned
  <1>1. task[w].order \in Orders
    BY OrderTyped DEF Doing, Inv, FlowFit, Before, Sent
  <1>2. order[task[w].order] = "PROVISIONING"
    <2>1. CASE stray = {}
      BY <2>1 DEF RowsInv, Solo, SoloFit
    <2>2. CASE MiniApp = {}
      <3>1. task[w].pc \in Alone /\ task[w].order \in Bot
        BY <1>1, <2>2 DEF Doing, Alone, Bot
      <3> QED BY <3>1 DEF Inv, BotFit
    <2> QED BY <2>1, <2>2
  <1> QED BY <1>1, <1>2 DEF Earned

(* No request is on its way for an order that a reconciler judges.         *)
LEMMA JudgedGrounded ==
    ASSUME Inv, RowsInv, Flights, NEW w \in Procs, stray = {} \/ MiniApp = {},
           task[w].pc \in {"probe", "adopt"}, task[w].flow \in {"recovery", "reconciler"}
    PROVE  Grounded(task[w].order)
  <1>1. CASE stray = {}
    BY <1>1, HolderAlone DEF Held, Grounded
  <1>2. CASE MiniApp = {}
    <2>1. task[w].flow = "recovery" /\ task[w].order \in Bot
      BY <1>2, OrderTyped DEF Inv, FlowFit, Bot
    <2>2. task[w].order \in stale
      BY <2>1 DEF Inv, BotFit
    <2> QED BY <2>1, <2>2 DEF Flights, StaleFit, Bot
  <1> QED BY <1>1, <1>2

LEMMA PipelineBodyFree ==
    ASSUME Inv, Inv', Flights, FreeInv, NEW w \in Procs, PipelineBody(w)
    PROVE  FreeInv'
  <1>1. task[w].pc = "body" /\ task[w].flow = "pipeline" /\ Calm /\ UNCHANGED stray
    BY DEF PipelineBody, At, Runs, rows, Quiet, ghosts, Books, Calm
  <1>2. ASSUME Goto(w, "finish") PROVE FreeInv'
    <2>1. Others(w) /\ task'[w].pc = "finish"
      BY <1>1, <1>2, GotoKeeps DEF Steps
    <2> QED BY <1>1, <2>1, FreeAway DEF Apart
  <1>3. ASSUME Leave(w) PROVE FreeInv'
    BY <1>1, <1>3, FreeLeave
  <1>4. ASSUME order[task[w].order] = "PAID", NEW pc \in {"claim", "refund"},
               task' = [task EXCEPT ![w].pc = pc, ![w].seen = row]
        PROVE  FreeInv'
    <2>1. Others(w) /\ Keeps(w) /\ task'[w].pc = pc /\ task'[w].seen = row
      BY <1>1, <1>4, ReadKeeps DEF Steps, Inv, TypeOK
    <2>2. requests[task[w].order] = 0 /\ Grounded(task[w].order)
      BY <1>1, <1>4, OrderTyped DEF Inv, OrderFit, Flights, Grounded
    <2>3. Fine => FreeFit(w)'
      <3> SUFFICES ASSUME Fine PROVE FreeFit(w)'
        OBVIOUS
      <3>1. UNCHANGED <<order, refunds, requests, flying, row, today>>
        BY <1>1 DEF Calm, Books, remote
      <3>2. Top(row, Earned', today')
        BY <3>1 DEF Fine, Earned
      <3>3. TargetFit(w)' /\ SeenFit(w)'
        BY <1>1, <2>1, <3>2 DEF TargetFit, SeenFit, Keeps, Before
      <3>4. RefundFit(w)'
        BY <2>1, <2>2, <3>1 DEF RefundFit, Grounded, Keeps
      <3> QED BY <3>3, <3>4 DEF FreeFit
    <2> QED BY <1>1, <2>1, <2>3, FreeMove
  <1> QED BY <1>2, <1>3, <1>4 DEF PipelineBody, OrderOf

LEMMA ExecutorBodyFree ==
    ASSUME Inv, Inv', Flights, FreeInv, NEW w \in Procs, ExecutorBody(w)
    PROVE  FreeInv'
  <1>1. task[w].pc = "body" /\ task[w].flow = "executor" /\ Calm /\ UNCHANGED stray
    BY DEF ExecutorBody, At, Runs, rows, Quiet, ghosts, Books, Calm
  <1>3. ASSUME Leave(w) PROVE FreeInv'
    BY <1>1, <1>3, FreeLeave
  <1>4. ASSUME order[task[w].order] = "PAID", NEW pc \in {"claim", "refund"},
               task' = [task EXCEPT ![w].pc = pc, ![w].seen = row,
                                    ![w].target = Target(task[w].order, row, today)]
        PROVE  FreeInv'
    <2> DEFINE o == task[w].order
               t == Target(o, row, today)
    <2>0. o \in Orders /\ row \in Values /\ today \in Nat
      BY <1>1, OrderTyped DEF Inv, TypeOK
    <2>1. Others(w) /\ Keeps(w) /\ task'[w].pc = pc /\ task'[w].seen = row /\ task'[w].target = t
      <3> HIDE DEF t
      <3> QED BY <1>1, <1>4 DEF t, Others, Keeps, Inv, TypeOK, TaskRecord
    <2>2. requests[o] = 0 /\ Grounded(o)
      BY <1>1, <1>4, OrderTyped DEF Inv, OrderFit, Flights, Grounded
    <2>3. Fine => FreeFit(w)'
      <3> SUFFICES ASSUME Fine PROVE FreeFit(w)'
        OBVIOUS
      <3>1. UNCHANGED <<order, refunds, requests, flying, row, today>>
        BY <1>1 DEF Calm, Books, remote
      <3>2. Earned' = Earned /\ o \notin Earned /\ Top(row, Earned, today)
        BY <1>4, <3>1 DEF Fine, Earned
      <3>5. Top(t, Earned \cup {o}, today)
        BY <2>0, <3>2, TargetTop
      <3> HIDE DEF t
      <3>3. TargetFit(w)' /\ SeenFit(w)'
        BY <1>1, <2>1, <3>1, <3>2, <3>5 DEF TargetFit, SeenFit, Keeps, Before
      <3>4. RefundFit(w)'
        BY <2>1, <2>2, <3>1 DEF RefundFit, Grounded, Keeps
      <3> QED BY <3>3, <3>4 DEF FreeFit
    <2> QED BY <1>1, <2>1, <2>3, FreeMove
  <1> QED BY <1>3, <1>4 DEF ExecutorBody, OrderOf

LEMMA RecoveryBodyFree ==
    ASSUME Inv, Inv', FreeInv, NEW w \in Procs, RecoveryBody(w)
    PROVE  FreeInv'
  <1>1. task[w].pc = "body" /\ Calm /\ UNCHANGED stray
    BY DEF RecoveryBody, At, Runs, rows, Quiet, ghosts, Books, Calm
  <1>2. ASSUME NEW pc \in {"finish", "probe"}, Goto(w, pc) PROVE FreeInv'
    <2>1. Others(w) /\ task'[w].pc = pc
      BY <1>1, <1>2, GotoKeeps DEF Steps
    <2> QED BY <1>1, <2>1, FreeAway DEF Apart
  <1>3. ASSUME Leave(w) PROVE FreeInv'
    BY <1>1, <1>3, FreeLeave
  <1> QED BY <1>2, <1>3 DEF RecoveryBody

LEMMA PanelRefusesFree ==
    ASSUME Inv, Inv', Flights, FreeInv, NEW w \in Procs, PanelRefuses(w)
    PROVE  FreeInv'
  <1>1. task[w].pc \in Before /\ Goto(w, "refund") /\ Calm /\ UNCHANGED stray
    BY DEF PanelRefuses, At, rows, Quiet, ghosts, Books, Calm, Before
  <1>2. Others(w) /\ Keeps(w) /\ task'[w].pc = "refund"
    BY <1>1, GotoKeeps DEF Steps, Before
  <1>3. requests[task[w].order] = 0 /\ Grounded(task[w].order)
    <2>1. task[w].order \in Orders
      BY <1>1, OrderTyped DEF Inv, FlowFit, Before
    <2> QED BY <1>1, <2>1 DEF Inv, OrderFit, Flights, Grounded
  <1>4. FreeFit(w)'
    BY <1>1, <1>2, <1>3 DEF FreeFit, TargetFit, SeenFit, RefundFit, Grounded, Keeps, Before,
       Calm, Books, remote
  <1> QED BY <1>1, <1>2, <1>4, FreeMove

LEMMA UpdateConfirmedFree ==
    ASSUME Inv, Inv', FreeInv, NEW w \in Procs, UpdateConfirmed(w)
    PROVE  FreeInv'
  <1>1. /\ task[w].pc = "answer" /\ Calm /\ UNCHANGED stray /\ SameTerms(panel, task[w].target)
        /\ task' = [task EXCEPT ![w] = IF task[w].lost THEN Done(task[w])
                                       ELSE [task[w] EXCEPT !.pc = "persist", !.seen = panel]]
    BY DEF UpdateConfirmed, At, rows, Quiet, ghosts, Books, Calm, Inv, TypeOK
  <1>3. CASE task[w].lost
    <2>1. Leave(w)
      BY <1>1, <1>3 DEF Leave
    <2> QED BY <1>1, <2>1, FreeLeave
  <1>4. CASE ~task[w].lost
    <2>1. task' = [task EXCEPT ![w].pc = "persist", ![w].seen = panel]
      BY <1>1, <1>4 DEF Inv, TypeOK
    <2>2. Others(w) /\ Keeps(w) /\ task'[w].pc = "persist" /\ task'[w].seen = panel
      BY <1>1, <2>1, ReadKeeps DEF Inv, TypeOK, Steps
    <2>3. Fine => FreeFit(w)'
      <3>1. Fine => Top(panel, Earned \cup {task[w].order}, today)
        BY <1>1, TopSame DEF Fine, FreeFit, TargetFit
      <3>2. Earned' = Earned /\ today' = today
        BY <1>1 DEF Calm, Books, Earned
      <3> QED BY <2>2, <3>1, <3>2 DEF FreeFit, TargetFit, SeenFit, RefundFit, Keeps, Before
    <2> QED BY <1>1, <2>2, <2>3, FreeMove
  <1> QED BY <1>3, <1>4

LEMMA PersistFailsFree ==
    ASSUME Inv, Inv', FreeInv, NEW w \in Procs, PersistFails(w)
    PROVE  FreeInv'
  <1>1. task[w].pc \in {"persist", "retry"} /\ Calm /\ UNCHANGED stray
    BY DEF PersistFails, At, rows, Quiet, ghosts, Books, Calm
  <1>2. ASSUME Leave(w) PROVE FreeInv'
    BY <1>1, <1>2, FreeLeave
  <1>3. ASSUME NEW pc \in {"retry", "orphan"}, Goto(w, pc) PROVE FreeInv'
    <2>1. Others(w) /\ Keeps(w) /\ task'[w].pc = pc /\ task'[w].seen = task[w].seen
      BY <1>1, <1>3, GotoKeeps DEF Steps
    <2>2. Earned' = Earned /\ today' = today
      BY <1>1 DEF Calm, Books, Earned
    <2>3. Fine => FreeFit(w)'
      BY <1>1, <2>1, <2>2 DEF Fine, FreeFit, TargetFit, SeenFit, RefundFit, Keeps, Before
    <2> QED BY <1>1, <2>1, <2>3, FreeMove
  <1> QED BY <1>2, <1>3 DEF PersistFails

LEMMA HeartbeatFree ==
    ASSUME Inv, Inv', FreeInv, NEW w \in Procs, Heartbeat(w)
    PROVE  FreeInv'
  <1>1. Calm /\ UNCHANGED stray /\ task' = [task EXCEPT ![w].lost = TRUE]
    BY DEF Heartbeat, rows, Quiet, ghosts, Books, Calm
  <1>2. /\ Others(w) /\ Keeps(w) /\ task'[w].pc = task[w].pc
        /\ task'[w].seen = task[w].seen /\ task'[w].target = task[w].target
    BY <1>1 DEF Others, Keeps, Inv, TypeOK, TaskRecord
  <1>3. UNCHANGED <<order, refunds, requests, flying, panel, intent, today>> /\ Earned' = Earned
    BY <1>1 DEF Calm, Books, remote, Earned
  <1>4. FreeFit(w) => TargetFit(w)' /\ SeenFit(w)'
    BY <1>2, <1>3 DEF FreeFit, TargetFit, SeenFit, Copied, Expected, Keeps
  <1>5. FreeFit(w) => RefundFit(w)'
    BY <1>2, <1>3 DEF FreeFit, RefundFit, Grounded, Owes, Asked, Expected, Keeps
  <1>6. Fine => FreeFit(w)'
    BY <1>4, <1>5 DEF Fine, FreeFit
  <1> QED BY <1>1, <1>2, <1>6, FreeMove

LEMMA ProbeRecoveryFree ==
    ASSUME Inv, Inv', RowsInv, Flights, FreeInv, NEW w \in Procs, ProbeRecovery(w)
    PROVE  FreeInv'
  <1> DEFINE o == task[w].order
  <1>1. task[w].pc = "probe" /\ task[w].flow = "recovery" /\ Calm /\ UNCHANGED stray
    BY DEF ProbeRecovery, At, Runs, rows, Quiet, ghosts, Books, Calm
  <1>2. Earned' = Earned /\ UNCHANGED <<order, requests, flying, panel, intent, today>>
    BY <1>1 DEF Calm, Books, remote, Earned
  <1>3. ASSUME Leave(w) PROVE FreeInv'
    BY <1>1, <1>3, FreeLeave
  <1>4. ASSUME SameTerms(panel, Target(o, row, today)),
               task' = [task EXCEPT ![w].pc = "adopt", ![w].seen = panel]
        PROVE  FreeInv'
    <2>1. Others(w) /\ Keeps(w) /\ task'[w].pc = "adopt" /\ task'[w].seen = panel
      BY <1>1, <1>4, ReadKeeps DEF Steps, Inv, TypeOK
    <2>2. Clean /\ Fine => Top(panel, Earned \cup {o}, today)
      <3> SUFFICES ASSUME Clean, Fine PROVE Top(panel, Earned \cup {o}, today)
        OBVIOUS
      <3>1. o \in Orders /\ o \notin Earned
        BY <1>1, StillOpen DEF Doing, Clean
      <3>2. Top(Target(o, row, today), Earned \cup {o}, today)
        BY <3>1, TargetTop DEF Fine, Inv, TypeOK
      <3> QED BY <1>4, <3>2, TopSame
    <2>3. Clean /\ Fine => FreeFit(w)'
      BY <1>1, <1>2, <2>1, <2>2 DEF FreeFit, TargetFit, SeenFit, RefundFit, Keeps, Before
    <2> QED BY <1>1, <2>1, <2>3, FreeMove
  <1>5. ASSUME SameTerms(panel, row), Goto(w, "refund") PROVE FreeInv'
    <2>1. Others(w) /\ Keeps(w) /\ task'[w].pc = "refund"
      BY <1>1, <1>5, GotoKeeps DEF Steps
    <2>2. Clean => Grounded(o)'
      BY <1>1, <1>2, <2>1, JudgedGrounded DEF Clean, Grounded, Keeps
    <2>3. Fine => Top(panel, Earned, today)'
      BY <1>2, <1>5, TopSame DEF Fine
    <2>4. Clean /\ Fine => FreeFit(w)'
      BY <2>1, <2>2, <2>3 DEF FreeFit, TargetFit, SeenFit, RefundFit, Owes, Keeps, Before
    <2> QED BY <1>1, <2>1, <2>4, FreeMove
  <1> QED BY <1>3, <1>4, <1>5 DEF ProbeRecovery, OrderOf, AppliedTo, NotAppliedTo

LEMMA ProbeReconcilerFree ==
    ASSUME Inv, Inv', RowsInv, Flights, FreeInv, NEW w \in Procs, ProbeReconciler(w)
    PROVE  FreeInv'
  <1> DEFINE o == task[w].order
  <1>1. task[w].pc = "probe" /\ task[w].flow = "reconciler" /\ Calm /\ UNCHANGED stray
    BY DEF ProbeReconciler, At, Runs, rows, Quiet, ghosts, Books, Calm
  <1>2. Earned' = Earned /\ UNCHANGED <<order, requests, flying, panel, intent, today>>
    BY <1>1 DEF Calm, Books, remote, Earned
  <1>3. ASSUME Leave(w) PROVE FreeInv'
    BY <1>1, <1>3, FreeLeave
  <1>4. ASSUME task' = [task EXCEPT ![w].pc = "adopt", ![w].seen = panel] PROVE FreeInv'
    <2>1. Others(w) /\ Keeps(w) /\ task'[w].pc = "adopt" /\ task'[w].seen = panel
      BY <1>1, <1>4, ReadKeeps DEF Steps, Inv, TypeOK
    <2>2. Fine => Copied(panel)'
      BY <1>2 DEF Fine, Owes, Asked, Copied
    <2>3. Fine => FreeFit(w)'
      BY <1>1, <2>1, <1>2, <2>2 DEF FreeFit, TargetFit, SeenFit, RefundFit, Keeps, Before
    <2> QED BY <1>1, <2>1, <2>3, FreeMove
  <1>5. ASSUME ~MatchesIntent(intent[o], panel), Goto(w, "refund") PROVE FreeInv'
    <2>1. Others(w) /\ Keeps(w) /\ task'[w].pc = "refund"
      BY <1>1, <1>5, GotoKeeps DEF Steps
    <2>2. Clean => Grounded(o)'
      BY <1>1, <1>2, <2>1, JudgedGrounded DEF Clean, Grounded, Keeps
    <2>3. ~Expected(o, panel)
      BY <1>1, <1>5 DEF RowsInv, Routes, RouteKept, Expected, MatchesIntent, SameTerms
    <2>4. Fine => Owes(panel, Orders \ {o})
      BY <2>3 DEF Fine, Owes, Asked
    <2>5. Fine => Owes(panel, Orders \ {o})'
      BY <1>2, <2>1, <2>4 DEF Owes, Asked, Expected, Keeps
    <2>6. Clean /\ Fine => FreeFit(w)'
      BY <2>1, <2>2, <2>5 DEF FreeFit, TargetFit, SeenFit, RefundFit, Keeps, Before
    <2> QED BY <1>1, <2>1, <2>6, FreeMove
  <1> QED BY <1>3, <1>4, <1>5 DEF ProbeReconciler, OrderOf

LEMMA SyncReadFree ==
    ASSUME Inv, Inv', FreeInv, NEW w \in Procs, SyncRead(w)
    PROVE  FreeInv'
  <1>1. task[w].pc = "probe" /\ task[w].flow = "sync" /\ Calm /\ UNCHANGED stray
    BY DEF SyncRead, At, Runs, rows, Quiet, ghosts, Books, Calm
  <1>2. Earned' = Earned /\ UNCHANGED <<order, requests, flying, panel, intent, today>>
    BY <1>1 DEF Calm, Books, remote, Earned
  <1>3. ASSUME Leave(w) PROVE FreeInv'
    BY <1>1, <1>3, FreeLeave
  <1>4. ASSUME task' = [task EXCEPT ![w].pc = "adopt", ![w].seen = panel] PROVE FreeInv'
    <2>1. Others(w) /\ Keeps(w) /\ task'[w].pc = "adopt" /\ task'[w].seen = panel
      BY <1>1, <1>4, ReadKeeps DEF Steps, Inv, TypeOK
    <2>2. Fine => Copied(panel)'
      BY <1>2 DEF Fine, Owes, Asked, Copied
    <2>3. Fine => FreeFit(w)'
      BY <1>1, <2>1, <1>2, <2>2 DEF FreeFit, TargetFit, SeenFit, RefundFit, Keeps, Before
    <2> QED BY <1>1, <2>1, <2>3, FreeMove
  <1> QED BY <1>3, <1>4 DEF SyncRead

(* A step of a process that starts, waits for the lock or gives it back.   *)
LEMMA StartsApart ==
    ASSUME Inv, NEW w \in Procs,
           \/ OpenPage(w) \/ AcquireLock(w) \/ ReleaseLock(w)
           \/ \E o \in Orders : Dispatch(w, o) \/ FollowUpPaid(w, o) \/ FollowUpProvisioning(w, o)
    PROVE  Others(w) /\ task'[w].pc \in Apart
  <1>1. ASSUME NEW t, t.pc \in Apart, task' = [task EXCEPT ![w] = t]
        PROVE  Others(w) /\ task'[w].pc \in Apart
    BY <1>1 DEF Others, Inv, TypeOK
  <1>2. ASSUME NEW f, NEW o, NEW pc \in {"body", "probe"},
               task' = [task EXCEPT ![w] = [IdleTask EXCEPT !.flow = f, !.order = o, !.pc = pc,
                                                            !.locked = TRUE]]
        PROVE  Others(w) /\ task'[w].pc \in Apart
    <2>1. PICK t : t = [IdleTask EXCEPT !.flow = f, !.order = o, !.pc = pc, !.locked = TRUE]
      OBVIOUS
    <2>2. t.pc \in Apart
      BY <2>1 DEF IdleTask, Apart
    <2> QED BY <1>1, <1>2, <2>1, <2>2
  <1>3. ASSUME NEW o, Begin(w, "reconciler", o, "lock")
        PROVE  Others(w) /\ task'[w].pc \in Apart
    <2>1. PICK t : t = [IdleTask EXCEPT !.flow = "reconciler", !.order = o, !.pc = "lock"]
      OBVIOUS
    <2>2. t.pc \in Apart
      BY <2>1 DEF IdleTask, Apart
    <2> QED BY <1>1, <1>3, <2>1, <2>2 DEF Begin
  <1>4. CASE OpenPage(w) \/ \E o \in Orders : Dispatch(w, o) \/ FollowUpPaid(w, o)
    BY <1>2, <1>4 DEF OpenPage, Dispatch, FollowUpPaid, Locked
  <1>5. CASE AcquireLock(w)
    BY <1>5 DEF AcquireLock, Others, Inv, TypeOK, TaskRecord, Apart
  <1>6. CASE ReleaseLock(w)
    <2>1. IdleTask.pc \in Apart
      BY DEF IdleTask, Apart
    <2> QED BY <1>1, <1>6, <2>1 DEF ReleaseLock
  <1>7. CASE \E o \in Orders : FollowUpProvisioning(w, o)
    BY <1>3, <1>7 DEF FollowUpProvisioning
  <1> QED BY <1>4, <1>5, <1>6, <1>7

LEMMA StartFree ==
    ASSUME Inv, Inv', FreeInv, NEW w \in Procs,
           \/ OpenPage(w) \/ AcquireLock(w) \/ ReleaseLock(w)
           \/ \E o \in Orders : Dispatch(w, o) \/ FollowUpPaid(w, o) \/ FollowUpProvisioning(w, o)
    PROVE  FreeInv'
  <1>1. Calm /\ UNCHANGED stray
    BY DEF OpenPage, AcquireLock, ReleaseLock, Dispatch, FollowUpPaid, FollowUpProvisioning,
           Locked, rows, ghosts, remote, Books, Calm
  <1>2. Others(w) /\ task'[w].pc \in Apart
    BY StartsApart
  <1> QED BY <1>1, <1>2, FreeAway

LEMMA LeaveFree ==
    ASSUME Inv, Inv', FreeInv, NEW w \in Procs, GiveUpLock(w) \/ UpdateUnknown(w)
    PROVE  FreeInv'
  <1>1. Leave(w) /\ task[w].pc # "idle" /\ Calm /\ stray \subseteq stray'
    BY DEF GiveUpLock, UpdateUnknown, At, rows, Quiet, ghosts, Books, Calm
  <1> QED BY <1>1, FreeLeave

(* Time passes, requests are lost, processes die.                          *)
LEMMA FreePasses ==
    ASSUME Inv, Inv', FreeInv,
           UNCHANGED <<order, refunds, row, intent, panel, requests, unrecorded, blurred>>,
           stray \subseteq stray', flying' \subseteq flying, today <= today',
           \A w \in Procs : task'[w] = task[w] \/ task'[w].pc = "idle"
    PROVE  FreeInv'
  <1> SUFFICES ASSUME Clean' PROVE Fine'
    BY DEF FreeInv
  <1>1. Clean /\ Fine
    BY DEF Clean, FreeInv
  <1>2. /\ row \in Values /\ panel \in Values /\ panel' \in Values
        /\ today \in Nat /\ today' \in Nat
    BY DEF Inv, TypeOK
  <1>3. Onward /\ SameTerms(panel', panel)
    BY <1>2 DEF Onward, SameTerms, Earned
  <1>4. Top(row, Earned, today)'
    BY <1>1, <1>2, <1>3, OnwardTop DEF Fine
  <1>5. Owes(panel, Orders)'
    BY <1>1, <1>2, <1>3, OnwardOwes DEF Fine, Owes, Asked, Expected
  <1>6. ASSUME NEW w \in Procs PROVE FreeFit(w)'
    <2>1. CASE task'[w] = task[w]
      BY <1>1, <1>3, <2>1, FreeStays DEF Fine, FreeFit, RefundFit, Grounded
    <2>2. CASE task'[w].pc = "idle"
      BY <2>2 DEF FreeFit, TargetFit, SeenFit, RefundFit, Before
    <2> QED BY <2>1, <2>2
  <1>7. ASSUME NEW u \in flying' PROVE Asked(u[1], u[2])'
    <2>1. u \in flying /\ Asked(u[1], u[2])
      BY <1>1 DEF Fine
    <2>2. order'[u[1]] = "PROVISIONING" /\ intent'[u[1]] = intent[u[1]]
      BY <2>1 DEF Asked
    <2> QED BY <1>3, <2>1, <2>2, StillAsked DEF Asked, Expected
  <1> QED BY <1>4, <1>5, <1>6, <1>7 DEF Fine

LEMMA PassesFree ==
    ASSUME Inv, Inv', FreeInv,
           \/ StartRecovery \/ NextDay \/ LockExpires \/ BotCrash \/ UNCHANGED vars
           \/ \E w \in Procs : LockLapses(w)
           \/ \E o \in Orders : GrowsStale(o)
           \/ \E u \in flying : UpdateIsLost(u)
    PROVE  FreeInv'
  <1>1. /\ UNCHANGED <<order, refunds, row, intent, panel, requests, unrecorded, blurred>>
        /\ stray \subseteq stray' /\ flying' \subseteq flying /\ today <= today'
    BY DEF StartRecovery, NextDay, LockExpires, BotCrash, vars, LockLapses, GrowsStale, UpdateIsLost,
           rows, remote, ghosts, Inv, TypeOK
  <1>2. \A w \in Procs : task'[w] = task[w] \/ task'[w].pc = "idle"
    <2>1. CASE BotCrash
      BY <2>1 DEF BotCrash, IdleTask
    <2>2. CASE ~BotCrash
      BY <2>2 DEF StartRecovery, NextDay, LockExpires, vars, LockLapses, GrowsStale, UpdateIsLost
    <2> QED BY <2>1, <2>2
  <1> QED BY <1>1, <1>2, FreePasses

LEMMA RecoverNextFree ==
    ASSUME Inv, Inv', FreeInv, NEW o \in Orders, RecoverNext(o)
    PROVE  FreeInv'
  <1>1. Recovery \in Procs /\ Calm /\ UNCHANGED stray
    BY DEF Procs, RecoverNext, rows, ghosts, remote, Books, Calm
  <1>2. CASE UNCHANGED task
    <2>1. /\ UNCHANGED <<order, refunds, row, intent, panel, requests, unrecorded, blurred>>
          /\ flying' \subseteq flying /\ today <= today'
      BY <1>1 DEF Calm, Books, remote, Inv, TypeOK
    <2> QED BY <1>1, <1>2, <2>1, FreePasses
  <1>3. ASSUME NEW t, t.pc \in Apart, task' = [task EXCEPT ![Recovery] = t]
        PROVE  FreeInv'
    <2>1. Others(Recovery) /\ task'[Recovery].pc \in Apart
      BY <1>1, <1>3 DEF Others, Inv, TypeOK
    <2> QED BY <1>1, <2>1, FreeAway
  <1>4. CASE Begin(Recovery, "recovery", o, "finish")
    <2>1. PICK t : t = [IdleTask EXCEPT !.flow = "recovery", !.order = o, !.pc = "finish"]
      OBVIOUS
    <2>2. t.pc \in Apart
      BY <2>1 DEF IdleTask, Apart
    <2> QED BY <1>3, <1>4, <2>1, <2>2 DEF Begin
  <1>5. CASE task' = [task EXCEPT ![Recovery] = [IdleTask EXCEPT
                         !.flow = "recovery", !.order = o, !.pc = "body", !.locked = TRUE]]
    <2>1. PICK t : t = [IdleTask EXCEPT !.flow = "recovery", !.order = o, !.pc = "body",
                                        !.locked = TRUE]
      OBVIOUS
    <2>2. t.pc \in Apart
      BY <2>1 DEF IdleTask, Apart
    <2> QED BY <1>3, <1>5, <2>1, <2>2
  <1> QED BY <1>2, <1>4, <1>5 DEF RecoverNext

LEMMA UpdateLandsFree ==
    ASSUME Inv, Inv', FreeInv, NEW u \in flying, UpdateLands(u)
    PROVE  FreeInv'
  <1> SUFFICES ASSUME Clean' PROVE Fine'
    BY DEF FreeInv
  <1>0. /\ UNCHANGED <<order, refunds, row, intent, requests, task, today, unrecorded, blurred, stray>>
        /\ flying' = flying \ {u}
        /\ panel' = [panel EXCEPT !.limit = u[2].limit, !.expiry = u[2].expiry]
    BY DEF UpdateLands, rows, ghosts
  <1>1. Clean /\ Fine
    BY <1>0 DEF Clean, FreeInv
  <1>2. /\ row \in Values /\ panel \in Values /\ today \in Nat
        /\ u[1] \in Orders /\ u[2] \in Values
    BY DEF Inv, TypeOK
  <1>3. Onward /\ Earned' = Earned /\ SameTerms(panel', u[2])
    BY <1>0, <1>2 DEF Onward, SameTerms, Earned, Values
  <1>4. Asked(u[1], panel)'
    <2>1. Asked(u[1], u[2])
      BY <1>1 DEF Fine
    <2>2. Top(panel', Earned \cup {u[1]}, today)
      BY <1>3, <2>1, TopSame DEF Asked
    <2> QED BY <1>0, <1>3, <2>1, <2>2 DEF Asked, Expected, SameTerms
  <1>5. Owes(panel, Orders)'
    BY <1>2, <1>4 DEF Owes
  <1>6. ASSUME NEW w \in Procs PROVE FreeFit(w)'
    <2>1. FreeFit(w)
      BY <1>1 DEF Fine
    <2>2. CASE task[w].pc # "refund"
      BY <1>0, <1>3, <2>1, <2>2, FreeStays
    <2>3. CASE task[w].pc = "refund"
      <3>1. Grounded(task[w].order)
        BY <2>1, <2>3 DEF FreeFit, RefundFit
      <3>2. u[1] \in Orders \ {task[w].order} /\ Grounded(task[w].order)'
        BY <1>0, <1>2, <3>1 DEF Grounded
      <3>3. Owes(panel, Orders \ {task[w].order})'
        BY <1>0, <1>4, <3>2 DEF Owes
      <3> QED BY <1>0, <2>3, <3>2, <3>3 DEF FreeFit, TargetFit, SeenFit, RefundFit, Before
    <2> QED BY <2>2, <2>3
  <1>7. ASSUME NEW x \in flying' PROVE Asked(x[1], x[2])'
    BY <1>0, <1>1, <1>3 DEF Fine, Asked, Expected
  <1>8. Top(row, Earned, today)'
    BY <1>0, <1>1, <1>3 DEF Fine
  <1> QED BY <1>5, <1>6, <1>7, <1>8 DEF Fine

LEMMA ClaimFree ==
    ASSUME Inv, Inv', RowsInv, FreeInv, NEW w \in Procs, Claim(w)
    PROVE  FreeInv'
  <1> DEFINE o == task[w].order
             t == IF task[w].flow = "pipeline" THEN Target(o, task[w].seen, today) ELSE task[w].target
  <1>1. /\ task[w].pc = "claim" /\ order' = Flip(o, {"PAID"}, "PROVISIONING")
        /\ UNCHANGED <<refunds, row, applied, panel, flying, requests, today, stray, unrecorded, blurred>>
    BY DEF Claim, At, OrderOf, Quiet, ghosts, remote
  <1>2. o \in Orders /\ task[w].flow \in {"pipeline", "executor"}
    BY <1>1, OrderTyped DEF Inv, FlowFit
  <1>3. CASE order[o] # "PAID"
    <2>1. Leave(w) /\ UNCHANGED <<order, intent>>
      <3>1. Leave(w) /\ UNCHANGED intent
        BY <1>3 DEF Claim, OrderOf
      <3>2. UNCHANGED order
        BY <1>1, <1>3 DEF Flip, Inv, TypeOK
      <3> QED BY <3>1, <3>2
    <2> QED BY <1>1, <2>1, FreeLeave DEF Calm, Books, remote
  <1>4. CASE order[o] = "PAID"
    <2>1. \E pc \in Before : task' = [task EXCEPT ![w].target = t, ![w].pc = pc]
      BY <1>4 DEF Claim, OrderOf, Runs, Before
    <2>2. /\ Others(w) /\ Keeps(w) /\ task'[w].pc \in Before /\ task'[w].target = t
      <3> HIDE DEF t
      <3> QED BY <2>1 DEF Others, Keeps, Inv, TypeOK, TaskRecord
    <2>3. /\ \A d \in Orders \ {o} : order'[d] = order[d] /\ intent'[d] = intent[d]
          /\ order'[o] = "PROVISIONING"
      <3>1. \A d \in Orders \ {o} : intent'[d] = intent[d]
        BY <1>4 DEF Claim, OrderOf, Inv, TypeOK
      <3> QED BY <1>1, <1>2, <1>4, <3>1 DEF Flip, Inv, TypeOK
    <2>4. Expected(task[w].order, task[w].target)'
      <3>1. CASE task[w].flow = "pipeline"
        <4>1. intent' = intent /\ ~intent[o].written /\ task'[w].order = o
          BY <1>2, <1>4, <2>2, <3>1 DEF Claim, OrderOf, Runs, RowsInv, Routes, RouteFit, Keeps
        <4> QED BY <4>1 DEF Expected
      <3>2. CASE task[w].flow = "executor"
        <4>1. intent' = [intent EXCEPT ![o] = [before |-> task[w].seen, expected |-> t, written |-> TRUE]]
          BY <1>4, <3>2 DEF Claim, OrderOf, Runs
        <4>2. intent'[o].expected = t /\ task'[w].order = o /\ task'[w].target = t
          BY <1>2, <2>2, <4>1 DEF Inv, TypeOK, Keeps
        <4> HIDE DEF t
        <4> QED BY <4>2 DEF Expected, SameTerms
      <3> QED BY <1>2, <3>1, <3>2
    <2>5. Earned' = Earned /\ o \notin Earned
      BY <1>1, <1>4, <2>3 DEF Earned
    <2>6. Onward
      BY <1>1, <1>4, <2>3, <2>5 DEF Onward, Inv, TypeOK
    <2>7. ASSUME NEW v \in Procs \ {w}
          PROVE  /\ task[v].pc = "refund" => /\ requests'[task[v].order] = requests[task[v].order]
                                             /\ Grounded(task[v].order) => Grounded(task[v].order)'
                 /\ task[v].pc \in Before => intent'[task[v].order] = intent[task[v].order]
      <3>1. task[v].pc \in Before => task[v].order \in Orders /\ task[v].order # o
        BY <1>2, <1>4, OrderTyped DEF Inv, OrderFit, FlowFit, Before
      <3> QED BY <1>1, <2>2, <2>3, <3>1 DEF Grounded, Others
    <2>8. Fine => Top(row, Earned, today)'
      BY <1>1, <2>5 DEF Fine
    <2>9. Fine => FreeFit(w)'
      <3>1. Fine => Top(t, Earned \cup {o}, today)
        <4>1. task[w].seen \in Values /\ today \in Nat
          BY DEF Inv, TypeOK, TaskRecord
        <4>2. Fine => Top(task[w].seen, Earned, today)
          BY <1>1 DEF Fine, FreeFit, TargetFit
        <4>3. Fine => Top(Target(o, task[w].seen, today), Earned \cup {o}, today)
          BY <1>2, <2>5, <4>1, <4>2, TargetTop
        <4>4. Fine /\ task[w].flow = "executor" => Top(task[w].target, Earned \cup {o}, today)
          BY <1>1 DEF Fine, FreeFit, TargetFit
        <4> QED BY <1>2, <4>3, <4>4
      <3> HIDE DEF t
      <3> QED BY <1>1, <2>2, <2>4, <2>5, <3>1
              DEF FreeFit, TargetFit, SeenFit, RefundFit, Keeps, Before
    <2>10. Fine => \A u \in flying' : Asked(u[1], u[2])'
      <3> SUFFICES ASSUME Fine, NEW u \in flying PROVE Asked(u[1], u[2])'
        BY <1>1
      <3>1. Asked(u[1], u[2]) /\ u[1] \in Orders \ {o}
        BY <1>4 DEF Fine, Asked, Inv, TypeOK
      <3>2. order'[u[1]] = "PROVISIONING" /\ intent'[u[1]] = intent[u[1]]
        BY <2>3, <3>1 DEF Asked
      <3> QED BY <2>6, <3>1, <3>2, StillAsked DEF Asked, Expected
    <2>11. SameTerms(panel', panel)
      BY <1>1 DEF SameTerms
    <2> QED BY <1>1, <2>2, <2>6, <2>7, <2>8, <2>9, <2>10, <2>11, FreeData
  <1> QED BY <1>3, <1>4

LEMMA ResetTrafficFree ==
    ASSUME Inv, Inv', Flights, FreeInv, NEW w \in Procs, ResetTraffic(w)
    PROVE  FreeInv'
  <1> DEFINE o == task[w].order
  <1>1. /\ task[w].pc = "reset" /\ panel' = [panel EXCEPT !.used = 0]
        /\ \E pc \in {"send", "refund"} : Goto(w, pc)
        /\ UNCHANGED <<order, refunds, row, intent, flying, requests, today, stray, unrecorded, blurred>>
    BY DEF ResetTraffic, At, rows, ghosts
  <1>2. /\ Others(w) /\ Keeps(w) /\ task'[w].pc \in {"send", "refund"}
        /\ task'[w].target = task[w].target
    BY <1>1, GotoKeeps DEF Steps
  <1>3. requests[o] = 0 /\ Grounded(o)
    <2>1. o \in Orders
      BY <1>1, OrderTyped DEF Inv, FlowFit
    <2> QED BY <1>1, <2>1 DEF Inv, OrderFit, Flights, Grounded, Before
  <1>4. SameTerms(panel', panel) /\ Earned' = Earned
    BY <1>1 DEF SameTerms, Earned, Inv, TypeOK, Values
  <1>5. Onward
    BY <1>1, <1>4 DEF Onward, Inv, TypeOK
  <1>6. \A v \in Procs \ {w} :
              /\ task[v].pc = "refund" => /\ requests'[task[v].order] = requests[task[v].order]
                                          /\ Grounded(task[v].order) => Grounded(task[v].order)'
              /\ task[v].pc \in Before => intent'[task[v].order] = intent[task[v].order]
    BY <1>1, <1>2 DEF Grounded, Others
  <1>7. Fine => Top(row, Earned, today)' /\ \A u \in flying' : Asked(u[1], u[2])'
    BY <1>1, <1>4 DEF Fine, Asked, Expected
  <1>8. Fine => FreeFit(w)'
    <2>1. RefundFit(w)'
      BY <1>1, <1>2, <1>3 DEF RefundFit, Grounded, Keeps
    <2>2. Fine => TargetFit(w)'
      BY <1>1, <1>2, <1>4 DEF Fine, FreeFit, TargetFit, Expected, Keeps, Before
    <2> QED BY <1>2, <2>1, <2>2 DEF FreeFit, SeenFit
  <1> QED BY <1>1, <1>2, <1>4, <1>5, <1>6, <1>7, <1>8, FreeData

LEMMA SendUpdateFree ==
    ASSUME Inv, Inv', RowsInv, FreeInv, NEW w \in Procs, SendUpdate(w)
    PROVE  FreeInv'
  <1> DEFINE o == task[w].order
  <1>1. /\ task[w].pc = "send" /\ flying' = flying \cup {<<o, task[w].target>>}
        /\ requests' = [requests EXCEPT ![o] = @ + 1] /\ Goto(w, "answer")
        /\ UNCHANGED <<order, refunds, row, intent, panel, today, stray, unrecorded, blurred>>
    BY DEF SendUpdate, At, OrderOf, rows, ghosts
  <1>2. /\ Others(w) /\ Keeps(w) /\ task'[w].pc = "answer"
        /\ task'[w].target = task[w].target
    BY <1>1, GotoKeeps DEF Steps
  <1>3. o \in Orders /\ requests[o] = 0
    <2>1. o \in Orders
      BY <1>1, OrderTyped DEF Inv, FlowFit
    <2> QED BY <1>1, <2>1 DEF Inv, OrderFit, Before
  <1>4. /\ SameTerms(panel', panel) /\ Earned' = Earned
        /\ requests'[o] > 0 /\ \A d \in Orders \ {o} : requests'[d] = requests[d]
    BY <1>1, <1>3 DEF SameTerms, Earned, Inv, TypeOK
  <1>5. Onward
    BY <1>1, <1>3, <1>4 DEF Onward, Inv, TypeOK
  <1>6. ASSUME NEW v \in Procs \ {w}
        PROVE  /\ task[v].pc = "refund" => /\ requests'[task[v].order] = requests[task[v].order]
                                           /\ Grounded(task[v].order) => Grounded(task[v].order)'
               /\ task[v].pc \in Before => intent'[task[v].order] = intent[task[v].order]
    <2>1. task[v].pc # "refund"
      BY <1>1 DEF Inv, LockFit, Held
    <2> QED BY <1>1, <2>1
  <1>7. Fine => Top(row, Earned, today)'
    BY <1>1, <1>4 DEF Fine
  <1>8. Fine => FreeFit(w)'
    BY <1>1, <1>2, <1>4 DEF Fine, FreeFit, TargetFit, SeenFit, RefundFit, Keeps, Before
  <1>9. Clean /\ Fine => \A u \in flying' : Asked(u[1], u[2])'
    <2> SUFFICES ASSUME Clean, Fine, NEW u \in flying' PROVE Asked(u[1], u[2])'
      OBVIOUS
    <2>1. CASE u \in flying
      <3>1. Asked(u[1], u[2])
        BY <2>1 DEF Fine
      <3>2. order'[u[1]] = "PROVISIONING" /\ intent'[u[1]] = intent[u[1]]
        BY <1>1, <3>1 DEF Asked
      <3> QED BY <1>5, <2>1, <3>1, <3>2, StillAsked DEF Asked, Expected
    <2>2. CASE u = <<o, task[w].target>>
      <3>1. order[o] = "PROVISIONING"
        BY <1>1, StillOpen DEF Doing, Before, Clean
      <3>2. Top(task[w].target, Earned \cup {o}, today) /\ Expected(o, task[w].target)
        BY <1>1 DEF Fine, FreeFit, TargetFit, Before
      <3>3. u[1] = o /\ u[2] = task[w].target
        BY <2>2
      <3> QED BY <1>1, <1>4, <3>1, <3>2, <3>3 DEF Asked, Expected
    <2> QED BY <1>1, <2>1, <2>2
  <1> QED BY <1>1, <1>2, <1>4, <1>5, <1>6, <1>7, <1>8, <1>9, FreeData

(* A process settles its order and leaves.                                 *)
LEMMA FreeSettle ==
    ASSUME Inv, Inv', FreeInv, NEW w \in Procs, Leave(w), task[w].pc # "idle", Onward,
           UNCHANGED <<intent, panel, flying, requests, stray, unrecorded>>, blurred => blurred',
           \A d \in Orders \ {task[w].order} : order'[d] = order[d],
           Clean => UNCHANGED order \/ order[task[w].order] # "PROVISIONING" \/ Grounded(task[w].order),
           Clean' /\ Clean /\ Fine => Top(row, Earned, today)'
    PROVE  FreeInv'
  <1>1. Others(w) /\ Left(w)
    BY LeaveLeft
  <1>2. FreeFit(w)'
    BY <1>1 DEF FreeFit, TargetFit, SeenFit, RefundFit, Left, Before
  <1>3. \A v \in Procs \ {w} :
              /\ task[v].pc = "refund" => /\ requests'[task[v].order] = requests[task[v].order]
                                          /\ Grounded(task[v].order) => Grounded(task[v].order)'
              /\ task[v].pc \in Before => intent'[task[v].order] = intent[task[v].order]
    BY <1>1 DEF Grounded, Others
  <1>4. ASSUME Clean, Fine, NEW u \in flying' PROVE Asked(u[1], u[2])'
    <2>1. u \in flying /\ Asked(u[1], u[2]) /\ u[1] \in Orders
      BY <1>4 DEF Fine, Inv, TypeOK
    <2>2. order'[u[1]] = "PROVISIONING" /\ intent'[u[1]] = intent[u[1]]
      BY <1>4, <2>1 DEF Asked, Grounded
    <2> QED BY <2>1, <2>2, StillAsked DEF Asked, Expected
  <1>5. SameTerms(panel', panel)
    BY DEF SameTerms
  <1> QED BY <1>1, <1>2, <1>3, <1>4, <1>5, FreeData

(* An order that a transaction completes has no refund.                    *)
LEMMA CompletesOnward ==
    ASSUME Inv, Flights, NEW o \in Orders, NEW from, order' = Flip(o, from, "COMPLETED"),
           UNCHANGED <<refunds, intent, requests, today>>
    PROVE  /\ Onward
           /\ \A d \in Orders \ {o} : order'[d] = order[d]
           /\ order[o] = "PROVISIONING" /\ "PROVISIONING" \in from => Earned' = Earned \cup {o}
  <1>1. /\ \A d \in Orders \ {o} : order'[d] = order[d]
        /\ order'[o] = IF order[o] \in from THEN "COMPLETED" ELSE order[o]
    BY DEF Flip, Inv, TypeOK
  <1>2. order[o] = "PROVISIONING" => refunds[o] = 0
    BY DEF Flights, StaleFit
  <1>3. Earned \subseteq Earned'
    BY <1>1 DEF Earned
  <1> QED BY <1>1, <1>2, <1>3 DEF Onward, Earned, Inv, TypeOK

LEMMA FinishFree ==
    ASSUME Inv, Inv', RowsInv, Flights, FreeInv, NEW w \in Procs, Finish(w)
    PROVE  FreeInv'
  <1> DEFINE o == task[w].order
  <1>1. /\ task[w].pc = "finish" /\ Leave(w)
        /\ UNCHANGED <<refunds, row, intent, panel, flying, requests, today, stray, unrecorded, blurred>>
    BY DEF Finish, At, CompleteOrder, Quiet, ghosts, remote
  <1>2. PICK from : order' = Flip(o, from, "COMPLETED")
    BY DEF Finish, CompleteOrder, OrderOf
  <1>3. o \in Orders
    BY <1>1, OrderTyped DEF Inv, FlowFit
  <1>4. Onward /\ \A d \in Orders \ {o} : order'[d] = order[d]
    BY <1>1, <1>2, <1>3, CompletesOnward
  <1>5. order[o] # "PROVISIONING"
    BY <1>1, <1>3 DEF RowsInv, Routes, RouteKept, RouteFit
  <1>6. Clean' /\ Clean /\ Fine => Top(row, Earned, today)'
    BY <1>1, <1>4, OnwardTop DEF Fine, Inv, TypeOK
  <1> QED BY <1>1, <1>4, <1>5, <1>6, FreeSettle

LEMMA PersistFree ==
    ASSUME Inv, Inv', RowsInv, Flights, FreeInv, NEW w \in Procs, Persist(w)
    PROVE  FreeInv'
  <1> DEFINE o == task[w].order
  <1>1. /\ task[w].pc \in {"persist", "retry"} /\ Leave(w) /\ row' = task[w].seen
        /\ order' = Flip(o, {"PROVISIONING"}, "COMPLETED")
        /\ UNCHANGED <<refunds, intent, panel, flying, requests, today, stray, unrecorded, blurred>>
    BY DEF Persist, At, PersistApplied, PersistAppApplied, OrderOf, Quiet, ghosts, remote
  <1>2. o \in Orders
    BY <1>1, OrderTyped DEF Inv, FlowFit, Sent
  <1>3. /\ Onward /\ \A d \in Orders \ {o} : order'[d] = order[d]
        /\ order[o] = "PROVISIONING" => Earned' = Earned \cup {o}
    BY <1>1, <1>2, CompletesOnward
  <1>4. Grounded(o)
    BY <1>1 DEF Flights, FlightsFit, Sent
  <1>5. Clean' /\ Clean /\ Fine => Top(row, Earned, today)'
    <2>1. Clean => order[o] = "PROVISIONING"
      BY <1>1, StillOpen DEF Doing, Clean, Sent
    <2>2. Fine => Top(task[w].seen, Earned \cup {o}, today)
      BY <1>1 DEF Fine, FreeFit, SeenFit
    <2> QED BY <1>1, <1>3, <2>1, <2>2
  <1> QED BY <1>1, <1>3, <1>4, <1>5, FreeSettle

LEMMA AdoptFree ==
    ASSUME Inv, Inv', RowsInv, Flights, FreeInv, NEW w \in Procs, Adopt(w)
    PROVE  FreeInv'
  <1> DEFINE o == task[w].order
             v == task[w].seen
  <1>1. /\ task[w].pc = "adopt" /\ task[w].flow # "sync" /\ Leave(w)
        /\ UNCHANGED <<panel, flying, requests, today, stray, unrecorded>>
    BY DEF Adopt, At, Runs, Quiet, remote
  <1>2. o \in Orders /\ v \in Values
    BY <1>1, OrderTyped DEF Inv, TypeOK, TaskRecord
  <1>3. task[w].flow \in {"recovery", "reconciler"} =>
            (Clean => order[o] # "PROVISIONING" \/ Grounded(o))
    BY <1>1, JudgedGrounded DEF Clean
  <1>4. CASE UNCHANGED <<rows, blurred>>
    BY <1>1, <1>4, FreeLeave DEF Calm, Books, rows, remote
  <1>5. CASE Runs(w, "recovery") /\ PersistApplied(o, v) /\ UNCHANGED blurred
    <2>1. /\ row' = v /\ order' = Flip(o, {"PROVISIONING"}, "COMPLETED")
          /\ UNCHANGED <<refunds, intent, blurred>> /\ task[w].flow = "recovery"
      BY <1>5 DEF PersistApplied, Runs
    <2>2. /\ Onward /\ \A d \in Orders \ {o} : order'[d] = order[d]
          /\ order[o] = "PROVISIONING" => Earned' = Earned \cup {o}
      BY <1>1, <1>2, <2>1, CompletesOnward
    <2>3. Clean' /\ Clean /\ Fine => Top(row, Earned, today)'
      <3>1. Clean => order[o] = "PROVISIONING"
        BY <1>1, <2>1, StillOpen DEF Doing, Clean
      <3>2. Fine => Top(v, Earned \cup {o}, today)
        BY <1>1, <2>1 DEF Fine, FreeFit, SeenFit
      <3> QED BY <1>1, <2>1, <2>2, <3>1, <3>2
    <2> QED BY <1>1, <1>3, <2>1, <2>2, <2>3, FreeSettle
  <1>6. CASE /\ Runs(w, "reconciler") /\ PersistAppApplied(o, v, OrderStatuses)
             /\ blurred' = (blurred \/ Blurs(v, Orders \ {o}))
    <2>1. /\ row' = v /\ order' = Flip(o, OrderStatuses, "COMPLETED")
          /\ UNCHANGED <<refunds, intent>> /\ task[w].flow = "reconciler"
          /\ blurred' = (blurred \/ Blurs(v, Orders \ {o}))
      BY <1>6 DEF PersistAppApplied, Runs
    <2>2. /\ Onward /\ \A d \in Orders \ {o} : order'[d] = order[d]
          /\ order[o] = "PROVISIONING" => Earned' = Earned \cup {o}
      BY <1>1, <1>2, <2>1, CompletesOnward DEF OrderStatuses
    <2>3. ASSUME Clean', Clean, Fine PROVE Top(row, Earned, today)'
      <3>1. ~Blurs(v, Orders \ {o})
        BY <2>1, <2>3 DEF Clean
      <3>2. Copied(v) /\ Top(row, Earned, today)
        BY <1>1, <2>1, <2>3 DEF Fine, FreeFit, SeenFit
      <3>3. CASE Top(v, Earned, today)
        BY <1>2, <2>1, <2>2, <3>3, OnwardTop
      <3>4. ASSUME NEW d \in Orders, order[d] = "PROVISIONING", Top(v, Earned \cup {d}, today)
            PROVE  Top(row, Earned, today)'
        <4>1. CASE d = o
          BY <1>1, <2>1, <2>2, <3>4, <4>1
        <4>2. CASE d # o
          <5>1. SameTerms(v, row)
            BY <3>1, <3>4, <4>2 DEF Blurs, SameTerms
          <5>2. Top(v, Earned, today)
            BY <3>2, <5>1, TopSame
          <5> QED BY <3>3, <5>2
        <4> QED BY <4>1, <4>2
      <3> QED BY <3>2, <3>3, <3>4 DEF Copied
    <2> QED BY <1>1, <1>3, <2>1, <2>2, <2>3, FreeSettle
  <1> QED BY <1>4, <1>5, <1>6 DEF Adopt, OrderOf

LEMMA SyncWriteFree ==
    ASSUME Inv, Inv', FreeInv, NEW w \in Procs, SyncWrite(w)
    PROVE  FreeInv'
  <1> DEFINE v == task[w].seen
  <1>1. /\ task[w].pc = "adopt" /\ task[w].flow = "sync" /\ Leave(w) /\ row' = v
        /\ blurred' = (blurred \/ Blurs(v, Orders))
        /\ UNCHANGED <<order, refunds, intent, panel, flying, requests, today, stray, unrecorded>>
    BY DEF SyncWrite, At, Runs, Quiet, remote
  <1>2. v \in Values /\ today \in Nat
    BY DEF Inv, TypeOK, TaskRecord
  <1>3. Onward /\ Earned' = Earned
    BY <1>1, <1>2 DEF Onward, Earned
  <1>4. ASSUME Clean', Clean, Fine PROVE Top(row, Earned, today)'
    <2>1. ~Blurs(v, Orders)
      BY <1>1, <1>4 DEF Clean
    <2>2. Copied(v) /\ Top(row, Earned, today)
      BY <1>1, <1>4 DEF Fine, FreeFit, SeenFit
    <2>3. Top(v, Earned, today)
      <3>1. CASE \E d \in Orders : order[d] = "PROVISIONING"
        <4>1. SameTerms(v, row)
          BY <2>1, <3>1 DEF Blurs, SameTerms
        <4> QED BY <2>2, <4>1, TopSame
      <3> QED BY <2>2, <3>1 DEF Copied
    <2> QED BY <1>1, <1>3, <2>3
  <1> QED BY <1>1, <1>3, <1>4, FreeSettle


LEMMA RefundFree ==
    ASSUME Inv, Inv', FreeInv, NEW w \in Procs, Refund(w)
    PROVE  FreeInv'
  <1> DEFINE o == task[w].order
  <1>1. /\ task[w].pc \in {"refund", "orphan"} /\ Leave(w)
        /\ order' = Flip(o, {"PAID", "PROVISIONING"}, "FAILED")
        /\ refunds' = [refunds EXCEPT ![o] =
              IF order[o] \in {"PAID", "PROVISIONING"} /\ @ = 0 THEN @ + 1 ELSE @]
        /\ UNCHANGED <<row, intent, panel, flying, requests, today, stray, blurred>>
        /\ unrecorded' = IF task[w].pc = "orphan" THEN unrecorded \cup {o} ELSE unrecorded
    BY DEF Refund, At, FailOrderWithRefund, OrderOf, Quiet, remote
  <1> SUFFICES ASSUME Clean' PROVE Fine'
    BY DEF FreeInv
  <1>2. task[w].pc = "refund" /\ Clean /\ Fine
    <2>1. task[w].pc = "refund"
      BY <1>1 DEF Clean
    <2> QED BY <1>1, <2>1 DEF Clean, FreeInv
  <1>3. Others(w) /\ Left(w)
    BY <1>1, LeaveLeft
  <1>4. \A d \in Orders \ {o} : order'[d] = order[d] /\ refunds'[d] = refunds[d]
    BY <1>1 DEF Flip, Inv, TypeOK
  <1>5. Earned' = Earned
    <2>1. o \in Orders => (o \in Earned' <=> o \in Earned)
      BY <1>1 DEF Earned, Flip, Inv, TypeOK
    <2> QED BY <1>4, <2>1 DEF Earned
  <1>6. \A d \in Orders \ {o} : \A v : Asked(d, v) => Asked(d, v)'
    BY <1>1, <1>4, <1>5 DEF Asked, Expected
  <1>7. Grounded(o) /\ Owes(panel, Orders \ {o})
    <2>1. Grounded(o) /\ (requests[o] = 0 \/ Owes(panel, Orders \ {o}))
      BY <1>2 DEF Fine, FreeFit, RefundFit
    <2>2. requests[o] = 0 => ~Asked(o, panel)
      BY DEF Asked
    <2>3. Owes(panel, Orders)
      BY <1>2 DEF Fine
    <2> QED BY <2>1, <2>2, <2>3 DEF Owes
  <1>8. Top(row, Earned, today)' /\ Owes(panel, Orders)'
    BY <1>1, <1>2, <1>5, <1>6, <1>7 DEF Fine, Owes
  <1>9. ASSUME NEW v \in Procs PROVE FreeFit(v)'
    <2>1. CASE v = w
      BY <1>3, <2>1 DEF FreeFit, TargetFit, SeenFit, RefundFit, Left, Before
    <2>2. CASE v # w
      <3>1. task'[v] = task[v] /\ task[v].pc \notin Held /\ FreeFit(v)
        BY <1>2, <1>3, <2>2 DEF Inv, LockFit, Held, Others, Fine
      <3> QED BY <1>1, <1>5, <3>1 DEF FreeFit, TargetFit, SeenFit, RefundFit, Before, Held
    <2> QED BY <2>1, <2>2
  <1>10. ASSUME NEW u \in flying' PROVE Asked(u[1], u[2])'
    <2>1. u \in flying /\ u[1] \in Orders \ {o} /\ Asked(u[1], u[2])
      BY <1>1, <1>2, <1>7 DEF Grounded, Fine, Inv, TypeOK
    <2> QED BY <1>6, <2>1
  <1> QED BY <1>8, <1>9, <1>10 DEF Fine

LEMMA FreeInit == Init => FreeInv
  <1> SUFFICES ASSUME Init PROVE Fine
    BY DEF FreeInv
  <1>1. row = Initial /\ panel = Initial /\ today = 0 /\ flying = {} /\ Earned = {}
    BY DEF Init, Earned
  <1>2. Top(Initial, {}, 0)
    BY MoreBuysMore DEF Top, Initial
  <1>3. \A w \in Procs : FreeFit(w)
    BY DEF Init, IdleTask, FreeFit, TargetFit, SeenFit, RefundFit, Before
  <1> QED BY <1>1, <1>2, <1>3 DEF Fine, Owes

LEMMA FreeStep == Inv /\ Inv' /\ RowsInv /\ Flights /\ FreeInv /\ [Next]_vars => FreeInv'
  <1> SUFFICES ASSUME Inv, Inv', RowsInv, Flights, FreeInv, [Next]_vars PROVE FreeInv'
    OBVIOUS
  <1>1. ASSUME NEW w \in Procs, Step(w) PROVE FreeInv'
    BY <1>1, Zenon, StartFree, LeaveFree, PipelineBodyFree, ExecutorBodyFree, RecoveryBodyFree,
       FinishFree, ClaimFree, PanelRefusesFree, ResetTrafficFree, SendUpdateFree,
       UpdateConfirmedFree, PersistFree, PersistFailsFree, RefundFree, ProbeRecoveryFree,
       ProbeReconcilerFree, AdoptFree, SyncReadFree, SyncWriteFree, PassesFree, HeartbeatFree
       DEF Step
  <1>2. ASSUME NEW w \in Procs, NEW o \in Orders,
               Dispatch(w, o) \/ FollowUpPaid(w, o) \/ FollowUpProvisioning(w, o)
        PROVE  FreeInv'
    BY <1>2, StartFree
  <1>3. ASSUME NEW w \in Procs, OpenPage(w) PROVE FreeInv'
    BY <1>3, StartFree
  <1>4. ASSUME NEW o \in Orders, RecoverNext(o) PROVE FreeInv'
    BY <1>4, RecoverNextFree
  <1>5. ASSUME NEW u \in flying, UpdateLands(u) PROVE FreeInv'
    BY <1>5, UpdateLandsFree
  <1>6. CASE \/ StartRecovery \/ NextDay \/ LockExpires \/ BotCrash \/ UNCHANGED vars
             \/ \E o \in Orders : GrowsStale(o)
             \/ \E u \in flying : UpdateIsLost(u)
    BY <1>6, PassesFree
  <1> QED BY <1>1, <1>2, <1>3, <1>4, <1>5, <1>6, Zenon DEF Next

LEMMA FreeAlways == Spec => [](Inv /\ Flights /\ FreeInv)
  <1>1. Spec => []Flights
    BY FlightsInit, FlightsStep, InvAlways, PTL DEF Spec
  <1>2. Spec => []FreeInv
    BY <1>1, FreeInit, FreeStep, InvAlways, RowsAlways, PTL DEF Spec
  <1> QED BY <1>1, <1>2, InvAlways, PTL

(* Nobody gets the money back and keeps what it paid for: what the panel   *)
(* holds is what the service had, what completed orders bought and at most *)
(* one order that is still open.  The hypothesis is what the code needs:   *)
(* the reconciler of a Mini App order takes the panel for final, which it  *)
(* is not once a request outlived the lock of its sender.                  *)
THEOREM NothingForFreeAlways == Spec => []((stray = {} \/ MiniApp = {}) => NothingForFree)
  <1>1. Inv /\ Flights /\ FreeInv => ((stray = {} \/ MiniApp = {}) => NothingForFree)
    <2> SUFFICES ASSUME Inv, Flights, FreeInv, stray = {} \/ MiniApp = {},
                        blurred = FALSE, unrecorded = {}
                 PROVE  ~Unearned
      BY DEF NothingForFree, Inv, TypeOK
    <2>1. Owes(panel, Orders)
      BY DEF FreeInv, Clean, Fine
    <2>2. panel \in Values /\ today \in Nat
      BY DEF Inv, TypeOK
    <2>3. Top(panel, Kept, today)
      <3>1. CASE Top(panel, Earned, today)
        <4>1. Earned \subseteq Kept
          BY DEF Earned, Kept
        <4> QED BY <2>2, <3>1, <4>1, TopMore
      <3>2. ASSUME NEW o \in Orders, Asked(o, panel) PROVE Top(panel, Kept, today)
        <4>1. Earned \cup {o} \subseteq Kept
          BY <3>2 DEF Earned, Kept, Asked, Flights, StaleFit
        <4>2. Top(panel, Earned \cup {o}, today)
          BY <3>2 DEF Asked
        <4> QED BY <2>2, <4>1, <4>2, TopMore
      <3> QED BY <2>1, <3>1, <3>2 DEF Owes
    <2>4. VolumeOf(Kept) \in Nat /\ DaysOf(Kept) \in Nat
      BY MoreBuysMore
    <2>5. panel.limit \in Nat /\ panel.expiry \in Nat
      BY <2>2 DEF Values
    <2> QED BY <2>2, <2>3, <2>4, <2>5 DEF Top, Unearned
  <1> QED BY <1>1, FreeAlways, PTL

-----------------------------------------------------------------------------
(* What nobody may take away again.  Row, panel and every request on its   *)
(* way leave at least what the service had left and the completed orders   *)
(* bought.  The panel counts no more usage than a value written over it    *)
(* allows for, since the usage that was reset counts no more, and the      *)
(* first usage is counted only under the first quota.                      *)
BotOnly ==
    /\ MiniApp = {}
    /\ \A o \in Orders : Operation[o] = "RENEWAL" => Volume[o] # Used0
Least(v, S) ==
    /\ v.limit - v.used >= Limit0 - Used0 + VolumeOf(S)
    /\ v.expiry >= Expiry0 + DaysOf(S)
Allows(v) ==
    /\ panel.used <= v.used
    /\ panel.used # 0 => panel.used = Used0 /\ v.used = Used0 /\ v.limit = Limit0
TargetKept(w) ==
    /\ task[w].pc = "claim" => task[w].seen = row
    /\ task[w].pc \in Before \cup {"answer"} => Least(task[w].target, Completed \cup {task[w].order})
    /\ task[w].pc \in {"send", "answer"} => Allows(task[w].target)
SeenKept(w) ==
    /\ task[w].pc \in {"persist", "retry", "adopt"} => task[w].seen = panel
    /\ task[w].pc \in {"persist", "retry"} \/ (task[w].pc = "adopt" /\ task[w].flow = "recovery") =>
          Least(panel, Completed \cup {task[w].order})
TaskKept(w)    == TargetKept(w) /\ SeenKept(w)
RequestKept(u) == Least(u[2], Completed \cup {u[1]}) /\ Allows(u[2])

AllKept == /\ Least(row, Completed) /\ Allows(row)
           /\ Least(panel, Completed) /\ Allows(panel)
           /\ \A w \in Procs : TaskKept(w)
           /\ \A u \in flying : RequestKept(u)
LostInv == BotOnly /\ stray = {} => AllKept

(* No order buys nothing.                                                  *)
LEMMA NoneBuysNothing == VolumeOf({}) = 0 /\ DaysOf({}) = 0
  <1>1. ASSUME NEW f, \A x \in Orders : f[x] = 0
        PROVE  SumFunctionOnSet(f, Orders) = 0
    <2>1. PICK g : /\ \A s \in SUBSET Orders : g[s] = Summand(f, g, s)
                   /\ SumFunctionOnSet(f, Orders) = g[Orders]
      BY SumRead
    <2> DEFINE Wrong == {s \in SUBSET Orders : g[s] # 0}
    <2>2. Wrong = {}
      <3>1. SUFFICES ASSUME Wrong # {} PROVE FALSE
        OBVIOUS
      <3>2. PICK s \in Wrong : \A x \in s : s \ {x} \notin Wrong
        BY <3>1, Smallest
      <3>3. s # {}
        BY <2>1, <3>2 DEF Summand
      <3> DEFINE x == Pick(s)
      <3>4. x \in s /\ x \in Orders /\ g[s \ {x}] = 0
        BY <3>2, <3>3 DEF Pick
      <3>5. g[s] = f[x] + g[s \ {x}]
        BY <2>1, <3>2, <3>3 DEF Summand
      <3> HIDE DEF x
      <3> QED BY <1>1, <3>2, <3>4, <3>5
    <2> QED BY <2>1, <2>2
  <1>2. /\ \A x \in Orders : VolumePart({})[x] = 0
        /\ \A x \in Orders : DaysPart({})[x] = 0
    BY DEF VolumePart, DaysPart
  <1> QED BY <1>1, <1>2, PartsSum

LEMMA LeastLess ==
    ASSUME NEW v \in Values, NEW S, NEW T, S \subseteq T, Least(v, T)
    PROVE  Least(v, S)
  <1>1. /\ VolumeOf(S) \in Nat /\ VolumeOf(T) \in Nat /\ VolumeOf(S) <= VolumeOf(T)
        /\ DaysOf(S) \in Nat /\ DaysOf(T) \in Nat /\ DaysOf(S) <= DaysOf(T)
    BY MoreBuysMore
  <1> QED BY <1>1 DEF Least, Values

(* A written value leaves what was asked for.                              *)
LEMMA LeastWritten ==
    ASSUME NEW v \in Values, NEW u \in Values, SameTerms(u, v), u.used <= v.used, NEW S, Least(v, S)
    PROVE  Least(u, S)
  <1>1. VolumeOf(S) \in Nat /\ DaysOf(S) \in Nat
    BY MoreBuysMore
  <1> QED BY <1>1 DEF Least, SameTerms, Values

(* calculateRenewal, calculateExtraVolume and calculateExtraTime take      *)
(* nothing away and add what the order bought.                             *)
LEMMA TargetLeast ==
    ASSUME NEW o \in Orders, NEW S, o \notin S, NEW v \in Values, NEW t \in Nat, Least(v, S)
    PROVE  Least(Target(o, v, t), S \cup {o})
  <1>1. /\ VolumeOf(S \cup {o}) = VolumeOf(S) + VolumeFor(o)
        /\ DaysOf(S \cup {o}) = DaysOf(S) + DaysFor(o)
        /\ VolumeOf(S) \in Nat /\ DaysOf(S) \in Nat
    BY OneMoreBuys, MoreBuysMore
  <1>2. /\ v.limit \in Nat /\ v.used \in Nat /\ v.expiry \in Nat /\ Limit0 \in Nat /\ Expiry0 \in Nat
        /\ Used0 \in Nat /\ Volume[o] \in Nat /\ Days[o] \in Nat /\ Operation[o] \in Operations
    BY DEF Values
  <1>3. Remaining(v) \in Nat /\ Remaining(v) >= v.limit - v.used
    BY <1>2 DEF Remaining
  <1>4. /\ Extended(v.expiry, Days[o], t) \in Nat
        /\ Extended(v.expiry, Days[o], t) >= v.expiry + Days[o]
    BY <1>2 DEF Extended
  <1>5. CASE Operation[o] = "EXTRA_VOLUME"
    <2>1. Target(o, v, t) = [limit |-> Remaining(v) + Volume[o], used |-> 0, expiry |-> v.expiry]
      BY <1>5 DEF Target
    <2> QED BY <1>1, <1>2, <1>3, <1>5, <2>1 DEF Least, VolumeFor, DaysFor
  <1>6. CASE Operation[o] = "EXTRA_TIME"
    <2>1. /\ Target(o, v, t).limit = v.limit /\ Target(o, v, t).used = v.used
          /\ Target(o, v, t).expiry = Extended(v.expiry, Days[o], t)
      BY <1>6 DEF Target, Values
    <2> QED BY <1>1, <1>2, <1>4, <1>6, <2>1 DEF Least, VolumeFor, DaysFor
  <1>7. CASE Operation[o] = "RENEWAL"
    <2>1. /\ Target(o, v, t).limit = Remaining(v) + Volume[o] /\ Target(o, v, t).used = 0
          /\ Target(o, v, t).expiry = IF Days[o] > 0 THEN Extended(v.expiry, Days[o], t) ELSE v.expiry
      BY <1>7 DEF Target
    <2>2. Target(o, v, t).expiry \in Nat /\ Target(o, v, t).expiry >= v.expiry + Days[o]
      BY <1>2, <1>4, <2>1
    <2>3. VolumeFor(o) = Volume[o] /\ DaysFor(o) = Days[o]
      BY <1>7 DEF VolumeFor, DaysFor
    <2> QED BY <1>1, <1>2, <1>3, <2>1, <2>2, <2>3 DEF Least
  <1> QED BY <1>2, <1>5, <1>6, <1>7 DEF Operations

(* A step of one process that leaves the data as they are.                 *)
Still == UNCHANGED <<row, panel, flying>> /\ Completed' = Completed
LEMMA KeptMove ==
    ASSUME LostInv, NEW w \in Procs, Others(w), Still, stray \subseteq stray',
           BotOnly /\ stray' = {} /\ AllKept => TaskKept(w)'
    PROVE  LostInv'
  <1> SUFFICES ASSUME BotOnly, stray' = {} PROVE AllKept'
    BY DEF LostInv
  <1>1. AllKept
    BY DEF LostInv
  <1>2. ASSUME NEW v \in Procs \ {w} PROVE TaskKept(v)'
    <2>1. TaskKept(v) /\ task'[v] = task[v]
      BY <1>1 DEF AllKept, Others
    <2> QED BY <2>1 DEF TaskKept, TargetKept, SeenKept, Least, Allows, Still
  <1>3. \A u \in flying' : RequestKept(u)'
    BY <1>1 DEF AllKept, RequestKept, Least, Allows, Still
  <1>4. Least(row, Completed)' /\ Allows(row)' /\ Least(panel, Completed)' /\ Allows(panel)'
    BY <1>1 DEF AllKept, Least, Allows, Still
  <1> QED BY <1>1, <1>2, <1>3, <1>4 DEF AllKept

LEMMA KeptLeave ==
    ASSUME Inv, LostInv, NEW w \in Procs, Leave(w), task[w].pc # "idle", Still, stray \subseteq stray'
    PROVE  LostInv'
  <1>1. Others(w) /\ Left(w)
    BY LeaveLeft
  <1>2. TaskKept(w)'
    BY <1>1 DEF TaskKept, TargetKept, SeenKept, Left, Before
  <1> QED BY <1>1, <1>2, KeptMove

LEMMA KeptAway ==
    ASSUME LostInv, NEW w \in Procs, Others(w), Still, stray \subseteq stray',
           task'[w].pc \in Apart \cup {"refund"}
    PROVE  LostInv'
  <1>1. TaskKept(w)'
    BY DEF TaskKept, TargetKept, SeenKept, Before, Apart
  <1> QED BY <1>1, KeptMove

(* A step of the holder of the lock.                                       *)
LEMMA KeptHolder ==
    ASSUME Inv, RowsInv, LostInv, NEW w \in Procs, task[w].pc \in Held \cup Sent, Others(w),
           stray \subseteq stray',
           /\ BotOnly /\ stray = {} /\ AllKept
           /\ task[w].pc # "answer" => flying = {}
           => /\ Least(row, Completed)' /\ Allows(row)'
              /\ Least(panel, Completed)' /\ Allows(panel)'
              /\ TaskKept(w)'
              /\ \A u \in flying' : RequestKept(u)'
    PROVE  LostInv'
  <1> SUFFICES ASSUME BotOnly, stray' = {} PROVE AllKept'
    BY DEF LostInv
  <1>1. stray = {} /\ AllKept
    BY DEF LostInv
  <1>2. /\ task[w].pc # "answer" => flying = {}
        /\ \A v \in Procs \ {w} : task[v].pc \notin Held \cup Sent
    BY <1>1, HolderAlone
  <1>3. \A v \in Procs \ {w} : TaskKept(v)'
    BY <1>2 DEF TaskKept, TargetKept, SeenKept, Others, Held, Sent, Before
  <1> QED BY <1>1, <1>2, <1>3 DEF AllKept

LEMMA PipelineBodyLost ==
    ASSUME Inv, LostInv, NEW w \in Procs, PipelineBody(w)
    PROVE  LostInv'
  <1>1. task[w].pc = "body" /\ Still /\ UNCHANGED stray
    BY DEF PipelineBody, At, rows, Quiet, ghosts, remote, Still, Completed
  <1>2. ASSUME Goto(w, "finish") PROVE LostInv'
    <2>1. Others(w) /\ task'[w].pc = "finish"
      BY <1>1, <1>2, GotoKeeps DEF Steps
    <2> QED BY <1>1, <2>1, KeptAway DEF Apart
  <1>3. ASSUME Leave(w) PROVE LostInv'
    BY <1>1, <1>3, KeptLeave
  <1>4. ASSUME NEW pc \in {"claim", "refund"}, task' = [task EXCEPT ![w].pc = pc, ![w].seen = row]
        PROVE  LostInv'
    <2>1. Others(w) /\ task'[w].pc = pc /\ task'[w].seen = row
      BY <1>1, <1>4, ReadKeeps DEF Steps, Inv, TypeOK
    <2>2. TaskKept(w)'
      BY <1>1, <2>1 DEF TaskKept, TargetKept, SeenKept, Still, Before
    <2> QED BY <1>1, <2>1, <2>2, KeptMove
  <1> QED BY <1>2, <1>3, <1>4 DEF PipelineBody

(* Without Mini App orders neither the executor nor its reconciler runs.   *)
LEMMA NoAppFlow ==
    ASSUME Inv, BotOnly, NEW w \in Procs
    PROVE  task[w].flow \notin {"executor", "reconciler"}
  BY DEF Inv, FlowFit, BotOnly

LEMMA ExecutorLost ==
    ASSUME Inv, NEW w \in Procs,
           ExecutorBody(w) \/ ProbeReconciler(w)
    PROVE  LostInv'
  <1>1. ~BotOnly
    BY NoAppFlow DEF ExecutorBody, ProbeReconciler, Runs
  <1>2. BotOnly' <=> BotOnly
    BY DEF BotOnly
  <1> QED BY <1>1, <1>2 DEF LostInv


LEMMA RecoveryBodyLost ==
    ASSUME Inv, LostInv, NEW w \in Procs, RecoveryBody(w)
    PROVE  LostInv'
  <1>1. task[w].pc = "body" /\ Still /\ UNCHANGED stray
    BY DEF RecoveryBody, At, rows, Quiet, ghosts, remote, Still, Completed
  <1>2. ASSUME NEW pc \in {"finish", "probe"}, Goto(w, pc) PROVE LostInv'
    <2>1. Others(w) /\ task'[w].pc = pc
      BY <1>1, <1>2, GotoKeeps DEF Steps
    <2> QED BY <1>1, <2>1, KeptAway DEF Apart
  <1>3. ASSUME Leave(w) PROVE LostInv'
    BY <1>1, <1>3, KeptLeave
  <1> QED BY <1>2, <1>3 DEF RecoveryBody

LEMMA StartLost ==
    ASSUME Inv, LostInv, NEW w \in Procs,
           \/ OpenPage(w) \/ AcquireLock(w) \/ ReleaseLock(w)
           \/ \E o \in Orders : Dispatch(w, o) \/ FollowUpPaid(w, o) \/ FollowUpProvisioning(w, o)
    PROVE  LostInv'
  <1>1. Still /\ UNCHANGED stray
    BY DEF OpenPage, AcquireLock, ReleaseLock, Dispatch, FollowUpPaid, FollowUpProvisioning,
           Locked, rows, ghosts, remote, Still, Completed
  <1>2. Others(w) /\ task'[w].pc \in Apart
    BY StartsApart
  <1> QED BY <1>1, <1>2, KeptAway

LEMMA LeaveLost ==
    ASSUME Inv, LostInv, NEW w \in Procs, GiveUpLock(w) \/ UpdateUnknown(w)
    PROVE  LostInv'
  <1>1. Leave(w) /\ task[w].pc # "idle" /\ Still /\ stray \subseteq stray'
    BY DEF GiveUpLock, UpdateUnknown, At, rows, Quiet, ghosts, remote, Still, Completed
  <1> QED BY <1>1, KeptLeave

LEMMA PanelRefusesLost ==
    ASSUME Inv, LostInv, NEW w \in Procs, PanelRefuses(w)
    PROVE  LostInv'
  <1>1. task[w].pc # "idle" /\ Goto(w, "refund") /\ Still /\ UNCHANGED stray
    BY DEF PanelRefuses, At, rows, Quiet, ghosts, remote, Still, Completed
  <1>2. Others(w) /\ task'[w].pc = "refund"
    BY <1>1, GotoKeeps DEF Steps
  <1> QED BY <1>1, <1>2, KeptAway

(* The update is confirmed while the lock is held: the panel shows what    *)
(* was sent, and counts no usage that the sent value did not allow for.    *)
LEMMA UpdateConfirmedLost ==
    ASSUME Inv, LostInv, NEW w \in Procs, UpdateConfirmed(w)
    PROVE  LostInv'
  <1>1. /\ task[w].pc = "answer" /\ Still /\ UNCHANGED stray /\ SameTerms(panel, task[w].target)
        /\ task' = [task EXCEPT ![w] = IF task[w].lost THEN Done(task[w])
                                       ELSE [task[w] EXCEPT !.pc = "persist", !.seen = panel]]
    BY DEF UpdateConfirmed, At, rows, Quiet, ghosts, remote, Still, Completed, Inv, TypeOK
  <1>2. CASE task[w].lost
    <2>1. Leave(w)
      BY <1>1, <1>2 DEF Leave
    <2> QED BY <1>1, <2>1, KeptLeave
  <1>3. CASE ~task[w].lost
    <2>1. task' = [task EXCEPT ![w].pc = "persist", ![w].seen = panel]
      BY <1>1, <1>3 DEF Inv, TypeOK
    <2>2. Others(w) /\ Keeps(w) /\ task'[w].pc = "persist" /\ task'[w].seen = panel
      BY <1>1, <2>1, ReadKeeps DEF Inv, TypeOK, Steps
    <2>3. ASSUME AllKept PROVE TaskKept(w)'
      <3>1. Least(task[w].target, Completed \cup {task[w].order}) /\ panel.used <= task[w].target.used
        BY <1>1, <2>3 DEF AllKept, TaskKept, TargetKept, Allows
      <3>2. task[w].target \in Values /\ panel \in Values
        BY DEF Inv, TypeOK, TaskRecord
      <3>3. Least(panel, Completed \cup {task[w].order})
        BY <1>1, <3>1, <3>2, LeastWritten
      <3> QED BY <1>1, <2>2, <3>3 DEF TaskKept, TargetKept, SeenKept, Least, Still, Keeps, Before
    <2> QED BY <1>1, <2>2, <2>3, KeptMove
  <1> QED BY <1>2, <1>3

LEMMA PersistFailsLost ==
    ASSUME Inv, LostInv, NEW w \in Procs, PersistFails(w)
    PROVE  LostInv'
  <1>1. task[w].pc \in {"persist", "retry"} /\ Still /\ UNCHANGED stray
    BY DEF PersistFails, At, rows, Quiet, ghosts, remote, Still, Completed
  <1>2. ASSUME Leave(w) PROVE LostInv'
    BY <1>1, <1>2, KeptLeave
  <1>3. ASSUME NEW pc \in {"retry", "orphan"}, Goto(w, pc) PROVE LostInv'
    <2>1. Others(w) /\ Keeps(w) /\ task'[w].pc = pc /\ task'[w].seen = task[w].seen
      BY <1>1, <1>3, GotoKeeps DEF Steps
    <2>2. AllKept => TaskKept(w)'
      BY <1>1, <2>1 DEF AllKept, TaskKept, TargetKept, SeenKept, Least, Still, Keeps, Before
    <2> QED BY <1>1, <2>1, <2>2, KeptMove
  <1> QED BY <1>2, <1>3 DEF PersistFails

LEMMA HeartbeatLost ==
    ASSUME Inv, LostInv, NEW w \in Procs, Heartbeat(w)
    PROVE  LostInv'
  <1>1. Still /\ UNCHANGED stray /\ task' = [task EXCEPT ![w].lost = TRUE]
    BY DEF Heartbeat, rows, Quiet, ghosts, remote, Still, Completed
  <1>2. /\ Others(w) /\ Keeps(w) /\ task'[w].pc = task[w].pc
        /\ task'[w].seen = task[w].seen /\ task'[w].target = task[w].target
    BY <1>1 DEF Others, Keeps, Inv, TypeOK, TaskRecord
  <1>3. AllKept => TaskKept(w)'
    BY <1>1, <1>2 DEF AllKept, TaskKept, TargetKept, SeenKept, Least, Allows, Still, Keeps
  <1> QED BY <1>1, <1>2, <1>3, KeptMove

LEMMA SyncReadLost ==
    ASSUME Inv, LostInv, NEW w \in Procs, SyncRead(w)
    PROVE  LostInv'
  <1>1. task[w].pc = "probe" /\ task[w].flow = "sync" /\ Still /\ UNCHANGED stray
    BY DEF SyncRead, At, Runs, rows, Quiet, ghosts, remote, Still, Completed
  <1>2. ASSUME Leave(w) PROVE LostInv'
    BY <1>1, <1>2, KeptLeave
  <1>3. ASSUME task' = [task EXCEPT ![w].pc = "adopt", ![w].seen = panel] PROVE LostInv'
    <2>1. Others(w) /\ Keeps(w) /\ task'[w].pc = "adopt" /\ task'[w].seen = panel
      BY <1>1, <1>3, ReadKeeps DEF Steps, Inv, TypeOK
    <2>2. TaskKept(w)'
      BY <1>1, <2>1 DEF TaskKept, TargetKept, SeenKept, Still, Keeps, Before
    <2> QED BY <1>1, <2>1, <2>2, KeptMove
  <1> QED BY <1>2, <1>3 DEF SyncRead

(* The recovery takes an order for applied on the quota and the expiry.    *)
(* It is right about the usage too: the first usage goes with the first    *)
(* quota, which no other order asks for.                                   *)
LEMMA ProvedApplied ==
    ASSUME Inv, BotOnly, AllKept, NEW o \in Orders, AppliedTo(o, row, panel, today)
    PROVE  panel.used <= Target(o, row, today).used
  <1>1. /\ panel.used \in Nat /\ row.limit \in Nat /\ row.used \in Nat /\ Volume[o] \in Nat
        /\ Limit0 \in Nat /\ Used0 \in Nat /\ Used0 <= Limit0 /\ Operation[o] \in Operations
    BY DEF Inv, TypeOK, Values
  <1>2. /\ SameTerms(panel, Target(o, row, today)) /\ ~SameTerms(Target(o, row, today), row)
        /\ Allows(row) /\ Allows(panel)
    BY DEF AppliedTo, AllKept
  <1>3. CASE Operation[o] = "EXTRA_TIME"
    <2>1. Target(o, row, today).used = row.used
      BY <1>3 DEF Target, Inv, TypeOK, Values
    <2> QED BY <1>2, <2>1 DEF Allows
  <1>4. CASE Operation[o] # "EXTRA_TIME"
    <2>1. /\ Target(o, row, today).limit = Remaining(row) + Volume[o]
          /\ Target(o, row, today).used = 0
          /\ Operation[o] = "EXTRA_VOLUME" => Target(o, row, today).expiry = row.expiry
      BY <1>1, <1>4 DEF Target, Operations
    <2>2. ASSUME panel.used # 0 PROVE FALSE
      <3>1. /\ row.limit = Limit0 /\ row.used = Used0 /\ panel.limit = Limit0
        BY <1>2, <2>2 DEF Allows
      <3>2. Remaining(row) = Limit0 - Used0
        BY <1>1, <3>1 DEF Remaining
      <3>3. Volume[o] = Used0 /\ Target(o, row, today).limit = row.limit
        BY <1>1, <1>2, <2>1, <3>1, <3>2 DEF SameTerms
      <3>4. Operation[o] = "EXTRA_VOLUME"
        BY <1>1, <1>4, <3>3 DEF BotOnly, Operations
      <3> QED BY <1>2, <2>1, <3>3, <3>4 DEF SameTerms
    <2> QED BY <2>1, <2>2
  <1> QED BY <1>3, <1>4

LEMMA ProbeRecoveryLost ==
    ASSUME Inv, RowsInv, LostInv, NEW w \in Procs, ProbeRecovery(w)
    PROVE  LostInv'
  <1> DEFINE o == task[w].order
  <1>1. task[w].pc = "probe" /\ task[w].flow = "recovery" /\ Still /\ UNCHANGED stray
    BY DEF ProbeRecovery, At, Runs, rows, Quiet, ghosts, remote, Still, Completed
  <1>2. ASSUME Leave(w) PROVE LostInv'
    BY <1>1, <1>2, KeptLeave
  <1>3. ASSUME Goto(w, "refund") PROVE LostInv'
    <2>1. Others(w) /\ task'[w].pc = "refund"
      BY <1>1, <1>3, GotoKeeps DEF Steps
    <2> QED BY <1>1, <2>1, KeptAway
  <1>4. ASSUME AppliedTo(o, row, panel, today),
               task' = [task EXCEPT ![w].pc = "adopt", ![w].seen = panel]
        PROVE  LostInv'
    <2>1. Others(w) /\ Keeps(w) /\ task'[w].pc = "adopt" /\ task'[w].seen = panel
      BY <1>1, <1>4, ReadKeeps DEF Steps, Inv, TypeOK
    <2>2. ASSUME BotOnly, AllKept, stray' = {} PROVE TaskKept(w)'
      <3>1. o \in Orders /\ o \notin Completed
        BY <1>1, <2>2, StillOpen DEF Doing, Completed
      <3>2. row \in Values /\ panel \in Values /\ today \in Nat /\ Target(o, row, today) \in Values
        BY <3>1, TargetType DEF Inv, TypeOK
      <3>3. Least(Target(o, row, today), Completed \cup {o})
        BY <2>2, <3>1, <3>2, TargetLeast DEF AllKept
      <3>4. panel.used <= Target(o, row, today).used
        BY <1>4, <2>2, <3>1, ProvedApplied
      <3>5. Least(panel, Completed \cup {o})
        BY <1>4, <3>2, <3>3, <3>4, LeastWritten DEF AppliedTo
      <3> QED BY <1>1, <2>1, <3>5 DEF TaskKept, TargetKept, SeenKept, Least, Still, Keeps, Before
    <2> QED BY <1>1, <2>1, <2>2, KeptMove
  <1> QED BY <1>2, <1>3, <1>4 DEF ProbeRecovery, OrderOf

(* The claim computes the target from the row, which no completed order    *)
(* has changed since it was read.                                          *)
LEMMA ClaimLost ==
    ASSUME Inv, RowsInv, LostInv, NEW w \in Procs, Claim(w)
    PROVE  LostInv'
  <1> DEFINE o == task[w].order
  <1>1. /\ task[w].pc = "claim" /\ order' = Flip(o, {"PAID"}, "PROVISIONING")
        /\ UNCHANGED <<row, panel, flying, stray>>
    BY DEF Claim, At, OrderOf, Quiet, ghosts, remote
  <1>2. o \in Orders
    BY <1>1, OrderTyped DEF Inv, FlowFit
  <1>3. Completed' = Completed
    BY <1>1, <1>2 DEF Completed, Flip, Inv, TypeOK
  <1>4. CASE order[o] # "PAID"
    <2>1. Leave(w)
      BY <1>4 DEF Claim, OrderOf
    <2> QED BY <1>1, <1>3, <2>1, KeptLeave DEF Still
  <1>5. CASE order[o] = "PAID" /\ ~BotOnly
    BY <1>5 DEF LostInv, BotOnly
  <1>6. CASE order[o] = "PAID" /\ BotOnly
    <2> DEFINE t == Target(o, task[w].seen, today)
    <2>1. task[w].flow = "pipeline"
      BY <1>1, <1>6, NoAppFlow DEF Inv, FlowFit
    <2>2. task' = [task EXCEPT ![w].target = t,
                               ![w].pc = IF Operation[o] = "EXTRA_TIME" THEN "send" ELSE "reset"]
      BY <1>6, <2>1 DEF Claim, OrderOf, Runs
    <2>3. /\ Others(w) /\ Keeps(w) /\ task'[w].target = t
          /\ task'[w].pc = IF Operation[o] = "EXTRA_TIME" THEN "send" ELSE "reset"
      <3> HIDE DEF t
      <3> QED BY <2>2 DEF Others, Keeps, Inv, TypeOK, TaskRecord
    <2>4. ASSUME AllKept PROVE TaskKept(w)'
      <3>1. t = Target(o, row, today)
        BY <1>1, <2>4 DEF AllKept, TaskKept, TargetKept
      <3>2. Least(t, Completed \cup {o})
        <4>1. o \notin Completed
          BY <1>6 DEF Completed
        <4> QED BY <1>2, <2>4, <3>1, <4>1, TargetLeast DEF AllKept, Inv, TypeOK
      <3>3. ASSUME Operation[o] = "EXTRA_TIME" PROVE Allows(t)
        <4>1. t.used = row.used /\ t.limit = row.limit
          BY <3>1, <3>3 DEF Target, Inv, TypeOK, Values
        <4> HIDE DEF t
        <4> QED BY <2>4, <4>1 DEF AllKept, Allows
      <3> HIDE DEF t
      <3> QED BY <1>1, <1>3, <2>3, <3>2, <3>3
              DEF TaskKept, TargetKept, SeenKept, Least, Allows, Keeps, Before
    <2>5. AllKept => /\ Least(row, Completed)' /\ Allows(row)'
                     /\ Least(panel, Completed)' /\ Allows(panel)'
      BY <1>1, <1>3 DEF AllKept, Least, Allows
    <2>6. AllKept => \A u \in flying' : RequestKept(u)'
      BY <1>1, <1>3 DEF AllKept, RequestKept, Least, Allows
    <2> HIDE DEF t
    <2>7. task[w].pc \in Held \cup Sent /\ stray \subseteq stray'
      BY <1>1 DEF Held
    <2> QED BY <2>3, <2>4, <2>5, <2>6, <2>7, KeptHolder
  <1> QED BY <1>4, <1>5, <1>6

LEMMA ResetTrafficLost ==
    ASSUME Inv, RowsInv, LostInv, NEW w \in Procs, ResetTraffic(w)
    PROVE  LostInv'
  <1> DEFINE o == task[w].order
  <1>1. /\ task[w].pc = "reset" /\ panel' = [panel EXCEPT !.used = 0]
        /\ \E pc \in {"send", "refund"} : Goto(w, pc)
        /\ UNCHANGED <<order, row, flying, stray>>
    BY DEF ResetTraffic, At, rows, ghosts
  <1>2. /\ Others(w) /\ Keeps(w) /\ task'[w].pc \in {"send", "refund"}
        /\ task'[w].target = task[w].target
    BY <1>1, GotoKeeps DEF Steps
  <1>3. /\ panel'.limit = panel.limit /\ panel'.expiry = panel.expiry /\ panel'.used = 0
        /\ panel.limit \in Nat /\ panel.used \in Nat /\ Completed' = Completed
    BY <1>1 DEF Completed, Inv, TypeOK, Values
  <1>4. /\ row \in Values /\ panel' \in Values /\ task[w].target \in Values
        /\ Limit0 \in Nat /\ Used0 \in Nat /\ VolumeOf(Completed) \in Nat
    <2>1. row \in Values /\ panel' \in Values /\ task[w].target \in Values
      BY <1>1 DEF Inv, TypeOK, Values, TaskRecord
    <2> QED BY <2>1, MoreBuysMore
  <1>5. AllKept => Least(panel, Completed)'
    BY <1>3, <1>4 DEF AllKept, Least
  <1>6. AllKept => Least(row, Completed)'
    BY <1>1, <1>3 DEF AllKept, Least
  <1>7. AllKept => TaskKept(w)'
    <2>1. Allows(task[w].target)'
      BY <1>2, <1>3, <1>4 DEF Allows, Values
    <2> QED BY <1>1, <1>2, <1>3, <2>1
            DEF AllKept, TaskKept, TargetKept, SeenKept, Least, Allows, Keeps, Before
  <1>8. task[w].pc \in Held \cup Sent /\ task[w].pc # "answer" /\ stray \subseteq stray'
    BY <1>1 DEF Held
  <1>9. Allows(row)' /\ Allows(panel)'
    BY <1>1, <1>3, <1>4 DEF Allows, Values
  <1> QED BY <1>1, <1>2, <1>5, <1>6, <1>7, <1>8, <1>9, KeptHolder

LEMMA SendUpdateLost ==
    ASSUME Inv, RowsInv, LostInv, NEW w \in Procs, SendUpdate(w)
    PROVE  LostInv'
  <1> DEFINE o == task[w].order
  <1>1. /\ task[w].pc = "send" /\ Goto(w, "answer")
        /\ flying' = flying \cup {<<o, task[w].target>>}
        /\ UNCHANGED <<order, row, panel, stray>>
    BY DEF SendUpdate, At, OrderOf, rows, ghosts
  <1>2. /\ Others(w) /\ Keeps(w) /\ task'[w].pc = "answer"
        /\ task'[w].target = task[w].target /\ Completed' = Completed
    BY <1>1, GotoKeeps DEF Steps, Completed
  <1>3. AllKept => /\ Least(row, Completed)' /\ Allows(row)'
                   /\ Least(panel, Completed)' /\ Allows(panel)'
    BY <1>1, <1>2 DEF AllKept, Least, Allows
  <1>4. AllKept => TaskKept(w)'
    BY <1>1, <1>2 DEF AllKept, TaskKept, TargetKept, SeenKept, Least, Allows, Keeps, Before
  <1>5. ASSUME AllKept, flying = {}, NEW u \in flying' PROVE RequestKept(u)'
    <2>1. u[1] = o /\ u[2] = task[w].target
      BY <1>1, <1>5
    <2>2. Least(task[w].target, Completed \cup {o}) /\ Allows(task[w].target)
      BY <1>1, <1>5 DEF AllKept, TaskKept, TargetKept, Before
    <2> QED BY <1>1, <1>2, <2>1, <2>2 DEF RequestKept, Least, Allows
  <1>6. task[w].pc \in Held \cup Sent /\ task[w].pc # "answer" /\ stray \subseteq stray'
    BY <1>1 DEF Held
  <1> QED BY <1>2, <1>3, <1>4, <1>5, <1>6, KeptHolder

(* The row is written with what the panel shows; the order is completed    *)
(* with it.                                                                *)
LEMMA WritesKept ==
    ASSUME Inv, RowsInv, LostInv, NEW w \in Procs, Leave(w), row' = task[w].seen,
           task[w].pc \in {"persist", "retry", "adopt"}, UNCHANGED <<panel, flying, stray>>,
           NEW S, BotOnly /\ stray = {} => Completed' = Completed \cup S,
           AllKept => Least(panel, Completed \cup S)
    PROVE  LostInv'
  <1>1. Others(w) /\ Left(w)
    BY LeaveLeft
  <1>2. TaskKept(w)'
    BY <1>1 DEF TaskKept, TargetKept, SeenKept, Left, Before
  <1>3. ASSUME BotOnly, stray = {}, AllKept
        PROVE  /\ Least(row, Completed)' /\ Allows(row)'
               /\ Least(panel, Completed)' /\ Allows(panel)'
    <2>1. row' = panel
      BY <1>3 DEF AllKept, TaskKept, SeenKept
    <2> QED BY <1>3, <2>1 DEF AllKept, Least, Allows
  <1>4. task[w].pc \in Held \cup Sent /\ task[w].pc # "answer" /\ stray \subseteq stray'
    BY DEF Held, Sent
  <1> QED BY <1>1, <1>2, <1>3, <1>4, KeptHolder

LEMMA PersistLost ==
    ASSUME Inv, RowsInv, LostInv, NEW w \in Procs, Persist(w)
    PROVE  LostInv'
  <1> DEFINE o == task[w].order
  <1>1. /\ task[w].pc \in {"persist", "retry"} /\ Leave(w) /\ row' = task[w].seen
        /\ order' = Flip(o, {"PROVISIONING"}, "COMPLETED")
        /\ UNCHANGED <<panel, flying, stray>>
    BY DEF Persist, At, PersistApplied, PersistAppApplied, OrderOf, Quiet, ghosts, remote
  <1>2. stray = {} => Completed' = Completed \cup {o}
    <2>1. stray = {} => o \in Orders /\ order[o] = "PROVISIONING"
      BY <1>1, StillOpen DEF Doing, Sent
    <2> QED BY <1>1, <2>1 DEF Completed, Flip, Inv, TypeOK
  <1>3. AllKept => Least(panel, Completed \cup {o})
    BY <1>1 DEF AllKept, TaskKept, SeenKept
  <1> QED BY <1>1, <1>2, <1>3, WritesKept

LEMMA AdoptLost ==
    ASSUME Inv, RowsInv, LostInv, NEW w \in Procs, Adopt(w)
    PROVE  LostInv'
  <1> DEFINE o == task[w].order
  <1>1. task[w].pc = "adopt" /\ Leave(w) /\ UNCHANGED <<panel, flying, stray>>
    BY DEF Adopt, At, Quiet, remote
  <1>2. CASE UNCHANGED rows
    BY <1>1, <1>2, KeptLeave DEF Still, rows, Completed
  <1>3. CASE Runs(w, "recovery") /\ PersistApplied(o, task[w].seen)
    <2>1. /\ row' = task[w].seen /\ order' = Flip(o, {"PROVISIONING"}, "COMPLETED")
          /\ task[w].flow = "recovery"
      BY <1>3 DEF PersistApplied, Runs
    <2>2. stray = {} => Completed' = Completed \cup {o}
      <3>1. stray = {} => o \in Orders /\ order[o] = "PROVISIONING"
        BY <1>1, <2>1, StillOpen DEF Doing
      <3> QED BY <2>1, <3>1 DEF Completed, Flip, Inv, TypeOK
    <2>3. AllKept => Least(panel, Completed \cup {o})
      BY <1>1, <2>1 DEF AllKept, TaskKept, SeenKept
    <2> QED BY <1>1, <2>1, <2>2, <2>3, WritesKept
  <1>4. CASE Runs(w, "reconciler")
    <2>1. ~BotOnly
      BY <1>4, NoAppFlow DEF Runs
    <2> QED BY <2>1 DEF LostInv, BotOnly
  <1> QED BY <1>2, <1>3, <1>4 DEF Adopt, OrderOf

LEMMA SyncWriteLost ==
    ASSUME Inv, RowsInv, LostInv, NEW w \in Procs, SyncWrite(w)
    PROVE  LostInv'
  <1>1. /\ task[w].pc = "adopt" /\ Leave(w) /\ row' = task[w].seen
        /\ UNCHANGED <<order, panel, flying, stray>>
    BY DEF SyncWrite, At, Quiet, remote
  <1>2. Completed' = Completed \cup {} /\ Completed \cup {} = Completed
    BY <1>1 DEF Completed
  <1>3. AllKept => Least(panel, Completed \cup {})
    BY <1>2 DEF AllKept
  <1> QED BY <1>1, <1>2, <1>3, WritesKept

LEMMA RefundLost ==
    ASSUME Inv, LostInv, NEW w \in Procs, Refund(w)
    PROVE  LostInv'
  <1> DEFINE o == task[w].order
  <1>1. /\ task[w].pc # "idle" /\ Leave(w)
        /\ order' = Flip(o, {"PAID", "PROVISIONING"}, "FAILED")
        /\ UNCHANGED <<row, panel, flying, stray>>
    BY DEF Refund, At, FailOrderWithRefund, OrderOf, Quiet, remote
  <1>2. Completed' = Completed
    BY <1>1 DEF Completed, Flip, Inv, TypeOK
  <1> QED BY <1>1, <1>2, KeptLeave DEF Still

(* An applied order of the bot is completed already.                       *)
LEMMA FinishLost ==
    ASSUME Inv, RowsInv, LostInv, NEW w \in Procs, Finish(w)
    PROVE  LostInv'
  <1> DEFINE o == task[w].order
  <1>1. /\ task[w].pc = "finish" /\ Leave(w) /\ UNCHANGED <<row, panel, flying, stray>>
    BY DEF Finish, At, CompleteOrder, Quiet, ghosts, remote
  <1>2. PICK from : order' = Flip(o, from, "COMPLETED")
    BY DEF Finish, CompleteOrder, OrderOf
  <1>3. CASE ~BotOnly
    BY <1>3 DEF LostInv, BotOnly
  <1>4. CASE BotOnly
    <2>1. o \in Bot /\ o \in applied
      BY <1>1, <1>4, OrderTyped DEF Inv, FlowFit, RowsInv, Routes, RouteKept, BotOnly, Bot
    <2>2. order[o] = "COMPLETED"
      BY <2>1 DEF Inv, BotFit
    <2>3. Completed' = Completed
      BY <1>2, <2>2 DEF Completed, Flip, Inv, TypeOK
    <2> QED BY <1>1, <2>3, KeptLeave DEF Still
  <1> QED BY <1>3, <1>4

(* Time passes, requests are lost, processes die.                          *)
LEMMA LostPasses ==
    ASSUME LostInv, UNCHANGED <<order, row, panel>>, flying' \subseteq flying, stray \subseteq stray',
           \A w \in Procs : task'[w] = task[w] \/ task'[w].pc = "idle"
    PROVE  LostInv'
  <1> SUFFICES ASSUME BotOnly, stray' = {} PROVE AllKept'
    BY DEF LostInv
  <1>1. AllKept /\ Completed' = Completed
    BY DEF LostInv, Completed
  <1>2. ASSUME NEW w \in Procs PROVE TaskKept(w)'
    <2>1. CASE task'[w] = task[w]
      BY <1>1, <2>1 DEF AllKept, TaskKept, TargetKept, SeenKept, Least, Allows
    <2>2. CASE task'[w].pc = "idle"
      BY <2>2 DEF TaskKept, TargetKept, SeenKept, Before
    <2> QED BY <2>1, <2>2
  <1>3. \A u \in flying' : RequestKept(u)'
    BY <1>1 DEF AllKept, RequestKept, Least, Allows
  <1>4. Least(row, Completed)' /\ Allows(row)' /\ Least(panel, Completed)' /\ Allows(panel)'
    BY <1>1 DEF AllKept, Least, Allows
  <1> QED BY <1>2, <1>3, <1>4 DEF AllKept

LEMMA PassesLost ==
    ASSUME Inv, LostInv,
           \/ StartRecovery \/ NextDay \/ LockExpires \/ BotCrash \/ UNCHANGED vars
           \/ \E w \in Procs : LockLapses(w)
           \/ \E o \in Orders : GrowsStale(o)
           \/ \E u \in flying : UpdateIsLost(u)
    PROVE  LostInv'
  <1>1. UNCHANGED <<order, row, panel>> /\ stray \subseteq stray' /\ flying' \subseteq flying
    BY DEF StartRecovery, NextDay, LockExpires, BotCrash, vars, LockLapses, GrowsStale, UpdateIsLost,
           rows, remote, ghosts
  <1>2. \A w \in Procs : task'[w] = task[w] \/ task'[w].pc = "idle"
    <2>1. CASE BotCrash
      BY <2>1 DEF BotCrash, IdleTask
    <2>2. CASE ~BotCrash
      BY <2>2 DEF StartRecovery, NextDay, LockExpires, vars, LockLapses, GrowsStale, UpdateIsLost
    <2> QED BY <2>1, <2>2
  <1> QED BY <1>1, <1>2, LostPasses

LEMMA RecoverNextLost ==
    ASSUME Inv, LostInv, NEW o \in Orders, RecoverNext(o)
    PROVE  LostInv'
  <1>1. Recovery \in Procs /\ Still /\ UNCHANGED stray
    BY DEF Procs, RecoverNext, rows, ghosts, remote, Still, Completed
  <1>2. CASE UNCHANGED task
    <2>1. UNCHANGED <<order, row, panel, flying>>
      BY DEF RecoverNext, rows, remote
    <2> QED BY <1>1, <1>2, <2>1, LostPasses
  <1>3. ASSUME NEW t, t.pc \in Apart, task' = [task EXCEPT ![Recovery] = t]
        PROVE  LostInv'
    <2>1. Others(Recovery) /\ task'[Recovery].pc \in Apart
      BY <1>1, <1>3 DEF Others, Inv, TypeOK
    <2> QED BY <1>1, <2>1, KeptAway
  <1>4. CASE Begin(Recovery, "recovery", o, "finish")
    <2>1. PICK t : t = [IdleTask EXCEPT !.flow = "recovery", !.order = o, !.pc = "finish"]
      OBVIOUS
    <2>2. t.pc \in Apart
      BY <2>1 DEF IdleTask, Apart
    <2> QED BY <1>3, <1>4, <2>1, <2>2 DEF Begin
  <1>5. CASE task' = [task EXCEPT ![Recovery] = [IdleTask EXCEPT
                         !.flow = "recovery", !.order = o, !.pc = "body", !.locked = TRUE]]
    <2>1. PICK t : t = [IdleTask EXCEPT !.flow = "recovery", !.order = o, !.pc = "body",
                                        !.locked = TRUE]
      OBVIOUS
    <2>2. t.pc \in Apart
      BY <2>1 DEF IdleTask, Apart
    <2> QED BY <1>3, <1>5, <2>1, <2>2
  <1> QED BY <1>2, <1>4, <1>5 DEF RecoverNext

(* A request lands while its sender waits for the answer, or is dead:      *)
(* nobody else is about to copy the panel.                                 *)
LEMMA UpdateLandsLost ==
    ASSUME Inv, RowsInv, LostInv, NEW u \in flying, UpdateLands(u)
    PROVE  LostInv'
  <1> SUFFICES ASSUME BotOnly, stray' = {} PROVE AllKept'
    BY DEF LostInv
  <1>1. /\ UNCHANGED <<order, row, task, stray>> /\ flying' = flying \ {u}
        /\ panel' = [panel EXCEPT !.limit = u[2].limit, !.expiry = u[2].expiry]
    BY DEF UpdateLands, rows, ghosts
  <1>2. AllKept /\ stray = {} /\ Completed' = Completed
    BY <1>1 DEF LostInv, Completed
  <1>3. /\ panel \in Values /\ u[1] \in Orders /\ u[2] \in Values
        /\ panel' \in Values /\ SameTerms(panel', u[2]) /\ panel'.used = panel.used
    <2>1. panel \in Values /\ u[1] \in Orders /\ u[2] \in Values
      BY DEF Inv, TypeOK
    <2> QED BY <1>1, <2>1 DEF SameTerms, Values
  <1>4. Least(u[2], Completed \cup {u[1]}) /\ Allows(u[2])
    BY <1>2 DEF AllKept, RequestKept
  <1>5. Least(panel, Completed)'
    <2>1. panel'.used <= u[2].used
      BY <1>3, <1>4 DEF Allows
    <2>2. Least(panel', Completed \cup {u[1]})
      BY <1>3, <1>4, <2>1, LeastWritten
    <2>3. Least(panel', Completed)
      BY <1>3, <2>2, LeastLess
    <2> QED BY <1>2, <2>3 DEF Least
  <1>6. Allows(panel)'
    BY <1>3, <1>4 DEF Allows, SameTerms, Values
  <1>7. Least(row, Completed)' /\ Allows(row)'
    BY <1>1, <1>2, <1>3 DEF AllKept, Least, Allows
  <1>8. ASSUME NEW w \in Procs PROVE TaskKept(w)'
    <2>1. task[w].pc \notin {"persist", "retry", "adopt"}
      <3>1. lock = Dead \/ (lock \in Procs /\ task[lock].pc = "answer")
        BY <1>2 DEF RowsInv, Solo, FlyingFit
      <3>2. task[w].pc \in {"persist", "retry", "adopt"} => lock = w
        BY <1>2 DEF RowsInv, Solo, SoloFit, Sent, Inv, LockFit, Held
      <3> QED BY <3>1, <3>2
    <2>2. TaskKept(w)
      BY <1>2 DEF AllKept
    <2> QED BY <1>1, <1>2, <1>3, <2>1, <2>2 DEF TaskKept, TargetKept, SeenKept, Least, Allows
  <1>9. ASSUME NEW x \in flying' PROVE RequestKept(x)'
    <2>1. RequestKept(x)
      BY <1>1, <1>2 DEF AllKept
    <2> QED BY <1>2, <1>3, <2>1 DEF RequestKept, Least, Allows
  <1> QED BY <1>5, <1>6, <1>7, <1>8, <1>9 DEF AllKept

LEMMA LostInit == Init => LostInv
  <1> SUFFICES ASSUME Init PROVE AllKept
    BY DEF LostInv
  <1>1. row = Initial /\ panel = Initial /\ flying = {} /\ Completed = {}
    BY DEF Init, Completed
  <1>2. Least(Initial, {}) /\ Allows(Initial)
    <2>1. /\ Initial.limit = Limit0 /\ Initial.used = Used0 /\ Initial.expiry = Expiry0
          /\ Limit0 \in Nat /\ Used0 \in Nat /\ Expiry0 \in Nat
      BY DEF Initial
    <2> QED BY <1>1, <2>1, NoneBuysNothing DEF Least, Allows
  <1>3. \A w \in Procs : TaskKept(w)
    BY DEF Init, IdleTask, TaskKept, TargetKept, SeenKept, Before
  <1> QED BY <1>1, <1>2, <1>3 DEF AllKept

LEMMA LostStep == Inv /\ RowsInv /\ LostInv /\ [Next]_vars => LostInv'
  <1> SUFFICES ASSUME Inv, RowsInv, LostInv, [Next]_vars PROVE LostInv'
    OBVIOUS
  <1>1. ASSUME NEW w \in Procs, Step(w) PROVE LostInv'
    BY <1>1, Zenon, StartLost, LeaveLost, PipelineBodyLost, ExecutorLost, RecoveryBodyLost,
       FinishLost, ClaimLost, PanelRefusesLost, ResetTrafficLost, SendUpdateLost,
       UpdateConfirmedLost, PersistLost, PersistFailsLost, RefundLost, ProbeRecoveryLost,
       AdoptLost, SyncReadLost, SyncWriteLost, PassesLost, HeartbeatLost
       DEF Step
  <1>2. ASSUME NEW w \in Procs, NEW o \in Orders,
               Dispatch(w, o) \/ FollowUpPaid(w, o) \/ FollowUpProvisioning(w, o)
        PROVE  LostInv'
    BY <1>2, StartLost
  <1>3. ASSUME NEW w \in Procs, OpenPage(w) PROVE LostInv'
    BY <1>3, StartLost
  <1>4. ASSUME NEW o \in Orders, RecoverNext(o) PROVE LostInv'
    BY <1>4, RecoverNextLost
  <1>5. ASSUME NEW u \in flying, UpdateLands(u) PROVE LostInv'
    BY <1>5, UpdateLandsLost
  <1>6. CASE \/ StartRecovery \/ NextDay \/ LockExpires \/ BotCrash \/ UNCHANGED vars
             \/ \E o \in Orders : GrowsStale(o)
             \/ \E u \in flying : UpdateIsLost(u)
    BY <1>6, PassesLost
  <1> QED BY <1>1, <1>2, <1>3, <1>4, <1>5, <1>6, Zenon DEF Next

(* What completed orders of the bot bought is on the panel: what a later   *)
(* operation writes over it is computed from a row that has it, and the    *)
(* recovery copies a panel that has it.  The hypothesis on the volumes is  *)
(* what the code needs: a renewal for exactly the used volume asks for the *)
(* quota that was there before, and the recovery, which compares quota and *)
(* expiry, may take it for applied though its usage was never reset.       *)
THEOREM NothingLostByBot ==
    ASSUME MiniApp = {}, \A o \in Orders : Operation[o] = "RENEWAL" => Volume[o] # Used0
    PROVE  Spec => []NothingLost
  <1>1. Inv /\ LostInv => NothingLost
    <2> SUFFICES ASSUME Inv, LostInv, stray = {} PROVE Delivered
      BY DEF NothingLost
    <2>1. Least(panel, Completed)
      BY DEF LostInv, BotOnly, AllKept
    <2>2. VolumeOf(Completed) \in Nat /\ panel \in Values /\ Limit0 \in Nat /\ Used0 \in Nat
      BY MoreBuysMore DEF Inv, TypeOK, Completed
    <2> QED BY <2>1, <2>2 DEF Delivered, Least, Values
  <1>2. Spec => []LostInv
    BY LostInit, LostStep, InvAlways, RowsAlways, PTL DEF Spec
  <1> QED BY <1>1, <1>2, InvAlways, PTL

-----------------------------------------------------------------------------
(* The theorems.                                                           *)

(* The rows, the panel, the lock and the processes keep their types.       *)
THEOREM MutationTypeCorrect == Spec => []TypeOK
  <1>1. Inv => TypeOK
    BY DEF Inv
  <1> QED BY <1>1, InvAlways, PTL

(* The claim PAID -> PROVISIONING of the pipelines and the executor under  *)
(* acquireServiceLock sends at most one update per order to the panel,     *)
(* whatever is dispatched again, re-delivered, recovered or crashes.       *)
THEOREM SentOnce == Spec => []RequestOnce
  <1>1. Inv => RequestOnce
    BY DEF Inv, OrderFit, RequestOnce
  <1> QED BY <1>1, InvAlways, PTL

(* failOrderWithRefund and the persist transactions of the bot settle each *)
(* order once: the pipelines and runStartupRecovery implement the abstract *)
(* outcome of an order, owed, then served or refunded for good.            *)
THEOREM OutcomeImplemented == Spec => ImplementsOutcome
  <1> DEFINE Result(o) == CASE order[o] = "COMPLETED" -> "served"
                            [] order[o] = "FAILED"    -> "refunded"
                            [] OTHER                  -> "owed"
  <1>1. Init => Outcome!Init
    BY DEF Init, Outcome!Init
  <1>2. Inv /\ Inv' /\ [Next]_vars => [Outcome!Next]_(Outcome!vars)
    <2> SUFFICES ASSUME Inv, Inv', [Next]_vars PROVE [Outcome!Next]_(Outcome!vars)
      OBVIOUS
    <2>1. /\ RowsOK /\ RowsOK' /\ OneOrder
          /\ \A o \in Bot : BotFit(o) /\ BotFit(o)'
      BY InvParts, OneOrderMoves DEF Inv, TypeOK, RowsOK
    <2>2. \A o \in Bot : /\ refunds[o] = IF order[o] = "FAILED" THEN 1 ELSE 0
                         /\ refunds'[o] = IF order'[o] = "FAILED" THEN 1 ELSE 0
      <3> SUFFICES ASSUME NEW o \in Bot
                   PROVE  /\ refunds[o] = IF order[o] = "FAILED" THEN 1 ELSE 0
                          /\ refunds'[o] = IF order'[o] = "FAILED" THEN 1 ELSE 0
        OBVIOUS
      <3>1. order[o] \in OrderStatuses /\ order'[o] \in OrderStatuses
        BY <2>1 DEF RowsOK, Bot
      <3> QED BY <2>1, <3>1 DEF BotFit, OrderStatuses
    <2>3. CASE \A o \in Bot : Result(o)' = Result(o)
      <3>1. \A o \in Bot : refunds'[o] = refunds[o]
        BY <2>2, <2>3
      <3>2. [o \in Bot |-> Result(o)]' = [o \in Bot |-> Result(o)]
        BY <2>3
      <3>3. [o \in Bot |-> refunds[o]]' = [o \in Bot |-> refunds[o]]
        BY <3>1
      <3> QED BY <3>2, <3>3 DEF Outcome!vars, Bot
    <2>4. ASSUME NEW o \in Bot, Result(o)' # Result(o) PROVE Outcome!Next
      <3>1. /\ \A d \in Bot \ {o} : order'[d] = order[d]
            /\ order[o] \notin {"COMPLETED", "FAILED"} /\ order'[o] \in {"COMPLETED", "FAILED"}
        <4>1. order[o] \in OrderStatuses /\ order'[o] \in OrderStatuses
          BY <2>1 DEF RowsOK, Bot
        <4>2. order'[o] # order[o]
          BY <2>4
        <4>3. PICK x \in Orders :
                /\ \A d \in Orders \ {x} : order'[d] = order[d]
                /\ x \in Bot /\ order[x] \in {"COMPLETED", "FAILED"} => order'[x] = order[x]
          BY <4>2, <2>1 DEF OneOrder
        <4>4. x = o
          BY <4>2, <4>3 DEF Bot
        <4>5. order[o] \notin {"COMPLETED", "FAILED"}
          BY <4>2, <4>3, <4>4
        <4>6. order'[o] \in {"COMPLETED", "FAILED"}
          BY <4>5, <2>4
        <4> QED BY <4>3, <4>4, <4>5, <4>6 DEF Bot
      <3>2. \A d \in Bot \ {o} : Result(d)' = Result(d) /\ refunds'[d] = refunds[d]
        BY <3>1, <2>2
      <3>3. Result(o) = "owed" /\ refunds[o] = 0
        BY <3>1, <2>2
      <3>4. CASE order'[o] = "COMPLETED"
        <4>1. Result(o)' = "served" /\ refunds'[o] = 0
          BY <3>4, <2>2
        <4>4. \A d \in Bot : Result(d)' = IF d = o THEN "served" ELSE Result(d)
          BY <4>1, <3>2
        <4>5. \A d \in Bot : refunds'[d] = refunds[d]
          BY <4>1, <3>2, <3>3
        <4> HIDE DEF Result
        <4>6. [d \in Bot |-> Result(d)]' = [[d \in Bot |-> Result(d)] EXCEPT ![o] = "served"]
          BY <4>4
        <4>7. [d \in Bot |-> refunds[d]]' = [d \in Bot |-> refunds[d]]
          BY <4>5
        <4>2. /\ [d \in Bot |-> Result(d)]' = [[d \in Bot |-> Result(d)] EXCEPT ![o] = "served"]
              /\ [d \in Bot |-> refunds[d]]' = [d \in Bot |-> refunds[d]]
          BY <4>6, <4>7
        <4> USE DEF Result
        <4>3. Outcome!Serve(o)
          BY <4>2, <3>3 DEF Outcome!Serve, Bot
        <4> QED BY <4>3 DEF Outcome!Next, Bot
      <3>5. CASE order'[o] = "FAILED"
        <4>1. Result(o)' = "refunded" /\ refunds'[o] = 1
          BY <3>5, <2>2
        <4>4. \A d \in Bot : Result(d)' = IF d = o THEN "refunded" ELSE Result(d)
          BY <4>1, <3>2
        <4>5. \A d \in Bot : refunds'[d] = IF d = o THEN refunds[o] + 1 ELSE refunds[d]
          BY <4>1, <3>2, <3>3
        <4> HIDE DEF Result
        <4>6. [d \in Bot |-> Result(d)]' = [[d \in Bot |-> Result(d)] EXCEPT ![o] = "refunded"]
          BY <4>4
        <4>7. [d \in Bot |-> refunds[d]]' = [[d \in Bot |-> refunds[d]] EXCEPT ![o] = @ + 1]
          BY <4>5
        <4>2. /\ [d \in Bot |-> Result(d)]' = [[d \in Bot |-> Result(d)] EXCEPT ![o] = "refunded"]
              /\ [d \in Bot |-> refunds[d]]' = [[d \in Bot |-> refunds[d]] EXCEPT ![o] = @ + 1]
          BY <4>6, <4>7
        <4> USE DEF Result
        <4>3. Outcome!Refund(o)
          BY <4>2, <3>3 DEF Outcome!Refund, Bot
        <4> QED BY <4>3 DEF Outcome!Next, Bot
      <3> QED BY <3>1, <3>4, <3>5
    <2> QED BY <2>3, <2>4
  <1> QED BY <1>1, <1>2, InvAlways, PTL DEF Spec, ImplementsOutcome, Outcome!Spec
=============================================================================
