-------------------------- MODULE FreeTrial_proofs --------------------------
(***************************************************************************)
(* Theorems about FreeTrial, for any users, grants, claims, handlers,      *)
(* capacity and number of crashes.                                         *)
(***************************************************************************)
EXTENDS FreeTrial, FiniteSetTheorems, TLAPS

USE FreeTrialAssumption

Void == {"FAILED", "CANCELLED"}

(* What the rows of a claim say of each other: one that is NONE is empty,  *)
(* one that exists names its fund, and only a void one is paid back.       *)
RowFit(c) ==
    /\ claim[c].status = "NONE" => claim[c] = NoRow /\ c \notin old
    /\ claim[c].status # "NONE" => claim[c].user \in Users /\ claim[c].fund \in {"grant", "default"}
    /\ claim[c].released => claim[c].status \in Void
    /\ claim[c].status \in {"NONE", "CLAIMED"} => account[c] = "none" /\ c \notin flying
    /\ claim[c].status = "ACTIVE" => c \in service
    /\ c \in service => account[c] # "none"

(* Where a process is tells what happened to its claim before: the create  *)
(* request is sent once, by the handler that inserted the claim.           *)
Creation == {"capacity", "provision", "lock", "create", "answer", "persist"}
Later    == {"lock", "create", "answer", "persist", "release", "probe", "adopt", "fail",
             "escalate", "expire", "expireService", "disable"}
TaskFit(w, c) ==
    /\ claim[c].status # "NONE"
    /\ task[w].pc \in Creation => w \in Handlers
    /\ task[w].pc \in {"capacity", "provision"} => claim[c].status = "CLAIMED" /\ c \notin old
    /\ task[w].pc \in {"lock", "create"} => account[c] = "none" /\ c \notin flying
    /\ task[w].pc \in {"persist", "adopt"} => account[c] # "none"
    /\ task[w].pc \in Later => claim[c].status # "CLAIMED"
    /\ task[w].pc \in {"expire", "expireService", "disable"} => w = Sweep /\ c \in service

TasksFit(c) == \A w \in Procs : ClaimOf(w) = c => TaskFit(w, c)

Alone(c) == \A v, w \in Procs :
    /\ task[v].pc \in Creation /\ ClaimOf(v) = c
    /\ task[w].pc \in Creation /\ ClaimOf(w) = c
    => v = w

(* Nothing was, is or will be created for a claim that gave its unit back, *)
(* except when it was failed under way.                                    *)
Clean(c) == claim[c].status \in Void /\ c \notin disputed =>
    /\ account[c] = "none" /\ c \notin flying
    /\ \A w \in Procs : ClaimOf(w) = c => task[w].pc \notin Creation \cup {"adopt"}

ClaimFit(c) == RowFit(c) /\ TasksFit(c) /\ Alone(c) /\ Clean(c)
PathInv     == TypeOK /\ \A c \in Claims : ClaimFit(c)

-----------------------------------------------------------------------------
(* The types, in parts.                                                    *)
RowType   == [status : Statuses, user : Users \cup {NoUser},
              fund : {"none", "grant", "default"}, released : BOOLEAN]
TaskType  == [pc : Steps, claim : Claims \cup {NoClaim}, keeps : BOOLEAN]
ClaimsOK  == claim \in [Claims -> RowType]
UnitsOK   == consumed \in [Users -> Nat] /\ ended \subseteq Users
SetsOK    == /\ service \subseteq Claims /\ lapsed \subseteq service /\ converted \subseteq service
             /\ past \subseteq Claims /\ old \subseteq Claims /\ flying \subseteq Claims
             /\ disputed \subseteq Claims
PanelOK   == account \in [Claims -> {"none", "enabled", "disabled"}] /\ crashes \in Nat
TasksOK   == /\ task \in [Procs -> TaskType]
             /\ \A w \in Procs : At(w, "idle") <=> ClaimOf(w) = NoClaim

LEMMA TypeParts == TypeOK <=> ClaimsOK /\ UnitsOK /\ SetsOK /\ PanelOK /\ TasksOK
  BY DEF TypeOK, ClaimsOK, UnitsOK, SetsOK, PanelOK, TasksOK, RowType, TaskType

(* What the helpers leave in a task or a row, and that they touch no other. *)
Others(w) == \A v \in Procs \ {w} : task'[v] = task[v]
Rest(c)   == \A d \in Claims \ {c} : claim'[d] = claim[d]

LEMMA GotoHas ==
    ASSUME TasksOK, NEW w \in Procs, NEW pc \in Steps \ {"idle"}, Goto(w, pc), ~At(w, "idle")
    PROVE  /\ TasksOK' /\ Others(w)
           /\ task'[w].pc = pc /\ task'[w].claim = task[w].claim
  BY DEF TasksOK, TaskType, Goto, Others, At, ClaimOf

LEMMA LeaveHas ==
    ASSUME TasksOK, NEW w \in Procs, Leave(w)
    PROVE  /\ TasksOK' /\ Others(w)
           /\ task'[w].pc = "idle" /\ task'[w].claim = NoClaim
  BY DEF TasksOK, TaskType, Leave, IdleTask, Others, At, ClaimOf, Steps

LEMMA TakeHas ==
    ASSUME TasksOK, NEW w \in Procs, NEW pc \in Steps \ {"idle"}, NEW c \in Claims, Take(w, pc, c)
    PROVE  /\ TasksOK' /\ Others(w)
           /\ task'[w].pc = pc /\ task'[w].claim = c
  BY DEF TasksOK, TaskType, Take, Others, At, ClaimOf

LEMMA SetStatusHas ==
    ASSUME ClaimsOK, NEW c \in Claims, NEW from, NEW to \in Statuses, SetStatus(c, from, to)
    PROVE  /\ ClaimsOK' /\ Rest(c)
           /\ claim'[c].status = IF claim[c].status \in from THEN to ELSE claim[c].status
           /\ claim'[c].user = claim[c].user /\ claim'[c].fund = claim[c].fund
           /\ claim'[c].released = claim[c].released
           /\ claim[c].status \notin from => claim'[c] = claim[c]
  BY DEF ClaimsOK, RowType, SetStatus, Rest

LEMMA CancelHas ==
    ASSUME ClaimsOK, TasksOK, NEW w \in Procs, NEW c \in Claims, NEW from, NEW to \in Void,
           CancelSafely(w, c, from, to)
    PROVE  /\ ClaimsOK' /\ Rest(c) /\ TasksOK' /\ Others(w)
           /\ claim'[c].status = IF claim[c].status \in from THEN to ELSE claim[c].status
           /\ claim'[c].user = claim[c].user /\ claim'[c].fund = claim[c].fund
           /\ claim'[c].released = claim[c].released
           /\ claim[c].status \notin from => claim'[c] = claim[c]
           /\ \/ claim[c].status \in from /\ task'[w].pc = "release" /\ task'[w].claim = c
              \/ claim[c].status \notin from /\ task'[w].pc = "idle" /\ task'[w].claim = NoClaim
  BY SetStatusHas, TakeHas, LeaveHas DEF CancelSafely, Steps, Void, Statuses

LEMMA ReleasedHas ==
    ASSUME ClaimsOK, NEW c \in Claims, NEW m \in BOOLEAN,
           claim' = [claim EXCEPT ![c].released = @ \/ m]
    PROVE  /\ ClaimsOK' /\ Rest(c)
           /\ claim'[c].status = claim[c].status /\ claim'[c].user = claim[c].user
           /\ claim'[c].fund = claim[c].fund /\ claim'[c].released = (claim[c].released \/ m)
  <1>1. (claim[c].released \/ m) \in BOOLEAN
    BY DEF ClaimsOK, RowType
  <1> QED BY <1>1 DEF ClaimsOK, RowType, Rest

(* Claims are handled apart from each other.                               *)
Same(d)  == /\ claim'[d] = claim[d] /\ account'[d] = account[d]
            /\ (d \in flying') = (d \in flying) /\ (d \in old') = (d \in old)
            /\ (d \in service') = (d \in service) /\ (d \in disputed') = (d \in disputed)
Apart(c) == \A d \in Claims \ {c} :
    /\ Same(d)
    /\ \A w \in Procs : ClaimOf(w) = d \/ ClaimOf(w)' = d => task'[w] = task[w]

LEMMA Elsewhere ==
    ASSUME \A d \in Claims : ClaimFit(d), NEW c \in Claims, Apart(c), ClaimFit(c)'
    PROVE  \A d \in Claims : ClaimFit(d)'
  <1> SUFFICES ASSUME NEW d \in Claims, d # c PROVE ClaimFit(d)'
    OBVIOUS
  <1>1. Same(d) /\ ClaimFit(d)
    BY DEF Apart
  <1>2. \A w \in Procs : ClaimOf(w)' = d => task'[w] = task[w] /\ ClaimOf(w) = d
    BY DEF Apart, ClaimOf
  <1>3. RowFit(d)'
    BY <1>1 DEF ClaimFit, RowFit, Same
  <1>4. TasksFit(d)'
    BY <1>1, <1>2 DEF ClaimFit, TasksFit, TaskFit, Same
  <1>5. Alone(d)'
    BY <1>1, <1>2 DEF ClaimFit, Alone
  <1>6. Clean(d)'
    BY <1>1, <1>2 DEF ClaimFit, Clean, Same
  <1> QED BY <1>3, <1>4, <1>5, <1>6 DEF ClaimFit

LEMMA PathInit == Init => PathInv
  BY DEF Init, PathInv, TypeOK, ClaimFit, RowFit, TasksFit, Alone, Clean, NoRow, IdleTask, At, ClaimOf,
     Statuses, Steps, Void, Creation

(* Every step keeps the invariant.                                         *)
LEMMA PathStep == PathInv /\ [Next]_vars => PathInv'
  <1> SUFFICES ASSUME PathInv, [Next]_vars PROVE PathInv'
    OBVIOUS
  <1>0. /\ ClaimsOK /\ UnitsOK /\ SetsOK /\ PanelOK /\ TasksOK
        /\ \A c \in Claims : ClaimFit(c)
        /\ \A w \in Procs : ~At(w, "idle") => ClaimOf(w) \in Claims
    BY TypeParts DEF PathInv, TasksOK, TaskType, At, ClaimOf
  <1> USE DEF rows, panel, time, At, ClaimOf
  <1>1. ASSUME NEW w \in Procs, DecideCapacity(w) PROVE PathInv'
    <2>0. PICK c \in Claims : c = ClaimOf(w) /\ ClaimFit(c)
      BY <1>1, <1>0 DEF DecideCapacity
    <2>1. TypeOK'
      <3>1. ClaimsOK'
        BY <1>1, <1>0, <2>0, GotoHas, LeaveHas, TakeHas, SetStatusHas, CancelHas DEF DecideCapacity, ClaimsOK, RowType, Statuses, Void
      <3>2. UnitsOK'
        BY <1>1, <1>0, <2>0 DEF DecideCapacity, UnitsOK, ClaimsOK, RowType
      <3>3. SetsOK'
        BY <1>1, <1>0, <2>0 DEF DecideCapacity, SetsOK, ClaimFit, TasksFit, TaskFit
      <3>4. PanelOK'
        BY <1>1, <1>0, <2>0 DEF DecideCapacity, PanelOK
      <3>5. TasksOK'
        BY <1>1, <1>0, <2>0, GotoHas, LeaveHas, TakeHas, SetStatusHas, CancelHas DEF DecideCapacity, Steps, Void, Statuses
      <3> QED BY <3>1, <3>2, <3>3, <3>4, <3>5
         DEF TypeOK, ClaimsOK, UnitsOK, SetsOK, PanelOK, TasksOK, RowType, TaskType
    <2>2. Apart(c)
      BY <1>1, <1>0, <2>0, GotoHas, LeaveHas, TakeHas, SetStatusHas, CancelHas DEF DecideCapacity, Apart, Same, Others, Rest, ClaimsOK, TasksOK, PanelOK, Steps, Void, Statuses
    <2>3. ClaimFit(c)'
      <3>1. RowFit(c)'
        BY <1>1, <1>0, <2>0, GotoHas, LeaveHas, TakeHas, SetStatusHas, CancelHas
        DEF DecideCapacity, ClaimFit, RowFit, TasksFit, TaskFit, Alone, Clean, Others, ClaimsOK, RowType, PanelOK, Steps, Void,
            Statuses, Creation, Later, Undecided
      <3>2. TasksFit(c)'
        BY <1>1, <1>0, <2>0, GotoHas, LeaveHas, TakeHas, SetStatusHas, CancelHas
        DEF DecideCapacity, ClaimFit, RowFit, TasksFit, TaskFit, Alone, Clean, Others, ClaimsOK, RowType, PanelOK, Steps, Void,
            Statuses, Creation, Later, Undecided
      <3>3. Alone(c)'
        BY <1>1, <1>0, <2>0, GotoHas, LeaveHas, TakeHas, SetStatusHas, CancelHas
        DEF DecideCapacity, ClaimFit, RowFit, TasksFit, TaskFit, Alone, Clean, Others, ClaimsOK, RowType, PanelOK, Steps, Void,
            Statuses, Creation, Later, Undecided
      <3>4. Clean(c)'
        BY <1>1, <1>0, <2>0, GotoHas, LeaveHas, TakeHas, SetStatusHas, CancelHas
        DEF DecideCapacity, ClaimFit, RowFit, TasksFit, TaskFit, Alone, Clean, Others, ClaimsOK, RowType, PanelOK, Steps, Void,
            Statuses, Creation, Later, Undecided
      <3> QED BY <3>1, <3>2, <3>3, <3>4 DEF ClaimFit
    <2> QED BY <2>0, <2>1, <2>2, <2>3, <1>0, Elsewhere DEF PathInv
  <1>2. ASSUME NEW w \in Procs, StartProvisioning(w) PROVE PathInv'
    <2>0. PICK c \in Claims : c = ClaimOf(w) /\ ClaimFit(c)
      BY <1>2, <1>0 DEF StartProvisioning
    <2>1. TypeOK'
      <3>1. ClaimsOK'
        BY <1>2, <1>0, <2>0, GotoHas, LeaveHas, TakeHas, SetStatusHas, CancelHas DEF StartProvisioning, ClaimsOK, RowType, Statuses, Void
      <3>2. UnitsOK'
        BY <1>2, <1>0, <2>0 DEF StartProvisioning, UnitsOK, ClaimsOK, RowType
      <3>3. SetsOK'
        BY <1>2, <1>0, <2>0 DEF StartProvisioning, SetsOK, ClaimFit, TasksFit, TaskFit
      <3>4. PanelOK'
        BY <1>2, <1>0, <2>0 DEF StartProvisioning, PanelOK
      <3>5. TasksOK'
        BY <1>2, <1>0, <2>0, GotoHas, LeaveHas, TakeHas, SetStatusHas, CancelHas DEF StartProvisioning, Steps, Void, Statuses
      <3> QED BY <3>1, <3>2, <3>3, <3>4, <3>5
         DEF TypeOK, ClaimsOK, UnitsOK, SetsOK, PanelOK, TasksOK, RowType, TaskType
    <2>2. Apart(c)
      BY <1>2, <1>0, <2>0, GotoHas, LeaveHas, TakeHas, SetStatusHas, CancelHas DEF StartProvisioning, Apart, Same, Others, Rest, ClaimsOK, TasksOK, PanelOK, Steps, Void, Statuses
    <2>3. ClaimFit(c)'
      <3>1. RowFit(c)'
        BY <1>2, <1>0, <2>0, GotoHas, LeaveHas, TakeHas, SetStatusHas, CancelHas
        DEF StartProvisioning, ClaimFit, RowFit, TasksFit, TaskFit, Alone, Clean, Others, ClaimsOK, RowType, PanelOK, Steps, Void,
            Statuses, Creation, Later, Undecided
      <3>2. TasksFit(c)'
        BY <1>2, <1>0, <2>0, GotoHas, LeaveHas, TakeHas, SetStatusHas, CancelHas
        DEF StartProvisioning, ClaimFit, RowFit, TasksFit, TaskFit, Alone, Clean, Others, ClaimsOK, RowType, PanelOK, Steps, Void,
            Statuses, Creation, Later, Undecided
      <3>3. Alone(c)'
        BY <1>2, <1>0, <2>0, GotoHas, LeaveHas, TakeHas, SetStatusHas, CancelHas
        DEF StartProvisioning, ClaimFit, RowFit, TasksFit, TaskFit, Alone, Clean, Others, ClaimsOK, RowType, PanelOK, Steps, Void,
            Statuses, Creation, Later, Undecided
      <3>4. Clean(c)'
        BY <1>2, <1>0, <2>0, GotoHas, LeaveHas, TakeHas, SetStatusHas, CancelHas
        DEF StartProvisioning, ClaimFit, RowFit, TasksFit, TaskFit, Alone, Clean, Others, ClaimsOK, RowType, PanelOK, Steps, Void,
            Statuses, Creation, Later, Undecided
      <3> QED BY <3>1, <3>2, <3>3, <3>4 DEF ClaimFit
    <2> QED BY <2>0, <2>1, <2>2, <2>3, <1>0, Elsewhere DEF PathInv
  <1>3. ASSUME NEW w \in Procs, AcquireLock(w) PROVE PathInv'
    <2>0. PICK c \in Claims : c = ClaimOf(w) /\ ClaimFit(c)
      BY <1>3, <1>0 DEF AcquireLock
    <2>1. TypeOK'
      <3>1. ClaimsOK'
        BY <1>3, <1>0, <2>0, GotoHas, LeaveHas, TakeHas, SetStatusHas, CancelHas DEF AcquireLock, ClaimsOK, RowType, Statuses, Void
      <3>2. UnitsOK'
        BY <1>3, <1>0, <2>0 DEF AcquireLock, UnitsOK, ClaimsOK, RowType
      <3>3. SetsOK'
        BY <1>3, <1>0, <2>0 DEF AcquireLock, SetsOK, ClaimFit, TasksFit, TaskFit
      <3>4. PanelOK'
        BY <1>3, <1>0, <2>0 DEF AcquireLock, PanelOK
      <3>5. TasksOK'
        BY <1>3, <1>0, <2>0, GotoHas, LeaveHas, TakeHas, SetStatusHas, CancelHas DEF AcquireLock, Steps, Void, Statuses
      <3> QED BY <3>1, <3>2, <3>3, <3>4, <3>5
         DEF TypeOK, ClaimsOK, UnitsOK, SetsOK, PanelOK, TasksOK, RowType, TaskType
    <2>2. Apart(c)
      BY <1>3, <1>0, <2>0, GotoHas, LeaveHas, TakeHas, SetStatusHas, CancelHas DEF AcquireLock, Apart, Same, Others, Rest, ClaimsOK, TasksOK, PanelOK, Steps, Void, Statuses
    <2>3. ClaimFit(c)'
      <3>1. RowFit(c)'
        BY <1>3, <1>0, <2>0, GotoHas, LeaveHas, TakeHas, SetStatusHas, CancelHas
        DEF AcquireLock, ClaimFit, RowFit, TasksFit, TaskFit, Alone, Clean, Others, ClaimsOK, RowType, PanelOK, Steps, Void,
            Statuses, Creation, Later, Undecided
      <3>2. TasksFit(c)'
        BY <1>3, <1>0, <2>0, GotoHas, LeaveHas, TakeHas, SetStatusHas, CancelHas
        DEF AcquireLock, ClaimFit, RowFit, TasksFit, TaskFit, Alone, Clean, Others, ClaimsOK, RowType, PanelOK, Steps, Void,
            Statuses, Creation, Later, Undecided
      <3>3. Alone(c)'
        BY <1>3, <1>0, <2>0, GotoHas, LeaveHas, TakeHas, SetStatusHas, CancelHas
        DEF AcquireLock, ClaimFit, RowFit, TasksFit, TaskFit, Alone, Clean, Others, ClaimsOK, RowType, PanelOK, Steps, Void,
            Statuses, Creation, Later, Undecided
      <3>4. Clean(c)'
        <4>0. claim[c].status \in Void => c \in disputed'
          BY <1>3, <1>0, <2>0, GotoHas, LeaveHas, TakeHas, SetStatusHas, CancelHas
          DEF AcquireLock, TasksFit, TaskFit, Creation, ClaimFit, Clean, Others, Steps, Void, Statuses, Undecided
        <4>1. CASE claim[c].status \in Void
          BY <4>0, <4>1 DEF Clean
        <4>2. CASE claim[c].status \notin Void
          <5>1. /\ UNCHANGED <<account, flying, disputed>> /\ account[c] = "none" /\ c \notin flying
                /\ \A v \in Procs : ClaimOf(v) = c /\ v # w => task[v].pc \notin Creation \cup {"adopt"}
            BY <1>3, <1>0, <2>0 DEF AcquireLock, ClaimFit, TasksFit, TaskFit, Alone, Creation
          <5>2. \/ claim'[c].status \notin Void
                \/ Others(w) /\ task'[w].pc = "release"
            BY <1>3, <4>2, <1>0, <2>0, GotoHas, LeaveHas, CancelHas DEF AcquireLock, Steps, Void
          <5> QED BY <5>1, <5>2 DEF Clean, Others, Creation
        <4> QED BY <4>1, <4>2
      <3> QED BY <3>1, <3>2, <3>3, <3>4 DEF ClaimFit
    <2> QED BY <2>0, <2>1, <2>2, <2>3, <1>0, Elsewhere DEF PathInv
  <1>4. ASSUME NEW w \in Procs, CreateRefused(w) PROVE PathInv'
    <2>0. PICK c \in Claims : c = ClaimOf(w) /\ ClaimFit(c)
      BY <1>4, <1>0 DEF CreateRefused
    <2>1. TypeOK'
      <3>1. ClaimsOK'
        BY <1>4, <1>0, <2>0, GotoHas, LeaveHas, TakeHas, SetStatusHas, CancelHas DEF CreateRefused, ClaimsOK, RowType, Statuses, Void
      <3>2. UnitsOK'
        BY <1>4, <1>0, <2>0 DEF CreateRefused, UnitsOK, ClaimsOK, RowType
      <3>3. SetsOK'
        BY <1>4, <1>0, <2>0 DEF CreateRefused, SetsOK, ClaimFit, TasksFit, TaskFit
      <3>4. PanelOK'
        BY <1>4, <1>0, <2>0 DEF CreateRefused, PanelOK
      <3>5. TasksOK'
        BY <1>4, <1>0, <2>0, GotoHas, LeaveHas, TakeHas, SetStatusHas, CancelHas DEF CreateRefused, Steps, Void, Statuses
      <3> QED BY <3>1, <3>2, <3>3, <3>4, <3>5
         DEF TypeOK, ClaimsOK, UnitsOK, SetsOK, PanelOK, TasksOK, RowType, TaskType
    <2>2. Apart(c)
      BY <1>4, <1>0, <2>0, GotoHas, LeaveHas, TakeHas, SetStatusHas, CancelHas DEF CreateRefused, Apart, Same, Others, Rest, ClaimsOK, TasksOK, PanelOK, Steps, Void, Statuses
    <2>3. ClaimFit(c)'
      <3>1. RowFit(c)'
        BY <1>4, <1>0, <2>0, GotoHas, LeaveHas, TakeHas, SetStatusHas, CancelHas
        DEF CreateRefused, ClaimFit, RowFit, TasksFit, TaskFit, Alone, Clean, Others, ClaimsOK, RowType, PanelOK, Steps, Void,
            Statuses, Creation, Later, Undecided
      <3>2. TasksFit(c)'
        BY <1>4, <1>0, <2>0, GotoHas, LeaveHas, TakeHas, SetStatusHas, CancelHas
        DEF CreateRefused, ClaimFit, RowFit, TasksFit, TaskFit, Alone, Clean, Others, ClaimsOK, RowType, PanelOK, Steps, Void,
            Statuses, Creation, Later, Undecided
      <3>3. Alone(c)'
        BY <1>4, <1>0, <2>0, GotoHas, LeaveHas, TakeHas, SetStatusHas, CancelHas
        DEF CreateRefused, ClaimFit, RowFit, TasksFit, TaskFit, Alone, Clean, Others, ClaimsOK, RowType, PanelOK, Steps, Void,
            Statuses, Creation, Later, Undecided
      <3>4. Clean(c)'
        <4>0. claim[c].status \in Void => c \in disputed'
          BY <1>4, <1>0, <2>0, GotoHas, LeaveHas, TakeHas, SetStatusHas, CancelHas
          DEF CreateRefused, TasksFit, TaskFit, Creation, ClaimFit, Clean, Others, Steps, Void, Statuses, Undecided
        <4>1. CASE claim[c].status \in Void
          BY <4>0, <4>1 DEF Clean
        <4>2. CASE claim[c].status \notin Void
          <5>1. /\ UNCHANGED <<account, flying, disputed>> /\ account[c] = "none" /\ c \notin flying
                /\ \A v \in Procs : ClaimOf(v) = c /\ v # w => task[v].pc \notin Creation \cup {"adopt"}
            BY <1>4, <1>0, <2>0 DEF CreateRefused, ClaimFit, TasksFit, TaskFit, Alone, Creation
          <5>2. \/ claim'[c].status \notin Void
                \/ Others(w) /\ task'[w].pc = "release"
            BY <1>4, <4>2, <1>0, <2>0, GotoHas, LeaveHas, CancelHas DEF CreateRefused, Steps, Void
          <5> QED BY <5>1, <5>2 DEF Clean, Others, Creation
        <4> QED BY <4>1, <4>2
      <3> QED BY <3>1, <3>2, <3>3, <3>4 DEF ClaimFit
    <2> QED BY <2>0, <2>1, <2>2, <2>3, <1>0, Elsewhere DEF PathInv
  <1>5. ASSUME NEW w \in Procs, SendCreate(w) PROVE PathInv'
    <2>0. PICK c \in Claims : c = ClaimOf(w) /\ ClaimFit(c)
      BY <1>5, <1>0 DEF SendCreate
    <2>1. TypeOK'
      <3>1. ClaimsOK'
        BY <1>5, <1>0, <2>0, GotoHas, LeaveHas, TakeHas, SetStatusHas, CancelHas DEF SendCreate, ClaimsOK, RowType, Statuses, Void
      <3>2. UnitsOK'
        BY <1>5, <1>0, <2>0 DEF SendCreate, UnitsOK, ClaimsOK, RowType
      <3>3. SetsOK'
        BY <1>5, <1>0, <2>0 DEF SendCreate, SetsOK, ClaimFit, TasksFit, TaskFit
      <3>4. PanelOK'
        BY <1>5, <1>0, <2>0 DEF SendCreate, PanelOK
      <3>5. TasksOK'
        BY <1>5, <1>0, <2>0, GotoHas, LeaveHas, TakeHas, SetStatusHas, CancelHas DEF SendCreate, Steps, Void, Statuses
      <3> QED BY <3>1, <3>2, <3>3, <3>4, <3>5
         DEF TypeOK, ClaimsOK, UnitsOK, SetsOK, PanelOK, TasksOK, RowType, TaskType
    <2>2. Apart(c)
      BY <1>5, <1>0, <2>0, GotoHas, LeaveHas, TakeHas, SetStatusHas, CancelHas DEF SendCreate, Apart, Same, Others, Rest, ClaimsOK, TasksOK, PanelOK, Steps, Void, Statuses
    <2>3. ClaimFit(c)'
      <3>1. RowFit(c)'
        BY <1>5, <1>0, <2>0, GotoHas, LeaveHas, TakeHas, SetStatusHas, CancelHas
        DEF SendCreate, ClaimFit, RowFit, TasksFit, TaskFit, Alone, Clean, Others, ClaimsOK, RowType, PanelOK, Steps, Void,
            Statuses, Creation, Later, Undecided
      <3>2. TasksFit(c)'
        BY <1>5, <1>0, <2>0, GotoHas, LeaveHas, TakeHas, SetStatusHas, CancelHas
        DEF SendCreate, ClaimFit, RowFit, TasksFit, TaskFit, Alone, Clean, Others, ClaimsOK, RowType, PanelOK, Steps, Void,
            Statuses, Creation, Later, Undecided
      <3>3. Alone(c)'
        BY <1>5, <1>0, <2>0, GotoHas, LeaveHas, TakeHas, SetStatusHas, CancelHas
        DEF SendCreate, ClaimFit, RowFit, TasksFit, TaskFit, Alone, Clean, Others, ClaimsOK, RowType, PanelOK, Steps, Void,
            Statuses, Creation, Later, Undecided
      <3>4. Clean(c)'
        BY <1>5, <1>0, <2>0, GotoHas, LeaveHas, TakeHas, SetStatusHas, CancelHas
        DEF SendCreate, ClaimFit, RowFit, TasksFit, TaskFit, Alone, Clean, Others, ClaimsOK, RowType, PanelOK, Steps, Void,
            Statuses, Creation, Later, Undecided
      <3> QED BY <3>1, <3>2, <3>3, <3>4 DEF ClaimFit
    <2> QED BY <2>0, <2>1, <2>2, <2>3, <1>0, Elsewhere DEF PathInv
  <1>6. ASSUME NEW w \in Procs, CreateConfirmed(w) PROVE PathInv'
    <2>0. PICK c \in Claims : c = ClaimOf(w) /\ ClaimFit(c)
      BY <1>6, <1>0 DEF CreateConfirmed
    <2>1. TypeOK'
      <3>1. ClaimsOK'
        BY <1>6, <1>0, <2>0, GotoHas, LeaveHas, TakeHas, SetStatusHas, CancelHas DEF CreateConfirmed, ClaimsOK, RowType, Statuses, Void
      <3>2. UnitsOK'
        BY <1>6, <1>0, <2>0 DEF CreateConfirmed, UnitsOK, ClaimsOK, RowType
      <3>3. SetsOK'
        BY <1>6, <1>0, <2>0 DEF CreateConfirmed, SetsOK, ClaimFit, TasksFit, TaskFit
      <3>4. PanelOK'
        BY <1>6, <1>0, <2>0 DEF CreateConfirmed, PanelOK
      <3>5. TasksOK'
        BY <1>6, <1>0, <2>0, GotoHas, LeaveHas, TakeHas, SetStatusHas, CancelHas DEF CreateConfirmed, Steps, Void, Statuses
      <3> QED BY <3>1, <3>2, <3>3, <3>4, <3>5
         DEF TypeOK, ClaimsOK, UnitsOK, SetsOK, PanelOK, TasksOK, RowType, TaskType
    <2>2. Apart(c)
      BY <1>6, <1>0, <2>0, GotoHas, LeaveHas, TakeHas, SetStatusHas, CancelHas DEF CreateConfirmed, Apart, Same, Others, Rest, ClaimsOK, TasksOK, PanelOK, Steps, Void, Statuses
    <2>3. ClaimFit(c)'
      <3>1. RowFit(c)'
        BY <1>6, <1>0, <2>0, GotoHas, LeaveHas, TakeHas, SetStatusHas, CancelHas
        DEF CreateConfirmed, ClaimFit, RowFit, TasksFit, TaskFit, Alone, Clean, Others, ClaimsOK, RowType, PanelOK, Steps, Void,
            Statuses, Creation, Later, Undecided
      <3>2. TasksFit(c)'
        BY <1>6, <1>0, <2>0, GotoHas, LeaveHas, TakeHas, SetStatusHas, CancelHas
        DEF CreateConfirmed, ClaimFit, RowFit, TasksFit, TaskFit, Alone, Clean, Others, ClaimsOK, RowType, PanelOK, Steps, Void,
            Statuses, Creation, Later, Undecided
      <3>3. Alone(c)'
        BY <1>6, <1>0, <2>0, GotoHas, LeaveHas, TakeHas, SetStatusHas, CancelHas
        DEF CreateConfirmed, ClaimFit, RowFit, TasksFit, TaskFit, Alone, Clean, Others, ClaimsOK, RowType, PanelOK, Steps, Void,
            Statuses, Creation, Later, Undecided
      <3>4. Clean(c)'
        BY <1>6, <1>0, <2>0, GotoHas, LeaveHas, TakeHas, SetStatusHas, CancelHas
        DEF CreateConfirmed, ClaimFit, RowFit, TasksFit, TaskFit, Alone, Clean, Others, ClaimsOK, RowType, PanelOK, Steps, Void,
            Statuses, Creation, Later, Undecided
      <3> QED BY <3>1, <3>2, <3>3, <3>4 DEF ClaimFit
    <2> QED BY <2>0, <2>1, <2>2, <2>3, <1>0, Elsewhere DEF PathInv
  <1>7. ASSUME NEW w \in Procs, CreateUnknown(w) PROVE PathInv'
    <2>0. PICK c \in Claims : c = ClaimOf(w) /\ ClaimFit(c)
      BY <1>7, <1>0 DEF CreateUnknown
    <2>1. TypeOK'
      <3>1. ClaimsOK'
        BY <1>7, <1>0, <2>0, GotoHas, LeaveHas, TakeHas, SetStatusHas, CancelHas DEF CreateUnknown, ClaimsOK, RowType, Statuses, Void
      <3>2. UnitsOK'
        BY <1>7, <1>0, <2>0 DEF CreateUnknown, UnitsOK, ClaimsOK, RowType
      <3>3. SetsOK'
        BY <1>7, <1>0, <2>0 DEF CreateUnknown, SetsOK, ClaimFit, TasksFit, TaskFit
      <3>4. PanelOK'
        BY <1>7, <1>0, <2>0 DEF CreateUnknown, PanelOK
      <3>5. TasksOK'
        BY <1>7, <1>0, <2>0, GotoHas, LeaveHas, TakeHas, SetStatusHas, CancelHas DEF CreateUnknown, Steps, Void, Statuses
      <3> QED BY <3>1, <3>2, <3>3, <3>4, <3>5
         DEF TypeOK, ClaimsOK, UnitsOK, SetsOK, PanelOK, TasksOK, RowType, TaskType
    <2>2. Apart(c)
      BY <1>7, <1>0, <2>0, GotoHas, LeaveHas, TakeHas, SetStatusHas, CancelHas DEF CreateUnknown, Apart, Same, Others, Rest, ClaimsOK, TasksOK, PanelOK, Steps, Void, Statuses
    <2>3. ClaimFit(c)'
      <3>1. RowFit(c)'
        BY <1>7, <1>0, <2>0, GotoHas, LeaveHas, TakeHas, SetStatusHas, CancelHas
        DEF CreateUnknown, ClaimFit, RowFit, TasksFit, TaskFit, Alone, Clean, Others, ClaimsOK, RowType, PanelOK, Steps, Void,
            Statuses, Creation, Later, Undecided
      <3>2. TasksFit(c)'
        BY <1>7, <1>0, <2>0, GotoHas, LeaveHas, TakeHas, SetStatusHas, CancelHas
        DEF CreateUnknown, ClaimFit, RowFit, TasksFit, TaskFit, Alone, Clean, Others, ClaimsOK, RowType, PanelOK, Steps, Void,
            Statuses, Creation, Later, Undecided
      <3>3. Alone(c)'
        BY <1>7, <1>0, <2>0, GotoHas, LeaveHas, TakeHas, SetStatusHas, CancelHas
        DEF CreateUnknown, ClaimFit, RowFit, TasksFit, TaskFit, Alone, Clean, Others, ClaimsOK, RowType, PanelOK, Steps, Void,
            Statuses, Creation, Later, Undecided
      <3>4. Clean(c)'
        BY <1>7, <1>0, <2>0, GotoHas, LeaveHas, TakeHas, SetStatusHas, CancelHas
        DEF CreateUnknown, ClaimFit, RowFit, TasksFit, TaskFit, Alone, Clean, Others, ClaimsOK, RowType, PanelOK, Steps, Void,
            Statuses, Creation, Later, Undecided
      <3> QED BY <3>1, <3>2, <3>3, <3>4 DEF ClaimFit
    <2> QED BY <2>0, <2>1, <2>2, <2>3, <1>0, Elsewhere DEF PathInv
  <1>8. ASSUME NEW w \in Procs, PersistTrial(w) PROVE PathInv'
    <2>0. PICK c \in Claims : c = ClaimOf(w) /\ ClaimFit(c)
      BY <1>8, <1>0 DEF PersistTrial
    <2>1. TypeOK'
      <3>1. ClaimsOK'
        BY <1>8, <1>0, <2>0, GotoHas, LeaveHas, TakeHas, SetStatusHas, CancelHas DEF PersistTrial, Undecided, ClaimsOK, RowType, Statuses, Void
      <3>2. UnitsOK'
        BY <1>8, <1>0, <2>0 DEF PersistTrial, Undecided, UnitsOK, ClaimsOK, RowType
      <3>3. SetsOK'
        BY <1>8, <1>0, <2>0 DEF PersistTrial, Undecided, SetsOK, ClaimFit, TasksFit, TaskFit
      <3>4. PanelOK'
        BY <1>8, <1>0, <2>0 DEF PersistTrial, Undecided, PanelOK
      <3>5. TasksOK'
        BY <1>8, <1>0, <2>0, GotoHas, LeaveHas, TakeHas, SetStatusHas, CancelHas DEF PersistTrial, Undecided, Steps, Void, Statuses
      <3> QED BY <3>1, <3>2, <3>3, <3>4, <3>5
         DEF TypeOK, ClaimsOK, UnitsOK, SetsOK, PanelOK, TasksOK, RowType, TaskType
    <2>2. Apart(c)
      BY <1>8, <1>0, <2>0, GotoHas, LeaveHas, TakeHas, SetStatusHas, CancelHas DEF PersistTrial, Undecided, Apart, Same, Others, Rest, ClaimsOK, TasksOK, PanelOK, Steps, Void, Statuses
    <2>3. ClaimFit(c)'
      <3>1. RowFit(c)'
        BY <1>8, <1>0, <2>0, GotoHas, LeaveHas, TakeHas, SetStatusHas, CancelHas
        DEF PersistTrial, Undecided, ClaimFit, RowFit, TasksFit, TaskFit, Alone, Clean, Others, ClaimsOK, RowType, PanelOK, Steps, Void,
            Statuses, Creation, Later, Undecided
      <3>2. TasksFit(c)'
        BY <1>8, <1>0, <2>0, GotoHas, LeaveHas, TakeHas, SetStatusHas, CancelHas
        DEF PersistTrial, Undecided, ClaimFit, RowFit, TasksFit, TaskFit, Alone, Clean, Others, ClaimsOK, RowType, PanelOK, Steps, Void,
            Statuses, Creation, Later, Undecided
      <3>3. Alone(c)'
        BY <1>8, <1>0, <2>0, GotoHas, LeaveHas, TakeHas, SetStatusHas, CancelHas
        DEF PersistTrial, Undecided, ClaimFit, RowFit, TasksFit, TaskFit, Alone, Clean, Others, ClaimsOK, RowType, PanelOK, Steps, Void,
            Statuses, Creation, Later, Undecided
      <3>4. Clean(c)'
        BY <1>8, <1>0, <2>0, GotoHas, LeaveHas, TakeHas, SetStatusHas, CancelHas
        DEF PersistTrial, Undecided, ClaimFit, RowFit, TasksFit, TaskFit, Alone, Clean, Others, ClaimsOK, RowType, PanelOK, Steps, Void,
            Statuses, Creation, Later, Undecided
      <3> QED BY <3>1, <3>2, <3>3, <3>4 DEF ClaimFit
    <2> QED BY <2>0, <2>1, <2>2, <2>3, <1>0, Elsewhere DEF PathInv
  <1>9. ASSUME NEW w \in Procs, ProbePanel(w) PROVE PathInv'
    <2>0. PICK c \in Claims : c = ClaimOf(w) /\ ClaimFit(c)
      BY <1>9, <1>0 DEF ProbePanel
    <2>1. TypeOK'
      <3>1. ClaimsOK'
        BY <1>9, <1>0, <2>0, GotoHas, LeaveHas, TakeHas, SetStatusHas, CancelHas DEF ProbePanel, ClaimsOK, RowType, Statuses, Void
      <3>2. UnitsOK'
        BY <1>9, <1>0, <2>0 DEF ProbePanel, UnitsOK, ClaimsOK, RowType
      <3>3. SetsOK'
        BY <1>9, <1>0, <2>0 DEF ProbePanel, SetsOK, ClaimFit, TasksFit, TaskFit
      <3>4. PanelOK'
        BY <1>9, <1>0, <2>0 DEF ProbePanel, PanelOK
      <3>5. TasksOK'
        BY <1>9, <1>0, <2>0, GotoHas, LeaveHas, TakeHas, SetStatusHas, CancelHas DEF ProbePanel, Steps, Void, Statuses
      <3> QED BY <3>1, <3>2, <3>3, <3>4, <3>5
         DEF TypeOK, ClaimsOK, UnitsOK, SetsOK, PanelOK, TasksOK, RowType, TaskType
    <2>2. Apart(c)
      BY <1>9, <1>0, <2>0, GotoHas, LeaveHas, TakeHas, SetStatusHas, CancelHas DEF ProbePanel, Apart, Same, Others, Rest, ClaimsOK, TasksOK, PanelOK, Steps, Void, Statuses
    <2>3. ClaimFit(c)'
      <3>1. RowFit(c)'
        BY <1>9, <1>0, <2>0, GotoHas, LeaveHas, TakeHas, SetStatusHas, CancelHas
        DEF ProbePanel, ClaimFit, RowFit, TasksFit, TaskFit, Alone, Clean, Others, ClaimsOK, RowType, PanelOK, Steps, Void,
            Statuses, Creation, Later, Undecided
      <3>2. TasksFit(c)'
        BY <1>9, <1>0, <2>0, GotoHas, LeaveHas, TakeHas, SetStatusHas, CancelHas
        DEF ProbePanel, ClaimFit, RowFit, TasksFit, TaskFit, Alone, Clean, Others, ClaimsOK, RowType, PanelOK, Steps, Void,
            Statuses, Creation, Later, Undecided
      <3>3. Alone(c)'
        BY <1>9, <1>0, <2>0, GotoHas, LeaveHas, TakeHas, SetStatusHas, CancelHas
        DEF ProbePanel, ClaimFit, RowFit, TasksFit, TaskFit, Alone, Clean, Others, ClaimsOK, RowType, PanelOK, Steps, Void,
            Statuses, Creation, Later, Undecided
      <3>4. Clean(c)'
        BY <1>9, <1>0, <2>0, GotoHas, LeaveHas, TakeHas, SetStatusHas, CancelHas
        DEF ProbePanel, ClaimFit, RowFit, TasksFit, TaskFit, Alone, Clean, Others, ClaimsOK, RowType, PanelOK, Steps, Void,
            Statuses, Creation, Later, Undecided
      <3> QED BY <3>1, <3>2, <3>3, <3>4 DEF ClaimFit
    <2> QED BY <2>0, <2>1, <2>2, <2>3, <1>0, Elsewhere DEF PathInv
  <1>10. ASSUME NEW w \in Procs, FailAbsent(w) PROVE PathInv'
    <2>0. PICK c \in Claims : c = ClaimOf(w) /\ ClaimFit(c)
      BY <1>10, <1>0 DEF FailAbsent
    <2>1. TypeOK'
      <3>1. ClaimsOK'
        BY <1>10, <1>0, <2>0, GotoHas, LeaveHas, TakeHas, SetStatusHas, CancelHas DEF FailAbsent, Undecided, UnderWay, ClaimsOK, RowType, Statuses, Void
      <3>2. UnitsOK'
        BY <1>10, <1>0, <2>0 DEF FailAbsent, Undecided, UnderWay, UnitsOK, ClaimsOK, RowType
      <3>3. SetsOK'
        BY <1>10, <1>0, <2>0 DEF FailAbsent, Undecided, UnderWay, SetsOK, ClaimFit, TasksFit, TaskFit
      <3>4. PanelOK'
        BY <1>10, <1>0, <2>0 DEF FailAbsent, Undecided, UnderWay, PanelOK
      <3>5. TasksOK'
        BY <1>10, <1>0, <2>0, GotoHas, LeaveHas, TakeHas, SetStatusHas, CancelHas DEF FailAbsent, Undecided, UnderWay, Steps, Void, Statuses
      <3> QED BY <3>1, <3>2, <3>3, <3>4, <3>5
         DEF TypeOK, ClaimsOK, UnitsOK, SetsOK, PanelOK, TasksOK, RowType, TaskType
    <2>2. Apart(c)
      BY <1>10, <1>0, <2>0, GotoHas, LeaveHas, TakeHas, SetStatusHas, CancelHas DEF FailAbsent, Undecided, UnderWay, Apart, Same, Others, Rest, ClaimsOK, TasksOK, PanelOK, Steps, Void, Statuses
    <2>3. ClaimFit(c)'
      <3>1. RowFit(c)'
        BY <1>10, <1>0, <2>0, GotoHas, LeaveHas, TakeHas, SetStatusHas, CancelHas
        DEF FailAbsent, Undecided, UnderWay, ClaimFit, RowFit, TasksFit, TaskFit, Alone, Clean, Others, ClaimsOK, RowType, PanelOK, Steps, Void,
            Statuses, Creation, Later, Undecided
      <3>2. TasksFit(c)'
        BY <1>10, <1>0, <2>0, GotoHas, LeaveHas, TakeHas, SetStatusHas, CancelHas
        DEF FailAbsent, Undecided, UnderWay, ClaimFit, RowFit, TasksFit, TaskFit, Alone, Clean, Others, ClaimsOK, RowType, PanelOK, Steps, Void,
            Statuses, Creation, Later, Undecided
      <3>3. Alone(c)'
        BY <1>10, <1>0, <2>0, GotoHas, LeaveHas, TakeHas, SetStatusHas, CancelHas
        DEF FailAbsent, Undecided, UnderWay, ClaimFit, RowFit, TasksFit, TaskFit, Alone, Clean, Others, ClaimsOK, RowType, PanelOK, Steps, Void,
            Statuses, Creation, Later, Undecided
      <3>4. Clean(c)'
        <4>0. claim[c].status \in Void /\ c \notin disputed' => Clean(c)'
          BY <1>10, <1>0, <2>0, GotoHas, LeaveHas, TakeHas, SetStatusHas, CancelHas
          DEF FailAbsent, ClaimFit, Clean, Others, Steps, Void, Statuses, Undecided
        <4>1. CASE claim[c].status \in Void
          BY <4>0, <4>1 DEF Clean
        <4>2. CASE claim[c].status \notin Void /\ c \notin disputed'
          <5>1. /\ UNCHANGED <<account, flying>> /\ account[c] = "none" /\ c \notin flying
                /\ \A v \in Handlers : ClaimOf(v) = c =>
                      task[v].pc \notin {"lock", "create", "answer", "persist"}
            BY <1>10, <4>2, <2>0 DEF FailAbsent, UnderWay
          <5>2. \A v \in Procs : ClaimOf(v) = c => task[v].pc \notin Creation \cup {"adopt"}
            BY <1>10, <5>1, <1>0, <2>0 DEF FailAbsent, ClaimFit, TasksFit, TaskFit, Creation, Later
          <5>3. Others(w) /\ task'[w].pc \in {"release", "idle"}
            BY <1>10, <1>0, <2>0, CancelHas DEF FailAbsent, Void
          <5> QED BY <5>1, <5>2, <5>3 DEF Clean, Others, Creation
        <4> QED BY <4>1, <4>2 DEF Clean
      <3> QED BY <3>1, <3>2, <3>3, <3>4 DEF ClaimFit
    <2> QED BY <2>0, <2>1, <2>2, <2>3, <1>0, Elsewhere DEF PathInv
  <1>11. ASSUME NEW w \in Procs, Escalate(w) PROVE PathInv'
    <2>0. PICK c \in Claims : c = ClaimOf(w) /\ ClaimFit(c)
      BY <1>11, <1>0 DEF Escalate
    <2>1. TypeOK'
      <3>1. ClaimsOK'
        BY <1>11, <1>0, <2>0, GotoHas, LeaveHas, TakeHas, SetStatusHas, CancelHas DEF Escalate, ClaimsOK, RowType, Statuses, Void
      <3>2. UnitsOK'
        BY <1>11, <1>0, <2>0 DEF Escalate, UnitsOK, ClaimsOK, RowType
      <3>3. SetsOK'
        BY <1>11, <1>0, <2>0 DEF Escalate, SetsOK, ClaimFit, TasksFit, TaskFit
      <3>4. PanelOK'
        BY <1>11, <1>0, <2>0 DEF Escalate, PanelOK
      <3>5. TasksOK'
        BY <1>11, <1>0, <2>0, GotoHas, LeaveHas, TakeHas, SetStatusHas, CancelHas DEF Escalate, Steps, Void, Statuses
      <3> QED BY <3>1, <3>2, <3>3, <3>4, <3>5
         DEF TypeOK, ClaimsOK, UnitsOK, SetsOK, PanelOK, TasksOK, RowType, TaskType
    <2>2. Apart(c)
      BY <1>11, <1>0, <2>0, GotoHas, LeaveHas, TakeHas, SetStatusHas, CancelHas DEF Escalate, Apart, Same, Others, Rest, ClaimsOK, TasksOK, PanelOK, Steps, Void, Statuses
    <2>3. ClaimFit(c)'
      <3>1. RowFit(c)'
        BY <1>11, <1>0, <2>0, GotoHas, LeaveHas, TakeHas, SetStatusHas, CancelHas
        DEF Escalate, ClaimFit, RowFit, TasksFit, TaskFit, Alone, Clean, Others, ClaimsOK, RowType, PanelOK, Steps, Void,
            Statuses, Creation, Later, Undecided
      <3>2. TasksFit(c)'
        BY <1>11, <1>0, <2>0, GotoHas, LeaveHas, TakeHas, SetStatusHas, CancelHas
        DEF Escalate, ClaimFit, RowFit, TasksFit, TaskFit, Alone, Clean, Others, ClaimsOK, RowType, PanelOK, Steps, Void,
            Statuses, Creation, Later, Undecided
      <3>3. Alone(c)'
        BY <1>11, <1>0, <2>0, GotoHas, LeaveHas, TakeHas, SetStatusHas, CancelHas
        DEF Escalate, ClaimFit, RowFit, TasksFit, TaskFit, Alone, Clean, Others, ClaimsOK, RowType, PanelOK, Steps, Void,
            Statuses, Creation, Later, Undecided
      <3>4. Clean(c)'
        <4>0. claim[c].status \in Void /\ c \notin disputed' => Clean(c)'
          BY <1>11, <1>0, <2>0, GotoHas, LeaveHas, TakeHas, SetStatusHas, CancelHas
          DEF Escalate, ClaimFit, Clean, Others, Steps, Void, Statuses, Undecided
        <4>1. CASE claim[c].status \in Void
          BY <4>0, <4>1 DEF Clean
        <4>2. CASE claim[c].status \notin Void
          <5>1. claim'[c].status \notin Void
            BY <1>11, <4>2, <1>0, <2>0, SetStatusHas DEF Escalate, Void, Statuses
          <5> QED BY <5>1 DEF Clean
        <4> QED BY <4>1, <4>2
      <3> QED BY <3>1, <3>2, <3>3, <3>4 DEF ClaimFit
    <2> QED BY <2>0, <2>1, <2>2, <2>3, <1>0, Elsewhere DEF PathInv
  <1>12. ASSUME ExpireClaim PROVE PathInv'
    <2>0. PICK c \in Claims : c = ClaimOf(Sweep) /\ ClaimFit(c) /\ Sweep \in Procs
      BY <1>12, <1>0 DEF ExpireClaim, Procs
    <2>1. TypeOK'
      <3>1. ClaimsOK'
        BY <1>12, <1>0, <2>0, GotoHas, LeaveHas, TakeHas, SetStatusHas, CancelHas DEF ExpireClaim, ClaimsOK, RowType, Statuses, Void
      <3>2. UnitsOK'
        BY <1>12, <1>0, <2>0 DEF ExpireClaim, UnitsOK, ClaimsOK, RowType
      <3>3. SetsOK'
        BY <1>12, <1>0, <2>0 DEF ExpireClaim, SetsOK, ClaimFit, TasksFit, TaskFit
      <3>4. PanelOK'
        BY <1>12, <1>0, <2>0 DEF ExpireClaim, PanelOK
      <3>5. TasksOK'
        BY <1>12, <1>0, <2>0, GotoHas, LeaveHas, TakeHas, SetStatusHas, CancelHas DEF ExpireClaim, Steps, Void, Statuses
      <3> QED BY <3>1, <3>2, <3>3, <3>4, <3>5
         DEF TypeOK, ClaimsOK, UnitsOK, SetsOK, PanelOK, TasksOK, RowType, TaskType
    <2>2. Apart(c)
      BY <1>12, <1>0, <2>0, GotoHas, LeaveHas, TakeHas, SetStatusHas, CancelHas DEF ExpireClaim, Apart, Same, Others, Rest, ClaimsOK, TasksOK, PanelOK, Steps, Void, Statuses
    <2>3. ClaimFit(c)'
      <3>1. RowFit(c)'
        BY <1>12, <1>0, <2>0, GotoHas, LeaveHas, TakeHas, SetStatusHas, CancelHas
        DEF ExpireClaim, ClaimFit, RowFit, TasksFit, TaskFit, Alone, Clean, Others, ClaimsOK, RowType, PanelOK, Steps, Void,
            Statuses, Creation, Later, Undecided
      <3>2. TasksFit(c)'
        BY <1>12, <1>0, <2>0, GotoHas, LeaveHas, TakeHas, SetStatusHas, CancelHas
        DEF ExpireClaim, ClaimFit, RowFit, TasksFit, TaskFit, Alone, Clean, Others, ClaimsOK, RowType, PanelOK, Steps, Void,
            Statuses, Creation, Later, Undecided
      <3>3. Alone(c)'
        BY <1>12, <1>0, <2>0, GotoHas, LeaveHas, TakeHas, SetStatusHas, CancelHas
        DEF ExpireClaim, ClaimFit, RowFit, TasksFit, TaskFit, Alone, Clean, Others, ClaimsOK, RowType, PanelOK, Steps, Void,
            Statuses, Creation, Later, Undecided
      <3>4. Clean(c)'
        BY <1>12, <1>0, <2>0, GotoHas, LeaveHas, TakeHas, SetStatusHas, CancelHas
        DEF ExpireClaim, ClaimFit, RowFit, TasksFit, TaskFit, Alone, Clean, Others, ClaimsOK, RowType, PanelOK, Steps, Void,
            Statuses, Creation, Later, Undecided
      <3> QED BY <3>1, <3>2, <3>3, <3>4 DEF ClaimFit
    <2> QED BY <2>0, <2>1, <2>2, <2>3, <1>0, Elsewhere DEF PathInv
  <1>13. ASSUME ExpireService PROVE PathInv'
    <2>0. PICK c \in Claims : c = ClaimOf(Sweep) /\ ClaimFit(c) /\ Sweep \in Procs
      BY <1>13, <1>0 DEF ExpireService, Procs
    <2>1. TypeOK'
      <3>1. ClaimsOK'
        BY <1>13, <1>0, <2>0, GotoHas, LeaveHas, TakeHas, SetStatusHas, CancelHas DEF ExpireService, ClaimsOK, RowType, Statuses, Void
      <3>2. UnitsOK'
        BY <1>13, <1>0, <2>0 DEF ExpireService, UnitsOK, ClaimsOK, RowType
      <3>3. SetsOK'
        BY <1>13, <1>0, <2>0 DEF ExpireService, SetsOK, ClaimFit, TasksFit, TaskFit
      <3>4. PanelOK'
        BY <1>13, <1>0, <2>0 DEF ExpireService, PanelOK
      <3>5. TasksOK'
        BY <1>13, <1>0, <2>0, GotoHas, LeaveHas, TakeHas, SetStatusHas, CancelHas DEF ExpireService, Steps, Void, Statuses
      <3> QED BY <3>1, <3>2, <3>3, <3>4, <3>5
         DEF TypeOK, ClaimsOK, UnitsOK, SetsOK, PanelOK, TasksOK, RowType, TaskType
    <2>2. Apart(c)
      BY <1>13, <1>0, <2>0, GotoHas, LeaveHas, TakeHas, SetStatusHas, CancelHas DEF ExpireService, Apart, Same, Others, Rest, ClaimsOK, TasksOK, PanelOK, Steps, Void, Statuses
    <2>3. ClaimFit(c)'
      <3>1. RowFit(c)'
        BY <1>13, <1>0, <2>0, GotoHas, LeaveHas, TakeHas, SetStatusHas, CancelHas
        DEF ExpireService, ClaimFit, RowFit, TasksFit, TaskFit, Alone, Clean, Others, ClaimsOK, RowType, PanelOK, Steps, Void,
            Statuses, Creation, Later, Undecided
      <3>2. TasksFit(c)'
        BY <1>13, <1>0, <2>0, GotoHas, LeaveHas, TakeHas, SetStatusHas, CancelHas
        DEF ExpireService, ClaimFit, RowFit, TasksFit, TaskFit, Alone, Clean, Others, ClaimsOK, RowType, PanelOK, Steps, Void,
            Statuses, Creation, Later, Undecided
      <3>3. Alone(c)'
        BY <1>13, <1>0, <2>0, GotoHas, LeaveHas, TakeHas, SetStatusHas, CancelHas
        DEF ExpireService, ClaimFit, RowFit, TasksFit, TaskFit, Alone, Clean, Others, ClaimsOK, RowType, PanelOK, Steps, Void,
            Statuses, Creation, Later, Undecided
      <3>4. Clean(c)'
        BY <1>13, <1>0, <2>0, GotoHas, LeaveHas, TakeHas, SetStatusHas, CancelHas
        DEF ExpireService, ClaimFit, RowFit, TasksFit, TaskFit, Alone, Clean, Others, ClaimsOK, RowType, PanelOK, Steps, Void,
            Statuses, Creation, Later, Undecided
      <3> QED BY <3>1, <3>2, <3>3, <3>4 DEF ClaimFit
    <2> QED BY <2>0, <2>1, <2>2, <2>3, <1>0, Elsewhere DEF PathInv
  <1>14. ASSUME DisableAccount PROVE PathInv'
    <2>0. PICK c \in Claims : c = ClaimOf(Sweep) /\ ClaimFit(c) /\ Sweep \in Procs
      BY <1>14, <1>0 DEF DisableAccount, Procs
    <2>1. TypeOK'
      <3>1. ClaimsOK'
        BY <1>14, <1>0, <2>0, GotoHas, LeaveHas, TakeHas, SetStatusHas, CancelHas DEF DisableAccount, ClaimsOK, RowType, Statuses, Void
      <3>2. UnitsOK'
        BY <1>14, <1>0, <2>0 DEF DisableAccount, UnitsOK, ClaimsOK, RowType
      <3>3. SetsOK'
        BY <1>14, <1>0, <2>0 DEF DisableAccount, SetsOK, ClaimFit, TasksFit, TaskFit
      <3>4. PanelOK'
        BY <1>14, <1>0, <2>0 DEF DisableAccount, PanelOK
      <3>5. TasksOK'
        BY <1>14, <1>0, <2>0, GotoHas, LeaveHas, TakeHas, SetStatusHas, CancelHas DEF DisableAccount, Steps, Void, Statuses
      <3> QED BY <3>1, <3>2, <3>3, <3>4, <3>5
         DEF TypeOK, ClaimsOK, UnitsOK, SetsOK, PanelOK, TasksOK, RowType, TaskType
    <2>2. Apart(c)
      BY <1>14, <1>0, <2>0, GotoHas, LeaveHas, TakeHas, SetStatusHas, CancelHas DEF DisableAccount, Apart, Same, Others, Rest, ClaimsOK, TasksOK, PanelOK, Steps, Void, Statuses
    <2>3. ClaimFit(c)'
      <3>1. RowFit(c)'
        BY <1>14, <1>0, <2>0, GotoHas, LeaveHas, TakeHas, SetStatusHas, CancelHas
        DEF DisableAccount, ClaimFit, RowFit, TasksFit, TaskFit, Alone, Clean, Others, ClaimsOK, RowType, PanelOK, Steps, Void,
            Statuses, Creation, Later, Undecided
      <3>2. TasksFit(c)'
        BY <1>14, <1>0, <2>0, GotoHas, LeaveHas, TakeHas, SetStatusHas, CancelHas
        DEF DisableAccount, ClaimFit, RowFit, TasksFit, TaskFit, Alone, Clean, Others, ClaimsOK, RowType, PanelOK, Steps, Void,
            Statuses, Creation, Later, Undecided
      <3>3. Alone(c)'
        BY <1>14, <1>0, <2>0, GotoHas, LeaveHas, TakeHas, SetStatusHas, CancelHas
        DEF DisableAccount, ClaimFit, RowFit, TasksFit, TaskFit, Alone, Clean, Others, ClaimsOK, RowType, PanelOK, Steps, Void,
            Statuses, Creation, Later, Undecided
      <3>4. Clean(c)'
        BY <1>14, <1>0, <2>0, GotoHas, LeaveHas, TakeHas, SetStatusHas, CancelHas
        DEF DisableAccount, ClaimFit, RowFit, TasksFit, TaskFit, Alone, Clean, Others, ClaimsOK, RowType, PanelOK, Steps, Void,
            Statuses, Creation, Later, Undecided
      <3> QED BY <3>1, <3>2, <3>3, <3>4 DEF ClaimFit
    <2> QED BY <2>0, <2>1, <2>2, <2>3, <1>0, Elsewhere DEF PathInv
  <1>15. ASSUME NEW w \in Procs, NEW c \in Claims, NEW u \in Users, InsertClaim(w, c, u) PROVE PathInv'
    <2>0. c \in Claims /\ ClaimFit(c)
      BY <1>15, <1>0
    <2>1. TypeOK'
      <3>1. ClaimsOK'
        BY <1>15, <1>0, <2>0, GotoHas, LeaveHas, TakeHas, SetStatusHas, CancelHas DEF InsertClaim, ClaimsOK, RowType, Statuses, Void
      <3>2. UnitsOK'
        BY <1>15, <1>0, <2>0 DEF InsertClaim, UnitsOK, ClaimsOK, RowType
      <3>3. SetsOK'
        BY <1>15, <1>0, <2>0 DEF InsertClaim, SetsOK, ClaimFit, TasksFit, TaskFit
      <3>4. PanelOK'
        BY <1>15, <1>0, <2>0 DEF InsertClaim, PanelOK
      <3>5. TasksOK'
        BY <1>15, <1>0, <2>0, GotoHas, LeaveHas, TakeHas, SetStatusHas, CancelHas DEF InsertClaim, Steps, Void, Statuses
      <3> QED BY <3>1, <3>2, <3>3, <3>4, <3>5
         DEF TypeOK, ClaimsOK, UnitsOK, SetsOK, PanelOK, TasksOK, RowType, TaskType
    <2>2. Apart(c)
      BY <1>15, <1>0, <2>0, GotoHas, LeaveHas, TakeHas, SetStatusHas, CancelHas DEF InsertClaim, Apart, Same, Others, Rest, ClaimsOK, TasksOK, PanelOK, Steps, Void, Statuses
    <2>3. ClaimFit(c)'
      <3>1. RowFit(c)'
        BY <1>15, <1>0, <2>0, GotoHas, LeaveHas, TakeHas, SetStatusHas, CancelHas
        DEF InsertClaim, ClaimFit, RowFit, TasksFit, TaskFit, Alone, Clean, Others, ClaimsOK, RowType, PanelOK, Steps, Void,
            Statuses, Creation, Later, Undecided
      <3>2. TasksFit(c)'
        BY <1>15, <1>0, <2>0, GotoHas, LeaveHas, TakeHas, SetStatusHas, CancelHas
        DEF InsertClaim, ClaimFit, RowFit, TasksFit, TaskFit, Alone, Clean, Others, ClaimsOK, RowType, PanelOK, Steps, Void,
            Statuses, Creation, Later, Undecided
      <3>3. Alone(c)'
        BY <1>15, <1>0, <2>0, GotoHas, LeaveHas, TakeHas, SetStatusHas, CancelHas
        DEF InsertClaim, ClaimFit, RowFit, TasksFit, TaskFit, Alone, Clean, Others, ClaimsOK, RowType, PanelOK, Steps, Void,
            Statuses, Creation, Later, Undecided
      <3>4. Clean(c)'
        BY <1>15, <1>0, <2>0, GotoHas, LeaveHas, TakeHas, SetStatusHas, CancelHas
        DEF InsertClaim, ClaimFit, RowFit, TasksFit, TaskFit, Alone, Clean, Others, ClaimsOK, RowType, PanelOK, Steps, Void,
            Statuses, Creation, Later, Undecided
      <3> QED BY <3>1, <3>2, <3>3, <3>4 DEF ClaimFit
    <2> QED BY <2>0, <2>1, <2>2, <2>3, <1>0, Elsewhere DEF PathInv
  <1>16. ASSUME NEW w \in Procs, NEW c \in Claims, StartReconcile(w, c) PROVE PathInv'
    <2>0. c \in Claims /\ ClaimFit(c)
      BY <1>16, <1>0
    <2>1. TypeOK'
      <3>1. ClaimsOK'
        BY <1>16, <1>0, <2>0, GotoHas, LeaveHas, TakeHas, SetStatusHas, CancelHas DEF StartReconcile, Undecided, ClaimsOK, RowType, Statuses, Void
      <3>2. UnitsOK'
        BY <1>16, <1>0, <2>0 DEF StartReconcile, Undecided, UnitsOK, ClaimsOK, RowType
      <3>3. SetsOK'
        BY <1>16, <1>0, <2>0 DEF StartReconcile, Undecided, SetsOK, ClaimFit, TasksFit, TaskFit
      <3>4. PanelOK'
        BY <1>16, <1>0, <2>0 DEF StartReconcile, Undecided, PanelOK
      <3>5. TasksOK'
        BY <1>16, <1>0, <2>0, GotoHas, LeaveHas, TakeHas, SetStatusHas, CancelHas DEF StartReconcile, Undecided, Steps, Void, Statuses
      <3> QED BY <3>1, <3>2, <3>3, <3>4, <3>5
         DEF TypeOK, ClaimsOK, UnitsOK, SetsOK, PanelOK, TasksOK, RowType, TaskType
    <2>2. Apart(c)
      BY <1>16, <1>0, <2>0, GotoHas, LeaveHas, TakeHas, SetStatusHas, CancelHas DEF StartReconcile, Undecided, Apart, Same, Others, Rest, ClaimsOK, TasksOK, PanelOK, Steps, Void, Statuses
    <2>3. ClaimFit(c)'
      <3>1. RowFit(c)'
        BY <1>16, <1>0, <2>0, GotoHas, LeaveHas, TakeHas, SetStatusHas, CancelHas
        DEF StartReconcile, Undecided, ClaimFit, RowFit, TasksFit, TaskFit, Alone, Clean, Others, ClaimsOK, RowType, PanelOK, Steps, Void,
            Statuses, Creation, Later, Undecided
      <3>2. TasksFit(c)'
        BY <1>16, <1>0, <2>0, GotoHas, LeaveHas, TakeHas, SetStatusHas, CancelHas
        DEF StartReconcile, Undecided, ClaimFit, RowFit, TasksFit, TaskFit, Alone, Clean, Others, ClaimsOK, RowType, PanelOK, Steps, Void,
            Statuses, Creation, Later, Undecided
      <3>3. Alone(c)'
        BY <1>16, <1>0, <2>0, GotoHas, LeaveHas, TakeHas, SetStatusHas, CancelHas
        DEF StartReconcile, Undecided, ClaimFit, RowFit, TasksFit, TaskFit, Alone, Clean, Others, ClaimsOK, RowType, PanelOK, Steps, Void,
            Statuses, Creation, Later, Undecided
      <3>4. Clean(c)'
        BY <1>16, <1>0, <2>0, GotoHas, LeaveHas, TakeHas, SetStatusHas, CancelHas
        DEF StartReconcile, Undecided, ClaimFit, RowFit, TasksFit, TaskFit, Alone, Clean, Others, ClaimsOK, RowType, PanelOK, Steps, Void,
            Statuses, Creation, Later, Undecided
      <3> QED BY <3>1, <3>2, <3>3, <3>4 DEF ClaimFit
    <2> QED BY <2>0, <2>1, <2>2, <2>3, <1>0, Elsewhere DEF PathInv
  <1>17. ASSUME NEW w \in Procs, NEW c \in Claims, ForceNotCreated(w, c) PROVE PathInv'
    <2>0. c \in Claims /\ ClaimFit(c)
      BY <1>17, <1>0
    <2>1. TypeOK'
      <3>1. ClaimsOK'
        BY <1>17, <1>0, <2>0, GotoHas, LeaveHas, TakeHas, SetStatusHas, CancelHas DEF ForceNotCreated, Undecided, ClaimsOK, RowType, Statuses, Void
      <3>2. UnitsOK'
        BY <1>17, <1>0, <2>0 DEF ForceNotCreated, Undecided, UnitsOK, ClaimsOK, RowType
      <3>3. SetsOK'
        BY <1>17, <1>0, <2>0 DEF ForceNotCreated, Undecided, SetsOK, ClaimFit, TasksFit, TaskFit
      <3>4. PanelOK'
        BY <1>17, <1>0, <2>0 DEF ForceNotCreated, Undecided, PanelOK
      <3>5. TasksOK'
        BY <1>17, <1>0, <2>0, GotoHas, LeaveHas, TakeHas, SetStatusHas, CancelHas DEF ForceNotCreated, Undecided, Steps, Void, Statuses
      <3> QED BY <3>1, <3>2, <3>3, <3>4, <3>5
         DEF TypeOK, ClaimsOK, UnitsOK, SetsOK, PanelOK, TasksOK, RowType, TaskType
    <2>2. Apart(c)
      BY <1>17, <1>0, <2>0, GotoHas, LeaveHas, TakeHas, SetStatusHas, CancelHas DEF ForceNotCreated, Undecided, Apart, Same, Others, Rest, ClaimsOK, TasksOK, PanelOK, Steps, Void, Statuses
    <2>3. ClaimFit(c)'
      <3>1. RowFit(c)'
        BY <1>17, <1>0, <2>0, GotoHas, LeaveHas, TakeHas, SetStatusHas, CancelHas
        DEF ForceNotCreated, Undecided, ClaimFit, RowFit, TasksFit, TaskFit, Alone, Clean, Others, ClaimsOK, RowType, PanelOK, Steps, Void,
            Statuses, Creation, Later, Undecided
      <3>2. TasksFit(c)'
        BY <1>17, <1>0, <2>0, GotoHas, LeaveHas, TakeHas, SetStatusHas, CancelHas
        DEF ForceNotCreated, Undecided, ClaimFit, RowFit, TasksFit, TaskFit, Alone, Clean, Others, ClaimsOK, RowType, PanelOK, Steps, Void,
            Statuses, Creation, Later, Undecided
      <3>3. Alone(c)'
        BY <1>17, <1>0, <2>0, GotoHas, LeaveHas, TakeHas, SetStatusHas, CancelHas
        DEF ForceNotCreated, Undecided, ClaimFit, RowFit, TasksFit, TaskFit, Alone, Clean, Others, ClaimsOK, RowType, PanelOK, Steps, Void,
            Statuses, Creation, Later, Undecided
      <3>4. Clean(c)'
        BY <1>17, <1>0, <2>0, GotoHas, LeaveHas, TakeHas, SetStatusHas, CancelHas
        DEF ForceNotCreated, Undecided, ClaimFit, RowFit, TasksFit, TaskFit, Alone, Clean, Others, ClaimsOK, RowType, PanelOK, Steps, Void,
            Statuses, Creation, Later, Undecided
      <3> QED BY <3>1, <3>2, <3>3, <3>4 DEF ClaimFit
    <2> QED BY <2>0, <2>1, <2>2, <2>3, <1>0, Elsewhere DEF PathInv
  <1>18. ASSUME NEW c \in Claims, CreateLands(c) PROVE PathInv'
    <2>0. c \in Claims /\ ClaimFit(c)
      BY <1>18, <1>0
    <2>1. TypeOK'
      <3>1. ClaimsOK'
        BY <1>18, <1>0, <2>0, GotoHas, LeaveHas, TakeHas, SetStatusHas, CancelHas DEF CreateLands, ClaimsOK, RowType, Statuses, Void
      <3>2. UnitsOK'
        BY <1>18, <1>0, <2>0 DEF CreateLands, UnitsOK, ClaimsOK, RowType
      <3>3. SetsOK'
        BY <1>18, <1>0, <2>0 DEF CreateLands, SetsOK, ClaimFit, TasksFit, TaskFit
      <3>4. PanelOK'
        BY <1>18, <1>0, <2>0 DEF CreateLands, PanelOK
      <3>5. TasksOK'
        BY <1>18, <1>0, <2>0 DEF CreateLands, TasksOK
      <3> QED BY <3>1, <3>2, <3>3, <3>4, <3>5
         DEF TypeOK, ClaimsOK, UnitsOK, SetsOK, PanelOK, TasksOK, RowType, TaskType
    <2>2. Apart(c)
      BY <1>18, <1>0, <2>0, GotoHas, LeaveHas, TakeHas, SetStatusHas, CancelHas DEF CreateLands, Apart, Same, Others, Rest, ClaimsOK, TasksOK, PanelOK, Steps, Void, Statuses
    <2>3. ClaimFit(c)'
      <3>1. RowFit(c)'
        BY <1>18, <1>0, <2>0, GotoHas, LeaveHas, TakeHas, SetStatusHas, CancelHas
        DEF CreateLands, ClaimFit, RowFit, TasksFit, TaskFit, Alone, Clean, Others, ClaimsOK, RowType, PanelOK, Steps, Void,
            Statuses, Creation, Later, Undecided
      <3>2. TasksFit(c)'
        BY <1>18, <1>0, <2>0, GotoHas, LeaveHas, TakeHas, SetStatusHas, CancelHas
        DEF CreateLands, ClaimFit, RowFit, TasksFit, TaskFit, Alone, Clean, Others, ClaimsOK, RowType, PanelOK, Steps, Void,
            Statuses, Creation, Later, Undecided
      <3>3. Alone(c)'
        BY <1>18, <1>0, <2>0, GotoHas, LeaveHas, TakeHas, SetStatusHas, CancelHas
        DEF CreateLands, ClaimFit, RowFit, TasksFit, TaskFit, Alone, Clean, Others, ClaimsOK, RowType, PanelOK, Steps, Void,
            Statuses, Creation, Later, Undecided
      <3>4. Clean(c)'
        BY <1>18, <1>0, <2>0, GotoHas, LeaveHas, TakeHas, SetStatusHas, CancelHas
        DEF CreateLands, ClaimFit, RowFit, TasksFit, TaskFit, Alone, Clean, Others, ClaimsOK, RowType, PanelOK, Steps, Void,
            Statuses, Creation, Later, Undecided
      <3> QED BY <3>1, <3>2, <3>3, <3>4 DEF ClaimFit
    <2> QED BY <2>0, <2>1, <2>2, <2>3, <1>0, Elsewhere DEF PathInv
  <1>19. ASSUME NEW c \in Claims, CreateIsLost(c) PROVE PathInv'
    <2>0. c \in Claims /\ ClaimFit(c)
      BY <1>19, <1>0
    <2>1. TypeOK'
      <3>1. ClaimsOK'
        BY <1>19, <1>0, <2>0, GotoHas, LeaveHas, TakeHas, SetStatusHas, CancelHas DEF CreateIsLost, ClaimsOK, RowType, Statuses, Void
      <3>2. UnitsOK'
        BY <1>19, <1>0, <2>0 DEF CreateIsLost, UnitsOK, ClaimsOK, RowType
      <3>3. SetsOK'
        BY <1>19, <1>0, <2>0 DEF CreateIsLost, SetsOK, ClaimFit, TasksFit, TaskFit
      <3>4. PanelOK'
        BY <1>19, <1>0, <2>0 DEF CreateIsLost, PanelOK
      <3>5. TasksOK'
        BY <1>19, <1>0, <2>0 DEF CreateIsLost, TasksOK
      <3> QED BY <3>1, <3>2, <3>3, <3>4, <3>5
         DEF TypeOK, ClaimsOK, UnitsOK, SetsOK, PanelOK, TasksOK, RowType, TaskType
    <2>2. Apart(c)
      BY <1>19, <1>0, <2>0, GotoHas, LeaveHas, TakeHas, SetStatusHas, CancelHas DEF CreateIsLost, Apart, Same, Others, Rest, ClaimsOK, TasksOK, PanelOK, Steps, Void, Statuses
    <2>3. ClaimFit(c)'
      <3>1. RowFit(c)'
        BY <1>19, <1>0, <2>0, GotoHas, LeaveHas, TakeHas, SetStatusHas, CancelHas
        DEF CreateIsLost, ClaimFit, RowFit, TasksFit, TaskFit, Alone, Clean, Others, ClaimsOK, RowType, PanelOK, Steps, Void,
            Statuses, Creation, Later, Undecided
      <3>2. TasksFit(c)'
        BY <1>19, <1>0, <2>0, GotoHas, LeaveHas, TakeHas, SetStatusHas, CancelHas
        DEF CreateIsLost, ClaimFit, RowFit, TasksFit, TaskFit, Alone, Clean, Others, ClaimsOK, RowType, PanelOK, Steps, Void,
            Statuses, Creation, Later, Undecided
      <3>3. Alone(c)'
        BY <1>19, <1>0, <2>0, GotoHas, LeaveHas, TakeHas, SetStatusHas, CancelHas
        DEF CreateIsLost, ClaimFit, RowFit, TasksFit, TaskFit, Alone, Clean, Others, ClaimsOK, RowType, PanelOK, Steps, Void,
            Statuses, Creation, Later, Undecided
      <3>4. Clean(c)'
        BY <1>19, <1>0, <2>0, GotoHas, LeaveHas, TakeHas, SetStatusHas, CancelHas
        DEF CreateIsLost, ClaimFit, RowFit, TasksFit, TaskFit, Alone, Clean, Others, ClaimsOK, RowType, PanelOK, Steps, Void,
            Statuses, Creation, Later, Undecided
      <3> QED BY <3>1, <3>2, <3>3, <3>4 DEF ClaimFit
    <2> QED BY <2>0, <2>1, <2>2, <2>3, <1>0, Elsewhere DEF PathInv
  <1>20. ASSUME NEW c \in Claims, CancelStale(c) PROVE PathInv'
    <2>0. c \in Claims /\ ClaimFit(c)
      BY <1>20, <1>0
    <2>1. TypeOK'
      <3>1. ClaimsOK'
        BY <1>20, <1>0, <2>0, GotoHas, LeaveHas, TakeHas, SetStatusHas, CancelHas DEF CancelStale, Procs, ClaimsOK, RowType, Statuses, Void
      <3>2. UnitsOK'
        BY <1>20, <1>0, <2>0 DEF CancelStale, Procs, UnitsOK, ClaimsOK, RowType
      <3>3. SetsOK'
        BY <1>20, <1>0, <2>0 DEF CancelStale, Procs, SetsOK, ClaimFit, TasksFit, TaskFit
      <3>4. PanelOK'
        BY <1>20, <1>0, <2>0 DEF CancelStale, Procs, PanelOK
      <3>5. TasksOK'
        BY <1>20, <1>0, <2>0, GotoHas, LeaveHas, TakeHas, SetStatusHas, CancelHas DEF CancelStale, Procs, Steps, Void, Statuses
      <3> QED BY <3>1, <3>2, <3>3, <3>4, <3>5
         DEF TypeOK, ClaimsOK, UnitsOK, SetsOK, PanelOK, TasksOK, RowType, TaskType
    <2>2. Apart(c)
      BY <1>20, <1>0, <2>0, GotoHas, LeaveHas, TakeHas, SetStatusHas, CancelHas DEF CancelStale, Procs, Apart, Same, Others, Rest, ClaimsOK, TasksOK, PanelOK, Steps, Void, Statuses
    <2>3. ClaimFit(c)'
      <3>1. RowFit(c)'
        BY <1>20, <1>0, <2>0, GotoHas, LeaveHas, TakeHas, SetStatusHas, CancelHas
        DEF CancelStale, Procs, ClaimFit, RowFit, TasksFit, TaskFit, Alone, Clean, Others, ClaimsOK, RowType, PanelOK, Steps, Void,
            Statuses, Creation, Later, Undecided
      <3>2. TasksFit(c)'
        BY <1>20, <1>0, <2>0, GotoHas, LeaveHas, TakeHas, SetStatusHas, CancelHas
        DEF CancelStale, Procs, ClaimFit, RowFit, TasksFit, TaskFit, Alone, Clean, Others, ClaimsOK, RowType, PanelOK, Steps, Void,
            Statuses, Creation, Later, Undecided
      <3>3. Alone(c)'
        BY <1>20, <1>0, <2>0, GotoHas, LeaveHas, TakeHas, SetStatusHas, CancelHas
        DEF CancelStale, Procs, ClaimFit, RowFit, TasksFit, TaskFit, Alone, Clean, Others, ClaimsOK, RowType, PanelOK, Steps, Void,
            Statuses, Creation, Later, Undecided
      <3>4. Clean(c)'
        BY <1>20, <1>0, <2>0, GotoHas, LeaveHas, TakeHas, SetStatusHas, CancelHas
        DEF CancelStale, Procs, ClaimFit, RowFit, TasksFit, TaskFit, Alone, Clean, Others, ClaimsOK, RowType, PanelOK, Steps, Void,
            Statuses, Creation, Later, Undecided
      <3> QED BY <3>1, <3>2, <3>3, <3>4 DEF ClaimFit
    <2> QED BY <2>0, <2>1, <2>2, <2>3, <1>0, Elsewhere DEF PathInv
  <1>21. ASSUME NEW c \in Claims, StartExpiry(c) PROVE PathInv'
    <2>0. c \in Claims /\ ClaimFit(c)
      BY <1>21, <1>0
    <2>1. TypeOK'
      <3>1. ClaimsOK'
        BY <1>21, <1>0, <2>0, GotoHas, LeaveHas, TakeHas, SetStatusHas, CancelHas DEF StartExpiry, Procs, ClaimsOK, RowType, Statuses, Void
      <3>2. UnitsOK'
        BY <1>21, <1>0, <2>0 DEF StartExpiry, Procs, UnitsOK, ClaimsOK, RowType
      <3>3. SetsOK'
        BY <1>21, <1>0, <2>0 DEF StartExpiry, Procs, SetsOK, ClaimFit, TasksFit, TaskFit
      <3>4. PanelOK'
        BY <1>21, <1>0, <2>0 DEF StartExpiry, Procs, PanelOK
      <3>5. TasksOK'
        <4>1. (c \in converted) \in BOOLEAN
          OBVIOUS
        <4> QED BY <1>21, <4>1, <1>0, <2>0, Zenon DEF StartExpiry, Procs, TasksOK, TaskType, Steps
      <3> QED BY <3>1, <3>2, <3>3, <3>4, <3>5
         DEF TypeOK, ClaimsOK, UnitsOK, SetsOK, PanelOK, TasksOK, RowType, TaskType
    <2>2. Apart(c)
      BY <1>21, <1>0, <2>0, GotoHas, LeaveHas, TakeHas, SetStatusHas, CancelHas DEF StartExpiry, Procs, Apart, Same, Others, Rest, ClaimsOK, TasksOK, PanelOK, Steps, Void, Statuses
    <2>3. ClaimFit(c)'
      <3>1. RowFit(c)'
        BY <1>21, <1>0, <2>0, GotoHas, LeaveHas, TakeHas, SetStatusHas, CancelHas
        DEF StartExpiry, Procs, ClaimFit, RowFit, TasksFit, TaskFit, Alone, Clean, Others, ClaimsOK, RowType, PanelOK, Steps, Void,
            Statuses, Creation, Later, Undecided
      <3>2. TasksFit(c)'
        BY <1>21, <1>0, <2>0, GotoHas, LeaveHas, TakeHas, SetStatusHas, CancelHas
        DEF StartExpiry, Procs, ClaimFit, RowFit, TasksFit, TaskFit, Alone, Clean, Others, ClaimsOK, RowType, PanelOK, Steps, Void,
            Statuses, Creation, Later, Undecided
      <3>3. Alone(c)'
        BY <1>21, <1>0, <2>0, GotoHas, LeaveHas, TakeHas, SetStatusHas, CancelHas
        DEF StartExpiry, Procs, ClaimFit, RowFit, TasksFit, TaskFit, Alone, Clean, Others, ClaimsOK, RowType, PanelOK, Steps, Void,
            Statuses, Creation, Later, Undecided
      <3>4. Clean(c)'
        BY <1>21, <1>0, <2>0, GotoHas, LeaveHas, TakeHas, SetStatusHas, CancelHas
        DEF StartExpiry, Procs, ClaimFit, RowFit, TasksFit, TaskFit, Alone, Clean, Others, ClaimsOK, RowType, PanelOK, Steps, Void,
            Statuses, Creation, Later, Undecided
      <3> QED BY <3>1, <3>2, <3>3, <3>4 DEF ClaimFit
    <2> QED BY <2>0, <2>1, <2>2, <2>3, <1>0, Elsewhere DEF PathInv
  <1>22. ASSUME NEW c \in Claims, TrialEnds(c) PROVE PathInv'
    <2>0. c \in Claims /\ ClaimFit(c)
      BY <1>22, <1>0
    <2>1. TypeOK'
      <3>1. ClaimsOK'
        BY <1>22, <1>0, <2>0, GotoHas, LeaveHas, TakeHas, SetStatusHas, CancelHas DEF TrialEnds, ClaimsOK, RowType, Statuses, Void
      <3>2. UnitsOK'
        BY <1>22, <1>0, <2>0 DEF TrialEnds, UnitsOK, ClaimsOK, RowType
      <3>3. SetsOK'
        BY <1>22, <1>0, <2>0 DEF TrialEnds, SetsOK, ClaimFit, TasksFit, TaskFit
      <3>4. PanelOK'
        BY <1>22, <1>0, <2>0 DEF TrialEnds, PanelOK
      <3>5. TasksOK'
        BY <1>22, <1>0, <2>0 DEF TrialEnds, TasksOK
      <3> QED BY <3>1, <3>2, <3>3, <3>4, <3>5
         DEF TypeOK, ClaimsOK, UnitsOK, SetsOK, PanelOK, TasksOK, RowType, TaskType
    <2>2. Apart(c)
      BY <1>22, <1>0, <2>0, GotoHas, LeaveHas, TakeHas, SetStatusHas, CancelHas DEF TrialEnds, Apart, Same, Others, Rest, ClaimsOK, TasksOK, PanelOK, Steps, Void, Statuses
    <2>3. ClaimFit(c)'
      <3>1. RowFit(c)'
        BY <1>22, <1>0, <2>0, GotoHas, LeaveHas, TakeHas, SetStatusHas, CancelHas
        DEF TrialEnds, ClaimFit, RowFit, TasksFit, TaskFit, Alone, Clean, Others, ClaimsOK, RowType, PanelOK, Steps, Void,
            Statuses, Creation, Later, Undecided
      <3>2. TasksFit(c)'
        BY <1>22, <1>0, <2>0, GotoHas, LeaveHas, TakeHas, SetStatusHas, CancelHas
        DEF TrialEnds, ClaimFit, RowFit, TasksFit, TaskFit, Alone, Clean, Others, ClaimsOK, RowType, PanelOK, Steps, Void,
            Statuses, Creation, Later, Undecided
      <3>3. Alone(c)'
        BY <1>22, <1>0, <2>0, GotoHas, LeaveHas, TakeHas, SetStatusHas, CancelHas
        DEF TrialEnds, ClaimFit, RowFit, TasksFit, TaskFit, Alone, Clean, Others, ClaimsOK, RowType, PanelOK, Steps, Void,
            Statuses, Creation, Later, Undecided
      <3>4. Clean(c)'
        BY <1>22, <1>0, <2>0, GotoHas, LeaveHas, TakeHas, SetStatusHas, CancelHas
        DEF TrialEnds, ClaimFit, RowFit, TasksFit, TaskFit, Alone, Clean, Others, ClaimsOK, RowType, PanelOK, Steps, Void,
            Statuses, Creation, Later, Undecided
      <3> QED BY <3>1, <3>2, <3>3, <3>4 DEF ClaimFit
    <2> QED BY <2>0, <2>1, <2>2, <2>3, <1>0, Elsewhere DEF PathInv
  <1>23. ASSUME NEW c \in Claims, GrowsOld(c) PROVE PathInv'
    <2>0. c \in Claims /\ ClaimFit(c)
      BY <1>23, <1>0
    <2>1. TypeOK'
      <3>1. ClaimsOK'
        BY <1>23, <1>0, <2>0, GotoHas, LeaveHas, TakeHas, SetStatusHas, CancelHas DEF GrowsOld, Busy, Procs, ClaimsOK, RowType, Statuses, Void
      <3>2. UnitsOK'
        BY <1>23, <1>0, <2>0 DEF GrowsOld, Busy, Procs, UnitsOK, ClaimsOK, RowType
      <3>3. SetsOK'
        BY <1>23, <1>0, <2>0 DEF GrowsOld, Busy, Procs, SetsOK, ClaimFit, TasksFit, TaskFit
      <3>4. PanelOK'
        BY <1>23, <1>0, <2>0 DEF GrowsOld, Busy, Procs, PanelOK
      <3>5. TasksOK'
        BY <1>23, <1>0, <2>0 DEF GrowsOld, Busy, Procs, TasksOK
      <3> QED BY <3>1, <3>2, <3>3, <3>4, <3>5
         DEF TypeOK, ClaimsOK, UnitsOK, SetsOK, PanelOK, TasksOK, RowType, TaskType
    <2>2. Apart(c)
      BY <1>23, <1>0, <2>0, GotoHas, LeaveHas, TakeHas, SetStatusHas, CancelHas DEF GrowsOld, Busy, Procs, Apart, Same, Others, Rest, ClaimsOK, TasksOK, PanelOK, Steps, Void, Statuses
    <2>3. ClaimFit(c)'
      <3>1. RowFit(c)'
        BY <1>23, <1>0, <2>0, GotoHas, LeaveHas, TakeHas, SetStatusHas, CancelHas
        DEF GrowsOld, Busy, Procs, ClaimFit, RowFit, TasksFit, TaskFit, Alone, Clean, Others, ClaimsOK, RowType, PanelOK, Steps, Void,
            Statuses, Creation, Later, Undecided
      <3>2. TasksFit(c)'
        BY <1>23, <1>0, <2>0, GotoHas, LeaveHas, TakeHas, SetStatusHas, CancelHas
        DEF GrowsOld, Busy, Procs, ClaimFit, RowFit, TasksFit, TaskFit, Alone, Clean, Others, ClaimsOK, RowType, PanelOK, Steps, Void,
            Statuses, Creation, Later, Undecided
      <3>3. Alone(c)'
        BY <1>23, <1>0, <2>0, GotoHas, LeaveHas, TakeHas, SetStatusHas, CancelHas
        DEF GrowsOld, Busy, Procs, ClaimFit, RowFit, TasksFit, TaskFit, Alone, Clean, Others, ClaimsOK, RowType, PanelOK, Steps, Void,
            Statuses, Creation, Later, Undecided
      <3>4. Clean(c)'
        BY <1>23, <1>0, <2>0, GotoHas, LeaveHas, TakeHas, SetStatusHas, CancelHas
        DEF GrowsOld, Busy, Procs, ClaimFit, RowFit, TasksFit, TaskFit, Alone, Clean, Others, ClaimsOK, RowType, PanelOK, Steps, Void,
            Statuses, Creation, Later, Undecided
      <3> QED BY <3>1, <3>2, <3>3, <3>4 DEF ClaimFit
    <2> QED BY <2>0, <2>1, <2>2, <2>3, <1>0, Elsewhere DEF PathInv
  <1>24. ASSUME NEW c \in Claims, Convert(c) PROVE PathInv'
    <2>0. c \in Claims /\ ClaimFit(c)
      BY <1>24, <1>0
    <2>1. TypeOK'
      <3>1. ClaimsOK'
        BY <1>24, <1>0, <2>0, GotoHas, LeaveHas, TakeHas, SetStatusHas, CancelHas DEF Convert, ClaimsOK, RowType, Statuses, Void
      <3>2. UnitsOK'
        BY <1>24, <1>0, <2>0 DEF Convert, UnitsOK, ClaimsOK, RowType
      <3>3. SetsOK'
        BY <1>24, <1>0, <2>0 DEF Convert, SetsOK, ClaimFit, TasksFit, TaskFit
      <3>4. PanelOK'
        BY <1>24, <1>0, <2>0 DEF Convert, PanelOK
      <3>5. TasksOK'
        BY <1>24, <1>0, <2>0 DEF Convert, TasksOK
      <3> QED BY <3>1, <3>2, <3>3, <3>4, <3>5
         DEF TypeOK, ClaimsOK, UnitsOK, SetsOK, PanelOK, TasksOK, RowType, TaskType
    <2>2. Apart(c)
      BY <1>24, <1>0, <2>0, GotoHas, LeaveHas, TakeHas, SetStatusHas, CancelHas DEF Convert, Apart, Same, Others, Rest, ClaimsOK, TasksOK, PanelOK, Steps, Void, Statuses
    <2>3. ClaimFit(c)'
      <3>1. RowFit(c)'
        BY <1>24, <1>0, <2>0, GotoHas, LeaveHas, TakeHas, SetStatusHas, CancelHas
        DEF Convert, ClaimFit, RowFit, TasksFit, TaskFit, Alone, Clean, Others, ClaimsOK, RowType, PanelOK, Steps, Void,
            Statuses, Creation, Later, Undecided
      <3>2. TasksFit(c)'
        BY <1>24, <1>0, <2>0, GotoHas, LeaveHas, TakeHas, SetStatusHas, CancelHas
        DEF Convert, ClaimFit, RowFit, TasksFit, TaskFit, Alone, Clean, Others, ClaimsOK, RowType, PanelOK, Steps, Void,
            Statuses, Creation, Later, Undecided
      <3>3. Alone(c)'
        BY <1>24, <1>0, <2>0, GotoHas, LeaveHas, TakeHas, SetStatusHas, CancelHas
        DEF Convert, ClaimFit, RowFit, TasksFit, TaskFit, Alone, Clean, Others, ClaimsOK, RowType, PanelOK, Steps, Void,
            Statuses, Creation, Later, Undecided
      <3>4. Clean(c)'
        BY <1>24, <1>0, <2>0, GotoHas, LeaveHas, TakeHas, SetStatusHas, CancelHas
        DEF Convert, ClaimFit, RowFit, TasksFit, TaskFit, Alone, Clean, Others, ClaimsOK, RowType, PanelOK, Steps, Void,
            Statuses, Creation, Later, Undecided
      <3> QED BY <3>1, <3>2, <3>3, <3>4 DEF ClaimFit
    <2> QED BY <2>0, <2>1, <2>2, <2>3, <1>0, Elsewhere DEF PathInv
  <1>25. ASSUME NEW w \in Procs, ReleaseAllowance(w) PROVE PathInv'
    <2>0. PICK c \in Claims : c = ClaimOf(w) /\ ClaimFit(c)
      BY <1>25, <1>0 DEF ReleaseAllowance
    <2>1. PICK m \in BOOLEAN : m = (claim[c].status \in {"FAILED", "CANCELLED"} /\ ~claim[c].released)
      OBVIOUS
    <2>2. /\ claim' = [claim EXCEPT ![c].released = @ \/ m]
          /\ consumed' = [consumed EXCEPT ![claim[c].user] =
                            IF m /\ claim[c].fund = "grant" /\ @ > 0 THEN @ - 1 ELSE @]
          /\ Leave(w)
          /\ UNCHANGED <<ended, service, lapsed, converted, panel, time, crashes, disputed>>
      BY <1>25, <2>0, <2>1 DEF ReleaseAllowance
    <2>3. /\ ClaimsOK' /\ Rest(c)
          /\ claim'[c].status = claim[c].status /\ claim'[c].user = claim[c].user
          /\ claim'[c].fund = claim[c].fund /\ claim'[c].released = (claim[c].released \/ m)
      BY <2>2, <1>0, ReleasedHas
    <2>4. TasksOK' /\ Others(w) /\ task'[w].pc = "idle" /\ task'[w].claim = NoClaim
      BY <2>2, <1>0, LeaveHas
    <2>5. UnitsOK'
      <3>0. UNCHANGED ended
        BY <2>2
      <3>1. CASE m
        <4>1. consumed' = [consumed EXCEPT ![claim[c].user] =
                             IF claim[c].fund = "grant" /\ @ > 0 THEN @ - 1 ELSE @]
          BY <3>1, <2>2, Zenon
        <4>2. consumed \in [Users -> Nat] /\ ended \subseteq Users
          BY <1>0 DEF UnitsOK
        <4>3. \A u \in Users : (IF claim[c].fund = "grant" /\ consumed[u] > 0
                                THEN consumed[u] - 1 ELSE consumed[u]) \in Nat
          BY <4>2
        <4>4. consumed' \in [Users -> Nat]
          BY <4>1, <4>2, <4>3
        <4> QED BY <4>2, <4>4, <3>0 DEF UnitsOK
      <3>2. CASE ~m
        <4>1. consumed' = [consumed EXCEPT ![claim[c].user] = @]
          BY <3>2, <2>2, Zenon
        <4> QED BY <4>1, <3>0, <1>0 DEF UnitsOK
      <3> QED BY <3>1, <3>2
    <2>6. TypeOK'
      BY <2>2, <2>3, <2>4, <2>5, <1>0
      DEF TypeOK, ClaimsOK, UnitsOK, SetsOK, PanelOK, TasksOK, RowType, TaskType
    <2>7. Apart(c)
      BY <2>2, <2>3, <2>4, <2>0 DEF Apart, Same, Others, Rest
    <2>8. RowFit(c)'
      <3>1. m => claim[c].status \in Void
        BY <2>1 DEF Void
      <3>2. claim[c].status # "NONE"
        BY <1>25, <2>0 DEF ReleaseAllowance, ClaimFit, TasksFit, TaskFit
      <3> QED BY <3>1, <3>2, <2>0, <2>2, <2>3 DEF ClaimFit, RowFit
    <2>9. TasksFit(c)' /\ Alone(c)' /\ Clean(c)'
      BY <2>0, <2>2, <2>3, <2>4 DEF ClaimFit, TasksFit, TaskFit, Alone, Clean, Others, Creation
    <2> QED BY <2>0, <2>6, <2>7, <2>8, <2>9, <1>0, Elsewhere DEF PathInv, ClaimFit
  <1>26. ASSUME NEW u \in Users, GrantEnds(u) PROVE PathInv'
    BY <1>26, <1>0 DEF GrantEnds, PathInv, TypeOK, RowType, TaskType, ClaimsOK, UnitsOK, SetsOK, PanelOK, TasksOK,
       ClaimFit, RowFit, TasksFit, TaskFit, Alone, Clean, ClaimOf
  <1>27. CASE BotCrash
    <2>1. TypeOK'
      <3>1. PanelOK'
        BY <1>27, <1>0 DEF BotCrash, PanelOK
      <3>2. TasksOK'
        BY <1>27 DEF BotCrash, TasksOK, TaskType, IdleTask, Steps, ClaimOf
      <3> QED BY <3>1, <3>2, <1>27, <1>0
         DEF BotCrash, TypeOK, ClaimsOK, UnitsOK, SetsOK, PanelOK, TasksOK, RowType, TaskType
    <2>2. \A c \in Claims : ClaimFit(c)'
      BY <1>27, <1>0 DEF BotCrash, ClaimFit, RowFit, TasksFit, TaskFit, Alone, Clean, ClaimOf, IdleTask
    <2> QED BY <2>1, <2>2 DEF PathInv
  <1>28. CASE UNCHANGED vars
    BY <1>28 DEF vars, PathInv, TypeOK, ClaimFit, RowFit, TasksFit, TaskFit, Alone, Clean, ClaimOf
  <1> QED
    BY <1>1, <1>2, <1>3, <1>4, <1>5, <1>6, <1>7, <1>8, <1>9, <1>10, <1>11, <1>12, <1>13, <1>14, <1>15, <1>16, <1>17, <1>18, <1>19, <1>20, <1>21, <1>22, <1>23, <1>24, <1>25, <1>26, <1>27, <1>28
       DEF Next, SweepStep, Step, Procs

LEMMA PathAlways == Spec => []PathInv
  BY PathInit, PathStep, PTL DEF Spec

-----------------------------------------------------------------------------
(* Units.                                                                  *)

Receipts(u) == {c \in Of(u) : claim[c].fund = "grant" /\ ~claim[c].released}
Defaults(u) == {c \in Of(u) \cap Status(Consuming) : claim[c].fund = "default"}

UnitsFit == \A u \in Users :
    /\ consumed[u] = Cardinality(Receipts(u))
    /\ consumed[u] <= Grant[u]
    /\ Cardinality(Defaults(u)) <= Default

(* Only an insertion or a release touches a unit; apart from them a claim  *)
(* keeps its fund, and a void one stays void.                              *)
Quiet ==
    /\ consumed' = consumed
    /\ \A c \in Claims : /\ claim'[c].user = claim[c].user /\ claim'[c].fund = claim[c].fund
                         /\ claim'[c].released = claim[c].released
                         /\ claim'[c].status \in Consuming => claim[c].status \in Consuming

LEMMA StatusQuiet ==
    ASSUME ClaimsOK, UNCHANGED consumed, NEW c \in Claims, claim'[c].user = claim[c].user,
           claim'[c].fund = claim[c].fund, claim'[c].released = claim[c].released, Rest(c),
           claim'[c].status \in Consuming => claim[c].status \in Consuming
    PROVE  Quiet
  BY DEF Quiet, Rest

LEMMA CancelQuiet ==
    ASSUME ClaimsOK, TasksOK, UNCHANGED consumed, NEW w \in Procs, NEW c \in Claims, NEW from,
           NEW to \in Void, CancelSafely(w, c, from, to)
    PROVE  Quiet
  <1>1. to \notin Consuming
    BY DEF Void, Consuming
  <1> QED BY <1>1, CancelHas, StatusQuiet

LEMMA SetQuiet ==
    ASSUME ClaimsOK, UNCHANGED consumed, NEW c \in Claims, NEW from \in SUBSET Consuming,
           NEW to \in Statuses, SetStatus(c, from, to)
    PROVE  Quiet
  BY SetStatusHas, StatusQuiet

LEMMA StillQuiet == UNCHANGED <<claim, consumed>> => Quiet
  BY DEF Quiet

LEMMA UnitSteps ==
    ASSUME PathInv, [Next]_vars
    PROVE  \/ Quiet
           \/ \E w \in Procs, c \in Claims, u \in Users : InsertClaim(w, c, u)
           \/ \E w \in Procs : ReleaseAllowance(w)
  <1>0. /\ ClaimsOK /\ TasksOK /\ Sweep \in Procs
        /\ \A w \in Procs : ~At(w, "idle") => ClaimOf(w) \in Claims
    BY TypeParts DEF PathInv, TasksOK, TaskType, At, ClaimOf, Procs
  <1>s. /\ "CANCELLED" \in Void /\ "FAILED" \in Void /\ Void \in SUBSET Statuses
        /\ Consuming \in SUBSET Statuses /\ Undecided \in SUBSET Consuming
        /\ {"PROVISIONING"} \in SUBSET Consuming /\ {"CLAIMED"} \in SUBSET Consuming
        /\ {"ACTIVE"} \in SUBSET Consuming
        /\ {"ACTIVE", "EXPIRED", "PROVISIONING", "MANUAL_REVIEW", "CANCELLED"} \in SUBSET Statuses
    BY DEF Void, Statuses, Consuming, Undecided
  <1>1. ASSUME NEW w \in Procs, DecideCapacity(w) PROVE Quiet
    <2>1. PICK c \in Claims : c = ClaimOf(w)
      BY <1>1, <1>0 DEF DecideCapacity, At
    <2> QED BY <1>1, <2>1, <1>0, <1>s, SetQuiet, StillQuiet DEF DecideCapacity, rows
  <1>2. ASSUME NEW w \in Procs, StartProvisioning(w) PROVE Quiet
    <2>1. PICK c \in Claims : c = ClaimOf(w)
      BY <1>2, <1>0 DEF StartProvisioning, At
    <2> QED BY <1>2, <2>1, <1>0, <1>s, SetQuiet, CancelQuiet DEF StartProvisioning, rows
  <1>3. ASSUME NEW w \in Procs, AcquireLock(w) PROVE Quiet
    <2>1. PICK c \in Claims : c = ClaimOf(w)
      BY <1>3, <1>0 DEF AcquireLock, At
    <2> QED BY <1>3, <2>1, <1>0, <1>s, StillQuiet, CancelQuiet DEF AcquireLock, rows
  <1>4. ASSUME NEW w \in Procs, CreateRefused(w) PROVE Quiet
    <2>1. PICK c \in Claims : c = ClaimOf(w)
      BY <1>4, <1>0 DEF CreateRefused, At
    <2> QED BY <1>4, <2>1, <1>0, <1>s, CancelQuiet DEF CreateRefused, rows
  <1>5. ASSUME NEW w \in Procs, PersistTrial(w) PROVE Quiet
    <2>1. PICK c \in Claims : c = ClaimOf(w)
      BY <1>5, <1>0 DEF PersistTrial, At
    <2> QED BY <1>5, <2>1, <1>0, <1>s, SetQuiet, StillQuiet DEF PersistTrial, rows
  <1>6. ASSUME NEW w \in Procs, FailAbsent(w) PROVE Quiet
    <2>1. PICK c \in Claims : c = ClaimOf(w)
      BY <1>6, <1>0 DEF FailAbsent, At
    <2> QED BY <1>6, <2>1, <1>0, <1>s, CancelQuiet DEF FailAbsent, rows
  <1>7. ASSUME NEW w \in Procs, Escalate(w) PROVE Quiet
    <2>1. PICK c \in Claims : c = ClaimOf(w)
      BY <1>7, <1>0 DEF Escalate, At
    <2> QED BY <1>7, <2>1, <1>0, <1>s, SetQuiet, StillQuiet DEF Escalate, rows
  <1>8. ASSUME ExpireClaim PROVE Quiet
    <2>1. PICK c \in Claims : c = ClaimOf(Sweep)
      BY <1>8, <1>0 DEF ExpireClaim, At
    <2> QED BY <1>8, <2>1, <1>0, <1>s, SetQuiet DEF ExpireClaim
  <1>9. ASSUME NEW w \in Procs, NEW c \in Claims, ForceNotCreated(w, c) PROVE Quiet
    BY <1>9, <1>0, <1>s, CancelQuiet DEF ForceNotCreated
  <1>10. ASSUME NEW c \in Claims, CancelStale(c) PROVE Quiet
    BY <1>10, <1>0, <1>s, CancelQuiet DEF CancelStale
  <1>11. CASE UNCHANGED <<claim, consumed>>
    BY <1>11, StillQuiet
  <1>12. \/ UNCHANGED <<claim, consumed>>
         \/ \E w \in Procs : \/ DecideCapacity(w) \/ ReleaseAllowance(w) \/ StartProvisioning(w)
                             \/ AcquireLock(w) \/ CreateRefused(w) \/ PersistTrial(w)
                             \/ FailAbsent(w) \/ Escalate(w)
         \/ ExpireClaim \/ \E c \in Claims : CancelStale(c)
         \/ \E w \in Procs, c \in Claims :
                \/ ForceNotCreated(w, c) \/ \E u \in Users : InsertClaim(w, c, u)
    BY Zenon DEF Next, SweepStep, Step, Procs, vars, rows, At, SendCreate, CreateConfirmed, CreateUnknown, ProbePanel, ExpireService,
       DisableAccount, StartReconcile, CreateLands, CreateIsLost, StartExpiry, TrialEnds, GrowsOld,
       Convert, GrantEnds, BotCrash
  <1> QED BY <1>1, <1>2, <1>3, <1>4, <1>5, <1>6, <1>7, <1>8, <1>9, <1>10, <1>11, <1>12

LEMMA FiniteParts == \A S \in SUBSET Claims : IsFiniteSet(S) /\ Cardinality(S) \in Nat
  BY FS_Subset, FS_CardinalityType

(* Every step keeps the units of every user accounted for.                 *)
LEMMA UnitsStep == PathInv /\ UnitsFit /\ [Next]_vars => UnitsFit'
  <1> SUFFICES ASSUME PathInv, UnitsFit, [Next]_vars PROVE UnitsFit'
    OBVIOUS
  <1>0. /\ ClaimsOK /\ UnitsOK /\ TasksOK
        /\ \A w \in Procs : ~At(w, "idle") => ClaimOf(w) \in Claims
        /\ \A c \in Claims : RowFit(c)
    BY TypeParts DEF PathInv, ClaimFit, TasksOK, TaskType, At, ClaimOf
  <1>f. \A u : Receipts(u) \in SUBSET Claims /\ Defaults(u) \in SUBSET Claims
    BY DEF Receipts, Defaults, Of
  <1>1. CASE Quiet
    <2> SUFFICES ASSUME NEW u \in Users
                 PROVE  /\ consumed'[u] = Cardinality(Receipts(u)') /\ consumed'[u] <= Grant[u]
                        /\ Cardinality(Defaults(u)') <= Default
      BY DEF UnitsFit
    <2>1. Receipts(u)' = Receipts(u) /\ Defaults(u)' \in SUBSET Defaults(u)
      BY <1>1 DEF Quiet, Receipts, Defaults, Of, Status
    <2>2. Cardinality(Defaults(u)') <= Cardinality(Defaults(u))
      BY <2>1, <1>f, FiniteParts, FS_Subset
    <2>3. Cardinality(Defaults(u)') \in Nat /\ Cardinality(Defaults(u)) \in Nat
      BY <2>1, <1>f, FiniteParts
    <2>4. consumed'[u] = consumed[u]
      BY <1>1 DEF Quiet
    <2> QED BY <2>1, <2>2, <2>3, <2>4 DEF UnitsFit
  <1>2. ASSUME NEW w \in Procs, NEW c \in Claims, NEW x \in Users, InsertClaim(w, c, x)
        PROVE  UnitsFit'
    <2> DEFINE fund == IF GrantUsable(x) THEN "grant" ELSE "default"
    <2>1. /\ claim' = [claim EXCEPT ![c] = [status |-> "CLAIMED", user |-> x, released |-> FALSE,
                                            fund |-> fund]]
          /\ consumed' = [consumed EXCEPT ![x] = IF GrantUsable(x) THEN @ + 1 ELSE @]
          /\ claim[c] = NoRow
          /\ GrantUsable(x) \/ DefaultUsed(x) < Default
      BY <1>2, <1>0 DEF InsertClaim, RowFit
    <2>2. /\ claim'[c] = [status |-> "CLAIMED", user |-> x, released |-> FALSE, fund |-> fund]
          /\ \A d \in Claims \ {c} : claim'[d] = claim[d]
      BY <2>1, <1>0 DEF ClaimsOK
    <2>3. \A u \in Users : c \notin Receipts(u) /\ c \notin Defaults(u)
      BY <2>1 DEF Receipts, Defaults, Of, NoRow
    <2>4. ASSUME NEW u \in Users, u # x
          PROVE  /\ consumed'[u] = Cardinality(Receipts(u)') /\ consumed'[u] <= Grant[u]
                 /\ Cardinality(Defaults(u)') <= Default
      <3>1. Receipts(u)' = Receipts(u) /\ Defaults(u)' = Defaults(u)
        BY <2>2, <2>3, <2>4 DEF Receipts, Defaults, Of, Status
      <3>2. consumed'[u] = consumed[u]
        BY <2>1, <2>4, <1>0 DEF UnitsOK
      <3> QED BY <3>1, <3>2 DEF UnitsFit
    <2>5. CASE GrantUsable(x)
      <3>1. Receipts(x)' = Receipts(x) \cup {c} /\ Defaults(x)' = Defaults(x)
        BY <2>2, <2>3, <2>5 DEF Receipts, Defaults, Of, Status
      <3>2. Cardinality(Receipts(x)') = Cardinality(Receipts(x)) + 1
        BY <3>1, <2>3, <1>f, FiniteParts, FS_AddElement
      <3>3. consumed'[x] = consumed[x] + 1 /\ consumed[x] < Grant[x] /\ consumed[x] \in Nat
        BY <2>1, <2>5, <1>0 DEF UnitsOK, GrantUsable
      <3> QED BY <2>4, <3>1, <3>2, <3>3 DEF UnitsFit
    <2>6. CASE ~GrantUsable(x)
      <3>1. Receipts(x)' = Receipts(x) /\ Defaults(x)' = Defaults(x) \cup {c}
        BY <2>2, <2>3, <2>6 DEF Receipts, Defaults, Of, Status, Consuming
      <3>2. Cardinality(Defaults(x)') = Cardinality(Defaults(x)) + 1 /\ Cardinality(Defaults(x)) \in Nat
        BY <3>1, <2>3, <1>f, FiniteParts, FS_AddElement
      <3>3. consumed'[x] = consumed[x] /\ Cardinality(Defaults(x)) < Default
        BY <2>1, <2>6, <1>0 DEF UnitsOK, DefaultUsed, Defaults
      <3>4. consumed[x] = Cardinality(Receipts(x)) /\ consumed[x] <= Grant[x] /\ Default \in Nat
        BY DEF UnitsFit
      <3>5. /\ consumed'[x] = Cardinality(Receipts(x)') /\ consumed'[x] <= Grant[x]
            /\ Cardinality(Defaults(x)') <= Default
        BY <3>1, <3>2, <3>3, <3>4
      <3> QED BY <2>4, <3>5 DEF UnitsFit
    <2> QED BY <2>5, <2>6
  <1>3. ASSUME NEW w \in Procs, ReleaseAllowance(w) PROVE UnitsFit'
    <2>0. PICK c \in Claims : c = ClaimOf(w) /\ ClaimFit(c)
      BY <1>3, <1>0 DEF ReleaseAllowance, At, PathInv
    <2>1. PICK m \in BOOLEAN : m = (claim[c].status \in {"FAILED", "CANCELLED"} /\ ~claim[c].released)
      OBVIOUS
    <2>2. /\ claim' = [claim EXCEPT ![c].released = @ \/ m]
          /\ consumed' = [consumed EXCEPT ![claim[c].user] =
                            IF m /\ claim[c].fund = "grant" /\ @ > 0 THEN @ - 1 ELSE @]
      BY <1>3, <2>0, <2>1 DEF ReleaseAllowance
    <2>3. /\ Rest(c) /\ claim'[c].status = claim[c].status /\ claim'[c].user = claim[c].user
          /\ claim'[c].fund = claim[c].fund /\ claim'[c].released = (claim[c].released \/ m)
      BY <2>2, <1>0, ReleasedHas
    <2>4. claim[c].user \in Users
      BY <1>3, <2>0 DEF ReleaseAllowance, ClaimFit, TasksFit, TaskFit, RowFit
    <2>5. \A u \in Users : Defaults(u)' = Defaults(u)
      BY <2>3 DEF Defaults, Of, Status, Rest
    <2>6. CASE m /\ claim[c].fund = "grant"
      <3>0. PICK x \in Users : x = claim[c].user
        BY <2>4
      <3>1. c \in Receipts(x)
        BY <2>6, <2>1, <3>0 DEF Receipts, Of
      <3>2. Receipts(x)' = Receipts(x) \ {c}
        BY <2>3, <2>6, <3>0 DEF Receipts, Of, Rest
      <3>3. \A u \in Users \ {x} : Receipts(u)' = Receipts(u)
        BY <2>3, <3>0 DEF Receipts, Of, Rest
      <3>4. /\ Cardinality(Receipts(x)') = Cardinality(Receipts(x)) - 1
            /\ Cardinality(Receipts(x)) \in Nat /\ Cardinality(Receipts(x)') \in Nat
        BY <3>1, <3>2, <1>f, FiniteParts, FS_RemoveElement
      <3>5. consumed' = [consumed EXCEPT ![x] = IF @ > 0 THEN @ - 1 ELSE @]
        BY <2>2, <2>6, <3>0, Zenon
      <3>6. /\ consumed[x] = Cardinality(Receipts(x)) /\ consumed[x] <= Grant[x]
            /\ Cardinality(Defaults(x)) <= Default
        BY DEF UnitsFit
      <3>7. consumed[x] > 0
        BY <3>4, <3>6
      <3>8. /\ consumed'[x] = consumed[x] - 1
            /\ \A u \in Users \ {x} : consumed'[u] = consumed[u]
            /\ \A u \in Users : consumed[u] \in Nat
        BY <3>5, <3>7, <1>0 DEF UnitsOK
      <3>9. /\ consumed'[x] = Cardinality(Receipts(x)') /\ consumed'[x] <= Grant[x]
            /\ Cardinality(Defaults(x)') <= Default
        BY <3>4, <3>6, <3>8, <2>5
      <3>10. ASSUME NEW u \in Users \ {x}
             PROVE  /\ consumed'[u] = Cardinality(Receipts(u)') /\ consumed'[u] <= Grant[u]
                    /\ Cardinality(Defaults(u)') <= Default
        BY <3>3, <3>8, <2>5 DEF UnitsFit
      <3> QED BY <3>9, <3>10 DEF UnitsFit
    <2>7. CASE ~(m /\ claim[c].fund = "grant")
      <3>1. \A u \in Users : Receipts(u)' = Receipts(u)
        BY <2>3, <2>7 DEF Receipts, Of, Rest
      <3>2. consumed' = [consumed EXCEPT ![claim[c].user] = @]
        BY <2>2, <2>7, Zenon
      <3>3. \A u \in Users : consumed'[u] = consumed[u]
        BY <3>2, <1>0 DEF UnitsOK
      <3> QED BY <3>1, <3>3, <2>5 DEF UnitsFit
    <2> QED BY <2>6, <2>7
  <1> QED BY <1>1, <1>2, <1>3, UnitSteps

LEMMA UnitsInit == Init => UnitsFit
  <1> SUFFICES ASSUME Init PROVE UnitsFit
    OBVIOUS
  <1>1. \A u \in Users : Receipts(u) = {} /\ Defaults(u) = {}
    BY DEF Init, Receipts, Defaults, Of, NoRow
  <1>2. Cardinality({}) = 0
    BY FS_EmptySet
  <1>3. \A u \in Users : consumed[u] = 0 /\ Grant[u] \in Nat
    BY DEF Init
  <1> QED BY <1>1, <1>2, <1>3 DEF UnitsFit

LEMMA UnitsAlways == Spec => [](PathInv /\ UnitsFit)
  BY PathInit, PathStep, UnitsInit, UnitsStep, PTL DEF Spec

-----------------------------------------------------------------------------
(* Capacity.                                                               *)

(* A claim that passed the capacity check counts from there on until it is *)
(* void or past its expiry.                                                *)
Passed   == {c \in Status({"CLAIMED"}) : \E w \in Procs : At(w, "provision") /\ ClaimOf(w) = c}
Admitted == Status(Undecided) \cup (Status({"ACTIVE"}) \ past) \cup Passed
AdmittedFit == Cardinality(Admitted) <= Capacity

(* A claim whose status moves was admitted already or leaves for good.     *)
Onward(c) ==
    \/ claim'[c].status = claim[c].status
    \/ claim'[c].status \notin Undecided \cup {"ACTIVE", "CLAIMED"}
    \/ claim'[c].status # "CLAIMED" /\ c \in Admitted

Narrows == Admitted' \subseteq Admitted

LEMMA NarrowsHas ==
    ASSUME past \subseteq past', \A d \in Claims : Onward(d),
           \A w \in Procs : task'[w].pc = "provision" => task'[w] = task[w]
    PROVE  Narrows
  <1> SUFFICES ASSUME NEW d \in Claims, d \in Admitted' PROVE d \in Admitted
    BY DEF Narrows, Admitted, Passed, Status
  <1>1. CASE claim'[d].status = "CLAIMED"
    <2>1. claim[d].status = "CLAIMED"
      BY <1>1 DEF Onward, Undecided
    <2>2. d \in Passed'
      BY <1>1 DEF Admitted, Passed, Status, Undecided
    <2>3. PICK w \in Procs : task'[w].pc = "provision" /\ task'[w].claim = d
      BY <2>2 DEF Passed, At, ClaimOf
    <2>4. task[w].pc = "provision" /\ task[w].claim = d
      BY <2>3
    <2> QED BY <2>1, <2>4 DEF Admitted, Passed, Status, At, ClaimOf
  <1>2. CASE claim'[d].status # "CLAIMED"
    BY <1>2 DEF Onward, Admitted, Passed, Status, Undecided
  <1> QED BY <1>1, <1>2

(* A step of one process with one claim.                                   *)
LEMMA MoverNarrows ==
    ASSUME NEW w \in Procs, Others(w), task'[w].pc # "provision", past \subseteq past',
           NEW c \in Claims, Rest(c), Onward(c)
    PROVE  Narrows
  BY NarrowsHas DEF Others, Rest, Onward

LEMMA ReaderNarrows ==
    ASSUME NEW w \in Procs, Others(w), task'[w].pc # "provision", UNCHANGED <<claim, past>>
    PROVE  Narrows
  BY NarrowsHas DEF Others, Onward

LEMMA IdlersNarrow ==
    ASSUME UNCHANGED <<claim, task>>, past \subseteq past'
    PROVE  Narrows
  BY NarrowsHas DEF Onward

LEMMA CancelNarrows ==
    ASSUME ClaimsOK, TasksOK, UNCHANGED past, NEW w \in Procs, NEW c \in Claims, NEW from,
           NEW to \in Void, CancelSafely(w, c, from, to)
    PROVE  Narrows
  <1>1. to \notin Undecided \cup {"ACTIVE", "CLAIMED"}
    BY DEF Void, Undecided
  <1>2. /\ Rest(c) /\ Others(w) /\ task'[w].pc # "provision"
        /\ claim'[c].status = to \/ claim'[c].status = claim[c].status
    BY CancelHas
  <1> QED BY <1>1, <1>2, MoverNarrows DEF Onward

LEMMA CapacitySteps ==
    ASSUME PathInv, [Next]_vars
    PROVE  Narrows \/ \E w \in Procs : DecideCapacity(w)
  <1>0. /\ ClaimsOK /\ TasksOK /\ Sweep \in Procs /\ \A c \in Claims : ClaimFit(c)
        /\ \A w \in Procs : ~At(w, "idle") => ClaimOf(w) \in Claims
    BY TypeParts DEF PathInv, TasksOK, TaskType, At, ClaimOf, Procs
  <1>s. "CANCELLED" \in Void /\ "FAILED" \in Void /\ Void \in SUBSET Statuses
    BY DEF Void, Statuses
  <1>1. ASSUME NEW w \in Procs, StartProvisioning(w) PROVE Narrows
    <2>1. PICK c \in Claims : c = ClaimOf(w)
      BY <1>1, <1>0 DEF StartProvisioning, At
    <2>2. UNCHANGED past
      BY <1>1 DEF StartProvisioning
    <2>3. CASE CancelSafely(w, c, {"CLAIMED", "PROVISIONING"}, "CANCELLED")
      BY <2>2, <2>3, <1>0, <1>s, CancelNarrows
    <2>4. CASE SetStatus(c, {"CLAIMED"}, "PROVISIONING") /\ Goto(w, "lock")
      <3>1. /\ Rest(c) /\ claim'[c].status = IF claim[c].status = "CLAIMED" THEN "PROVISIONING"
                                             ELSE claim[c].status
        BY <2>4, <1>0, SetStatusHas DEF Statuses
      <3>2. Others(w) /\ task'[w].pc = "lock"
        BY <2>4, <1>1, <1>0, GotoHas DEF StartProvisioning, Steps, At
      <3>3. claim[c].status = "CLAIMED" => c \in Admitted
        BY <1>1, <2>1 DEF StartProvisioning, Admitted, Passed, Status
      <3> QED BY <3>1, <3>2, <3>3, <2>2, MoverNarrows DEF Onward
    <2> QED BY <1>1, <2>1, <2>3, <2>4 DEF StartProvisioning
  <1>2. ASSUME NEW w \in Procs, AcquireLock(w) PROVE Narrows
    <2>1. PICK c \in Claims : c = ClaimOf(w)
      BY <1>2, <1>0 DEF AcquireLock, At
    <2>2. UNCHANGED past
      BY <1>2 DEF AcquireLock, time
    <2>3. CASE CancelSafely(w, c, {"CLAIMED", "PROVISIONING"}, "CANCELLED")
      BY <2>2, <2>3, <1>0, <1>s, CancelNarrows
    <2>4. CASE Leave(w) /\ UNCHANGED claim
      BY <2>2, <2>4, <1>0, LeaveHas, ReaderNarrows
    <2>5. CASE Goto(w, "create") /\ UNCHANGED claim
      <3>1. Others(w) /\ task'[w].pc = "create"
        BY <2>5, <1>2, <1>0, GotoHas DEF AcquireLock, Steps, At
      <3> QED BY <2>2, <2>5, <3>1, ReaderNarrows
    <2> QED BY <1>2, <2>1, <2>3, <2>4, <2>5 DEF AcquireLock
  <1>3. ASSUME NEW w \in Procs, CreateRefused(w) PROVE Narrows
    <2>1. PICK c \in Claims : c = ClaimOf(w)
      BY <1>3, <1>0 DEF CreateRefused, At
    <2> QED BY <1>3, <2>1, <1>0, <1>s, CancelNarrows DEF CreateRefused, time
  <1>4. ASSUME NEW w \in Procs, FailAbsent(w) PROVE Narrows
    <2>1. PICK c \in Claims : c = ClaimOf(w)
      BY <1>4, <1>0 DEF FailAbsent, At
    <2> QED BY <1>4, <2>1, <1>0, <1>s, CancelNarrows DEF FailAbsent, time
  <1>5. ASSUME NEW w \in Procs, NEW c \in Claims, ForceNotCreated(w, c) PROVE Narrows
    BY <1>5, <1>0, <1>s, CancelNarrows DEF ForceNotCreated, time
  <1>6. ASSUME NEW c \in Claims, CancelStale(c) PROVE Narrows
    BY <1>6, <1>0, <1>s, CancelNarrows DEF CancelStale, time
  <1>7. ASSUME NEW w \in Procs, PersistTrial(w) PROVE Narrows
    <2>1. PICK c \in Claims : c = ClaimOf(w)
      BY <1>7, <1>0 DEF PersistTrial, At
    <2>2. UNCHANGED past /\ Leave(w) /\ (UNCHANGED claim \/ SetStatus(c, Undecided, "ACTIVE"))
      BY <1>7, <2>1 DEF PersistTrial, time
    <2>3. Others(w) /\ task'[w].pc = "idle"
      BY <2>2, <1>0, LeaveHas
    <2>4. CASE UNCHANGED claim
      BY <2>2, <2>3, <2>4, ReaderNarrows
    <2>5. CASE SetStatus(c, Undecided, "ACTIVE")
      <3>1. /\ Rest(c) /\ claim'[c].status = IF claim[c].status \in Undecided THEN "ACTIVE"
                                             ELSE claim[c].status
        BY <2>5, <1>0, SetStatusHas DEF Statuses
      <3>2. claim[c].status \in Undecided => c \in Admitted
        BY DEF Admitted, Status, Undecided
      <3> QED BY <3>1, <3>2, <2>2, <2>3, MoverNarrows DEF Onward
    <2> QED BY <2>2, <2>4, <2>5
  <1>8. ASSUME NEW w \in Procs, Escalate(w) PROVE Narrows
    <2>1. PICK c \in Claims : c = ClaimOf(w)
      BY <1>8, <1>0 DEF Escalate, At
    <2>2. UNCHANGED past /\ Leave(w) /\ (UNCHANGED claim \/ SetStatus(c, {"PROVISIONING"}, "MANUAL_REVIEW"))
      BY <1>8, <2>1 DEF Escalate, time
    <2>3. Others(w) /\ task'[w].pc = "idle"
      BY <2>2, <1>0, LeaveHas
    <2>4. CASE UNCHANGED claim
      BY <2>2, <2>3, <2>4, ReaderNarrows
    <2>5. CASE SetStatus(c, {"PROVISIONING"}, "MANUAL_REVIEW")
      <3>1. /\ Rest(c) /\ claim'[c].status = IF claim[c].status \in {"PROVISIONING"} THEN "MANUAL_REVIEW"
                                             ELSE claim[c].status
        BY <2>5, <1>0, SetStatusHas DEF Statuses
      <3>2. claim[c].status \in {"PROVISIONING"} => c \in Admitted
        BY DEF Admitted, Status, Undecided
      <3> QED BY <3>1, <3>2, <2>2, <2>3, MoverNarrows DEF Onward
    <2> QED BY <2>2, <2>4, <2>5
  <1>9. ASSUME ExpireClaim PROVE Narrows
    <2>1. PICK c \in Claims : c = ClaimOf(Sweep)
      BY <1>9, <1>0 DEF ExpireClaim, At
    <2>2. /\ Rest(c) /\ claim'[c].status = IF claim[c].status = "ACTIVE" THEN "EXPIRED"
                                           ELSE claim[c].status
      BY <1>9, <2>1, <1>0, SetStatusHas DEF ExpireClaim, Statuses
    <2>3. Others(Sweep) /\ task'[Sweep].pc # "provision"
      BY <1>9, <1>0, GotoHas, LeaveHas DEF ExpireClaim, Steps, At
    <2> QED BY <1>9, <2>2, <2>3, <1>0, MoverNarrows DEF ExpireClaim, time, Onward, Undecided
  <1>10. ASSUME NEW w \in Procs, ReleaseAllowance(w) PROVE Narrows
    <2>1. PICK c \in Claims : c = ClaimOf(w)
      BY <1>10, <1>0 DEF ReleaseAllowance, At
    <2>2. PICK m \in BOOLEAN : m = (claim[c].status \in {"FAILED", "CANCELLED"} /\ ~claim[c].released)
      OBVIOUS
    <2>3. claim' = [claim EXCEPT ![c].released = @ \/ m]
      BY <1>10, <2>1, <2>2 DEF ReleaseAllowance
    <2>4. Rest(c) /\ claim'[c].status = claim[c].status
      BY <2>3, <1>0, ReleasedHas
    <2>5. Others(w) /\ task'[w].pc = "idle" /\ UNCHANGED past
      BY <1>10, <1>0, LeaveHas DEF ReleaseAllowance, time
    <2> QED BY <2>4, <2>5, MoverNarrows DEF Onward
  <1>11. ASSUME NEW w \in Procs, NEW c \in Claims, NEW u \in Users, InsertClaim(w, c, u) PROVE Narrows
    <2>1. /\ Others(w) /\ task'[w].pc = "capacity" /\ UNCHANGED past
          /\ \A d \in Claims \ {c} : claim'[d] = claim[d]
          /\ claim'[c].status = "CLAIMED" /\ claim[c].status = "NONE"
      BY <1>11, <1>0, TakeHas DEF InsertClaim, time, ClaimsOK, Steps
    <2>2. \A v \in Procs : ClaimOf(v) # c
      BY <2>1, <1>0 DEF ClaimFit, TasksFit, TaskFit
    <2> SUFFICES ASSUME NEW d \in Claims, d \in Admitted' PROVE d \in Admitted
      BY DEF Narrows, Admitted, Passed, Status
    <2>3. d # c
      <3>1. SUFFICES ASSUME d = c PROVE FALSE
        OBVIOUS
      <3>2. PICK v \in Procs : task'[v].pc = "provision" /\ task'[v].claim = c
        BY <3>1, <2>1 DEF Admitted, Passed, Status, Undecided, At, ClaimOf
      <3>3. task'[v] = task[v]
        BY <3>2, <2>1 DEF Others
      <3> QED BY <3>2, <3>3, <2>2 DEF ClaimOf
    <2> QED BY <2>1, <2>3 DEF Admitted, Passed, Status, Others, At, ClaimOf
  <1>12. ASSUME NEW w \in Procs, SendCreate(w) PROVE Narrows
    <2>1. Others(w) /\ task'[w].pc = "answer"
      BY <1>12, <1>0, GotoHas DEF SendCreate, Steps, At
    <2> QED BY <1>12, <2>1, ReaderNarrows DEF SendCreate, rows, time
  <1>13. ASSUME NEW w \in Procs, CreateConfirmed(w) PROVE Narrows
    <2>1. Others(w) /\ task'[w].pc = "persist"
      BY <1>13, <1>0, GotoHas DEF CreateConfirmed, Steps, At
    <2> QED BY <1>13, <2>1, ReaderNarrows DEF CreateConfirmed, rows, time
  <1>14. ASSUME NEW w \in Procs, CreateUnknown(w) PROVE Narrows
    BY <1>14, <1>0, LeaveHas, ReaderNarrows DEF CreateUnknown, rows, time
  <1>15. ASSUME NEW w \in Procs, ProbePanel(w) PROVE Narrows
    <2>1. Others(w) /\ task'[w].pc # "provision"
      BY <1>15, <1>0, GotoHas, LeaveHas DEF ProbePanel, Steps, At
    <2> QED BY <1>15, <2>1, ReaderNarrows DEF ProbePanel, rows, time
  <1>16. ASSUME NEW w \in Procs, NEW c \in Claims, StartReconcile(w, c) PROVE Narrows
    BY <1>16, <1>0, TakeHas, ReaderNarrows DEF StartReconcile, rows, time, Steps
  <1>17. ASSUME NEW c \in Claims, StartExpiry(c) PROVE Narrows
    <2>1. Others(Sweep) /\ task'[Sweep].pc = "expire"
      BY <1>17, <1>0 DEF StartExpiry, Others, TasksOK, TaskType
    <2> QED BY <1>17, <2>1, <1>0, ReaderNarrows DEF StartExpiry, rows, time
  <1>18. ASSUME ExpireService PROVE Narrows
    <2>1. Others(Sweep) /\ task'[Sweep].pc = "disable"
      BY <1>18, <1>0, GotoHas DEF ExpireService, Steps, At
    <2> QED BY <1>18, <2>1, <1>0, ReaderNarrows DEF ExpireService, time
  <1>19. ASSUME DisableAccount PROVE Narrows
    BY <1>19, <1>0, LeaveHas, ReaderNarrows DEF DisableAccount, rows, time
  <1>20. CASE BotCrash
    <2>1. \A w \in Procs : task'[w].pc = "idle"
      BY <1>20 DEF BotCrash, IdleTask
    <2> QED BY <1>20, <2>1, NarrowsHas DEF BotCrash, rows, time, Onward
  <1>21. ASSUME NEW c \in Claims, TrialEnds(c) \/ CreateLands(c) \/ CreateIsLost(c) \/ GrowsOld(c) \/ Convert(c)
        PROVE  Narrows
    BY <1>21, IdlersNarrow DEF TrialEnds, CreateLands, CreateIsLost, GrowsOld, Convert, rows, time
  <1>22. ASSUME NEW u \in Users, GrantEnds(u) PROVE Narrows
    BY <1>22, IdlersNarrow DEF GrantEnds, time
  <1>23. CASE UNCHANGED vars
    BY <1>23, IdlersNarrow DEF vars, rows, time
  <1> QED BY <1>1, <1>2, <1>3, <1>4, <1>5, <1>6, <1>7, <1>8, <1>9, <1>10, <1>11, <1>12, <1>13, <1>14, <1>15, <1>16, <1>17, <1>18, <1>19, <1>20, <1>21, <1>22, <1>23
       DEF Next, SweepStep, Step, Procs

LEMMA CapacityStep == PathInv /\ AdmittedFit /\ [Next]_vars => AdmittedFit'
  <1> SUFFICES ASSUME PathInv, AdmittedFit, [Next]_vars PROVE AdmittedFit'
    OBVIOUS
  <1>0. /\ ClaimsOK /\ TasksOK /\ Admitted \in SUBSET Claims /\ Admitted' \in SUBSET Claims
        /\ \A w \in Procs : ~At(w, "idle") => ClaimOf(w) \in Claims
    BY TypeParts DEF PathInv, TasksOK, TaskType, At, ClaimOf, Admitted, Passed, Status
  <1>1. CASE Narrows
    <2>1. Cardinality(Admitted') <= Cardinality(Admitted)
      BY <1>1, <1>0, FiniteParts, FS_Subset DEF Narrows
    <2>2. Cardinality(Admitted') \in Nat /\ Cardinality(Admitted) \in Nat
      BY <1>0, FiniteParts
    <2> QED BY <2>1, <2>2 DEF AdmittedFit
  <1>2. ASSUME NEW w \in Procs, DecideCapacity(w) PROVE AdmittedFit'
    <2>0. PICK c \in Claims : c = ClaimOf(w)
      BY <1>2, <1>0 DEF DecideCapacity, At
    <2>1. UNCHANGED past
      BY <1>2 DEF DecideCapacity, time
    <2>2. CASE /\ Cardinality(Occupying \ {c}) < Capacity
               /\ Goto(w, "provision") /\ UNCHANGED claim
      <3>1. Others(w)
        BY <2>2, <1>2, <1>0, GotoHas DEF DecideCapacity, Steps, At
      <3>2. task'[w].claim = c
        BY <2>0, <2>2, <1>2, <1>0, GotoHas DEF DecideCapacity, Steps, At, ClaimOf
      <3>3. Admitted' \ {c} \subseteq Occupying \ {c}
        BY <3>1, <3>2, <2>1, <2>2 DEF Admitted, Passed, Occupying, Status, Undecided
      <3>4. Occupying \ {c} \in SUBSET Claims /\ Admitted' \ {c} \in SUBSET Claims
        BY <1>0 DEF Occupying, Status
      <3>5. /\ Cardinality(Admitted' \ {c}) <= Cardinality(Occupying \ {c})
            /\ Cardinality(Admitted' \ {c}) \in Nat /\ Cardinality(Occupying \ {c}) \in Nat
        BY <3>3, <3>4, FiniteParts, FS_Subset
      <3>6. Cardinality(Admitted') <= Cardinality(Admitted' \ {c}) + 1
        <4>1. CASE c \in Admitted'
          BY <4>1, <1>0, <3>4, FiniteParts, FS_RemoveElement
        <4>2. CASE c \notin Admitted'
          <5>1. Admitted' \ {c} = Admitted'
            BY <4>2
          <5> QED BY <5>1, <3>5
        <4> QED BY <4>1, <4>2
      <3>7. Cardinality(Admitted') \in Nat
        BY <1>0, FiniteParts
      <3> QED BY <3>5, <3>6, <3>7, <2>2 DEF AdmittedFit
    <2>3. CASE SetStatus(c, {"CLAIMED"}, "CANCELLED") /\ Goto(w, "release")
      <3>1. Rest(c) /\ claim'[c].status = IF claim[c].status = "CLAIMED" THEN "CANCELLED"
                                          ELSE claim[c].status
        BY <2>3, <1>0, SetStatusHas DEF Statuses
      <3>2. Others(w) /\ task'[w].pc = "release"
        BY <2>3, <1>2, <1>0, GotoHas DEF DecideCapacity, Steps, At
      <3>3. Narrows
        BY <3>1, <3>2, <2>1, MoverNarrows DEF Onward, Undecided
      <3> QED BY <3>3, <1>1
    <2> QED BY <1>2, <2>0, <2>2, <2>3 DEF DecideCapacity
  <1> QED BY <1>1, <1>2, CapacitySteps

LEMMA CapacityInit == Init => AdmittedFit
  <1> SUFFICES ASSUME Init PROVE AdmittedFit
    OBVIOUS
  <1>1. Admitted = {}
    BY DEF Init, Admitted, Passed, Status, NoRow, Undecided
  <1>2. Cardinality({}) = 0
    BY FS_EmptySet
  <1> QED BY <1>1, <1>2 DEF AdmittedFit

LEMMA CapacityAlways == Spec => [](PathInv /\ AdmittedFit)
  BY PathInit, PathStep, CapacityInit, CapacityStep, PTL DEF Spec

-----------------------------------------------------------------------------
(* The theorems.                                                           *)

(* The rows, the panel and the processes keep their types.                 *)
THEOREM TrialTypeCorrect == Spec => []TypeOK
  <1>1. PathInv => TypeOK
    BY DEF PathInv
  <1> QED BY <1>1, PathAlways, PTL

(* reserveAllowanceForClaim and releaseClaimAllowance keep the counter of  *)
(* a grant equal to the claims it funds, in any interleaving of handlers,  *)
(* sweep, OWNERs and crashes: no unit is paid back twice, none is lost.    *)
THEOREM ConsumedExplained == Spec => []ConsumedIsReceipts
  <1>1. UnitsFit => ConsumedIsReceipts
    BY DEF UnitsFit, ConsumedIsReceipts, Receipts
  <1> QED BY <1>1, UnitsAlways, PTL

(* provisionTrialClaim, reconcileTrialClaim and the sweep give back a unit *)
(* only where no Service comes of the claim, disputed claims apart.        *)
THEOREM ReleasedIsVoid == Spec => []ReleasedUnlessDisputed
  <1>1. PathInv => ReleasedUnlessDisputed
    <2> SUFFICES ASSUME PathInv, NEW c \in Claims, claim[c].released, c \in service, c \notin disputed
                 PROVE  FALSE
      BY DEF ReleasedUnlessDisputed
    <2>1. claim[c].status \in Void /\ account[c] # "none"
      BY DEF PathInv, ClaimFit, RowFit
    <2> QED BY <2>1 DEF PathInv, ClaimFit, Clean
  <1> QED BY <1>1, PathAlways, PTL

(* insertClaim and the releases never let a user have more trials than the *)
(* units of the grant and of the default allowance together.               *)
THEOREM AllowanceHeld == Spec => []TrialsWithinAllowance
  <1>1. PathInv /\ UnitsFit => TrialsWithinAllowance
    <2> SUFFICES ASSUME PathInv, UnitsFit, NEW u \in Users
                 PROVE  Cardinality((service \cap Of(u)) \ disputed) <= Grant[u] + Default
      BY DEF TrialsWithinAllowance
    <2> DEFINE Trials == (service \cap Of(u)) \ disputed
    <2>1. Trials \subseteq Receipts(u) \cup Defaults(u)
      <3> SUFFICES ASSUME NEW c \in Claims, c \in Trials PROVE c \in Receipts(u) \cup Defaults(u)
        BY DEF Of
      <3>1. /\ claim[c].user = u /\ c \in service /\ c \notin disputed /\ account[c] # "none"
            /\ claim[c].status \in Statuses /\ claim[c].status \notin Void
            /\ claim[c].status # "NONE"
        BY DEF PathInv, TypeOK, ClaimFit, RowFit, Clean, Of
      <3>2. ~claim[c].released /\ claim[c].fund \in {"grant", "default"}
        BY <3>1 DEF PathInv, ClaimFit, RowFit
      <3>3. claim[c].status \in Consuming
        BY <3>1 DEF Statuses, Void, Consuming
      <3> QED BY <3>1, <3>2, <3>3 DEF Receipts, Defaults, Of, Status
    <2>2. /\ Receipts(u) \in SUBSET Claims /\ Defaults(u) \in SUBSET Claims
          /\ Receipts(u) \cup Defaults(u) \in SUBSET Claims /\ Trials \in SUBSET Claims
      BY DEF Receipts, Defaults, Of
    <2>3. /\ Cardinality(Trials) <= Cardinality(Receipts(u) \cup Defaults(u))
          /\ Cardinality(Receipts(u) \cup Defaults(u)) <= Cardinality(Receipts(u)) + Cardinality(Defaults(u))
      <3>1. Cardinality(Trials) <= Cardinality(Receipts(u) \cup Defaults(u))
        BY <2>1, <2>2, FiniteParts, FS_Subset
      <3>2. Cardinality(Receipts(u) \cup Defaults(u)) =
              Cardinality(Receipts(u)) + Cardinality(Defaults(u)) - Cardinality(Receipts(u) \cap Defaults(u))
        BY <2>2, FiniteParts, FS_Union
      <3>3. Cardinality(Receipts(u) \cap Defaults(u)) \in Nat
        BY <2>2, FiniteParts
      <3>4. Cardinality(Receipts(u)) \in Nat /\ Cardinality(Defaults(u)) \in Nat
        BY <2>2, FiniteParts
      <3> HIDE DEF Trials
      <3> QED BY <3>1, <3>2, <3>3, <3>4
    <2>4. Cardinality(Receipts(u)) <= Grant[u] /\ Cardinality(Defaults(u)) <= Default
      BY DEF UnitsFit
    <2>5. /\ Cardinality(Trials) \in Nat /\ Cardinality(Receipts(u) \cup Defaults(u)) \in Nat
          /\ Cardinality(Receipts(u)) \in Nat /\ Cardinality(Defaults(u)) \in Nat
          /\ Grant[u] \in Nat
      BY <2>2, FiniteParts
    <2> HIDE DEF Trials
    <2>6. Cardinality(Trials) <= Grant[u] + Default
      BY <2>3, <2>4, <2>5
    <2> QED BY <2>6 DEF Trials
  <1> QED BY <1>1, UnitsAlways, PTL

(* The capacity transaction never lets more claims through to the panel    *)
(* than testMaxConcurrentAccounts, in whatever order the deciders commit.  *)
THEOREM CapacityKept == Spec => []CapacityHeld
  <1>1. PathInv /\ AdmittedFit => CapacityHeld
    <2> SUFFICES ASSUME AdmittedFit PROVE CapacityHeld
      OBVIOUS
    <2> DEFINE Used == Status(Undecided) \cup (Status({"ACTIVE"}) \ past)
    <2>1. Used \in SUBSET Claims /\ Admitted \in SUBSET Claims /\ Used \subseteq Admitted
      BY DEF Admitted, Passed, Status
    <2>2. /\ Cardinality(Used) <= Cardinality(Admitted)
          /\ Cardinality(Used) \in Nat /\ Cardinality(Admitted) \in Nat
      BY <2>1, FiniteParts, FS_Subset
    <2> HIDE DEF Used
    <2>3. Cardinality(Used) <= Capacity
      BY <2>2 DEF AdmittedFit
    <2> QED BY <2>3 DEF CapacityHeld, Used
  <1> QED BY <1>1, CapacityAlways, PTL
=============================================================================
