----------------------- MODULE AdminOperation_proofs -----------------------
(***************************************************************************)
(* Theorems about AdminOperation, for any number of drafts, executors,     *)
(* OWNER sessions, days, purchases, crashes and lapsed locks.              *)
(***************************************************************************)
EXTENDS AdminOperation, TLAPS

USE DEF Procs, remote, bounds, ghosts, At, Of, Kind

(* TypeOK in two parts; whatever has a process or a row has been drafted.  *)
OpType    == [status : Statuses, before : Rows, after : Accounts]
DraftType == [kind : AllKinds \cup {"NONE"}, seen : Rows]
StateOK ==
    /\ draft \in [Confirms -> DraftType] /\ op \in [Confirms -> OpType]
    /\ row \in Rows /\ panel \in Accounts
    /\ audited \subseteq Confirms /\ landed \in [Confirms -> Nat]
    /\ flying \subseteq Confirms \X AllKinds \X Accounts
    /\ lock \in Procs \cup {Free, Dead}
    /\ today \in Nat /\ acted \in Nat /\ faults \in Nat
    /\ stray \subseteq Confirms /\ disturbed \subseteq Confirms /\ orphaned \subseteq Confirms
    /\ \A c \in Confirms : op[c].status # "NONE" => Kind(c) \in AllKinds
Drafted(r) == r.pc # "idle" => r.confirm \in Confirms /\ Kind(r.confirm) \in AllKinds
TasksOK ==
    /\ task \in [Procs -> TaskRecord]
    /\ \A p \in Procs : Drafted(task[p])
TypeInv == StateOK /\ TasksOK

LEMMA TypeInvTypes == TypeInv => TypeOK
  BY DEF TypeInv, StateOK, TasksOK, Drafted, OpType, DraftType, TypeOK

LEMMA StartTyped ==
    /\ Row0 \in Rows /\ Account0 \in Accounts /\ NoOp \in OpType /\ NoDraft \in DraftType
    /\ IdleTask \in TaskRecord /\ IdleTask.pc = "idle"
  BY AdminOperationAssumption DEF Row0, Account0, NoOp, NoDraft, IdleTask, Rows, RowStatus,
     Accounts, OpType, Statuses, Blocking, DraftType, AllKinds, Grants, Toggles, TaskRecord, Steps

LEMMA InitTyped == Init => TypeInv
  BY StartTyped, AdminOperationAssumption DEF Init, TypeInv, StateOK, TasksOK, Drafted, NoOp

-----------------------------------------------------------------------------
(* What the operators return.                                              *)
LEMMA ImageTyped == ASSUME NEW a \in Accounts, today \in Nat PROVE Image(a) \in Rows
  BY DEF Image, Accounts, Rows, RowStatus

LEMMA ExtendedTyped ==
    ASSUME NEW x \in Nat, NEW d \in Nat, today \in Nat
    PROVE  Extended(x, d) \in Nat /\ Extended(x, d) >= x + d
  BY DEF Extended

LEMMA TargetTyped ==
    ASSUME TypeInv, NEW e \in Executors, ~At(e, "idle")
    PROVE  Target(e, Of(e)) \in Accounts
  <1> DEFINE c == Of(e)  a == task[e].base
  <1>1. c \in Confirms /\ Kind(c) \in AllKinds /\ Amount[c] \in Nat /\ a \in Accounts /\ today \in Nat
    BY AdminOperationAssumption DEF TypeInv, StateOK, TasksOK, Drafted, TaskRecord
  <1>2. Extended(a.expiry, Amount[c]) \in Nat
    BY <1>1, ExtendedTyped DEF Accounts
  <1>3. CASE Kind(c) = "ADD_VOLUME"
    <2>1. Target(e, c) = [a EXCEPT !.limit = @ + Amount[c], !.enabled = TRUE]
      BY <1>3 DEF Target, Toggles
    <2>2. a.limit + Amount[c] \in Nat
      BY <1>1 DEF Accounts
    <2> HIDE DEF a
    <2> QED BY <1>1, <2>1, <2>2 DEF Accounts
  <1>4. CASE Kind(c) = "ADD_TIME"
    <2>1. Target(e, c) = [a EXCEPT !.expiry = Extended(@, Amount[c]), !.enabled = TRUE]
      BY <1>4 DEF Target, Toggles
    <2> QED BY <1>1, <1>2, <2>1 DEF Accounts
  <1>5. CASE Kind(c) \in Toggles
    <2>1. Target(e, c) = [a EXCEPT !.enabled = (Kind(c) = "ENABLE")]
      BY <1>5 DEF Target, Toggles
    <2> QED BY <1>1, <2>1 DEF Accounts
  <1>6. CASE Kind(c) = "REGENERATE_LINK"
    BY <1>1, <1>6 DEF Target, Toggles
  <1> QED BY <1>1, <1>3, <1>4, <1>5, <1>6 DEF AllKinds, Grants

LEMMA CarriedOutTyped ==
    ASSUME NEW k \in AllKinds, NEW a \in Accounts, NEW t \in Accounts
    PROVE  CarriedOut(k, a, t) \in Accounts
  BY DEF CarriedOut, AllKinds, Accounts, Grants, Toggles

LEMMA WrittenTyped ==
    ASSUME TypeInv, NEW e \in Executors, ~At(e, "idle")
    PROVE  Written(e) \in Rows
  <1>1. Kind(Of(e)) \in AllKinds /\ task[e].base \in Accounts /\ task[e].target \in Accounts
    BY DEF TypeInv, TasksOK, Drafted, TaskRecord
  <1>2. Image(task[e].base) \in Rows /\ row \in Rows
    BY <1>1, ImageTyped DEF TypeInv, StateOK
  <1> QED BY <1>1, <1>2 DEF Written, AllKinds, Grants, Toggles, Rows, RowStatus, Accounts

LEMMA VerdictTyped ==
    ASSUME NEW c, NEW fresh PROVE Verdict(c, fresh) \in {"RECONCILED", "FAILED", "NONE"}
  BY DEF Verdict

LEMMA ResolvedTyped ==
    ASSUME NEW o \in OpType, NEW v \in Statuses, NEW t \in Accounts
    PROVE  /\ Resolved(o, v, t) \in OpType /\ Resolved(o, v, t).status = v
           /\ v \in Open => Resolved(o, v, t).after = t
  BY StartTyped DEF Resolved, OpType, Open, Statuses, Blocking

(* The ways a process record changes keep its type.                        *)
KindsKept == \A c \in Confirms : Kind(c) \in AllKinds => draft'[c].kind = Kind(c)

LEMMA RecordTyped ==
    ASSUME TasksOK, NEW p \in Procs, NEW r \in TaskRecord, Drafted(r), KindsKept,
           task' = [task EXCEPT ![p] = r]
    PROVE  TasksOK'
  BY DEF TasksOK, Drafted, KindsKept

LEMMA GotoTyped ==
    ASSUME TasksOK, NEW p \in Procs, NEW pc \in Steps, ~At(p, "idle"), Goto(p, pc), UNCHANGED draft
    PROVE  TasksOK'
  <1> DEFINE r == [task[p] EXCEPT !.pc = pc]
  <1>1. r \in TaskRecord /\ r.confirm = task[p].confirm /\ task' = [task EXCEPT ![p] = r]
    BY DEF TasksOK, TaskRecord, Goto
  <1>2. Drafted(r)
    BY <1>1 DEF TasksOK, Drafted
  <1> HIDE DEF r
  <1> QED BY <1>1, <1>2, RecordTyped DEF KindsKept

LEMMA EndsTyped ==
    ASSUME TasksOK, NEW p \in Procs, NEW v \in Statuses, ~At(p, "idle"), Ends(p, v), UNCHANGED draft
    PROVE  TasksOK'
  <1> DEFINE r == [IdleTask EXCEPT !.pc = "finish", !.verdict = v, !.confirm = Of(p),
                                   !.target = task[p].target]
  <1>1. r \in TaskRecord /\ r.confirm = task[p].confirm /\ task' = [task EXCEPT ![p] = r]
    BY StartTyped DEF TasksOK, TaskRecord, Ends, Steps, Drafted, IdleTask
  <1>2. Drafted(r)
    BY <1>1 DEF TasksOK, Drafted
  <1> HIDE DEF r
  <1> QED BY <1>1, <1>2, RecordTyped DEF KindsKept

LEMMA DropsTyped ==
    ASSUME TasksOK, NEW p \in Procs, ~At(p, "idle"), Drops(p), UNCHANGED draft
    PROVE  TasksOK'
  <1> DEFINE r == [IdleTask EXCEPT !.pc = "release", !.confirm = Of(p)]
  <1>1. r \in TaskRecord /\ r.confirm = task[p].confirm /\ task' = [task EXCEPT ![p] = r]
    BY StartTyped DEF TasksOK, TaskRecord, Drops, Steps, Drafted, IdleTask
  <1>2. Drafted(r)
    BY <1>1 DEF TasksOK, Drafted
  <1> HIDE DEF r
  <1> QED BY <1>1, <1>2, RecordTyped DEF KindsKept

LEMMA LeaveTyped ==
    ASSUME TasksOK, NEW p \in Procs, Leave(p), UNCHANGED draft
    PROVE  TasksOK'
  BY StartTyped, RecordTyped DEF Leave, Drafted, KindsKept

LEMMA SameTyped == ASSUME TasksOK, UNCHANGED <<task, draft>> PROVE TasksOK'
  BY DEF TasksOK, Drafted

(* Rewriting one operation keeps the types.                                *)
LEMMA OpTyped ==
    ASSUME StateOK, NEW c \in Confirms, NEW o \in OpType, Kind(c) \in AllKinds,
           op' = [op EXCEPT ![c] = o], UNCHANGED draft
    PROVE  /\ op' \in [Confirms -> OpType]
           /\ \A d \in Confirms : op'[d].status # "NONE" => draft'[d].kind \in AllKinds
  BY DEF StateOK

(* Every step keeps the types.                                             *)
LEMMA DraftStepTyped ==
    ASSUME TypeInv, NEW c \in Confirms,
           \/ \E k \in AllKinds : Preview(c, k)
           \/ \E e \in Executors : Confirm(e, c)
           \/ \E r \in Reviewers : StartReconcile(r, c)
           \/ MarkReviewed(c)
    PROVE  TypeInv'
  <1> USE DEF TypeInv
  <1>1. ASSUME NEW k \in AllKinds, Preview(c, k) PROVE TypeInv'
    <2>1. KindsKept
      BY <1>1 DEF Preview, KindsKept, StateOK, DraftType, AllKinds, Grants, Toggles
    <2>2. TasksOK'
      BY <1>1, <2>1 DEF Preview, KindsKept, TasksOK, Drafted
    <2>3. draft' \in [Confirms -> DraftType]
      BY <1>1 DEF Preview, StateOK, DraftType
    <2> QED BY <1>1, <2>1, <2>2, <2>3 DEF Preview, KindsKept, StateOK
  <1>2. ASSUME NEW e \in Executors, Confirm(e, c) PROVE TypeInv'
    <2> DEFINE r == [IdleTask EXCEPT !.pc = "lock", !.confirm = c]
    <2>1. r \in TaskRecord /\ r.confirm = c /\ task' = [task EXCEPT ![e] = r]
      BY <1>2, StartTyped DEF Confirm, TaskRecord, Steps, IdleTask
    <2>2. Drafted(r)
      BY <1>2, <2>1 DEF Confirm, StateOK, DraftType, Drafted
    <2> HIDE DEF r
    <2>3. TasksOK'
      BY <1>2, <2>1, <2>2, RecordTyped DEF Confirm, KindsKept
    <2> QED BY <1>2, <2>3 DEF Confirm, StateOK
  <1>3. ASSUME NEW r0 \in Reviewers, StartReconcile(r0, c) PROVE TypeInv'
    <2> DEFINE r == [IdleTask EXCEPT !.pc = "lock", !.confirm = c, !.verdict = op[c].status]
    <2>1. r \in TaskRecord /\ r.confirm = c /\ task' = [task EXCEPT ![r0] = r]
      BY <1>3, StartTyped DEF StartReconcile, TaskRecord, Steps, IdleTask, StateOK, OpType
    <2>2. Drafted(r)
      BY <1>3, <2>1 DEF StartReconcile, Reconcilable, Open, StateOK, Drafted
    <2> HIDE DEF r
    <2>3. TasksOK'
      BY <1>3, <2>1, <2>2, RecordTyped DEF StartReconcile, KindsKept
    <2> QED BY <1>3, <2>3 DEF StartReconcile, StateOK
  <1>4. ASSUME MarkReviewed(c) PROVE TypeInv'
    <2>1. Resolved(op[c], "RECONCILED", op[c].after) \in OpType
      BY ResolvedTyped DEF StateOK, OpType, Statuses
    <2>2. Kind(c) \in AllKinds
      BY <1>4 DEF MarkReviewed, AllKinds
    <2>3. TasksOK'
      BY <1>4, SameTyped DEF MarkReviewed
    <2> QED BY <1>4, <2>1, <2>2, <2>3, OpTyped DEF MarkReviewed, StateOK
  <1> QED BY <1>1, <1>2, <1>3, <1>4

LEMMA ExecutorStepTyped ==
    ASSUME TypeInv, NEW e \in Executors,
           ExecutorStep(e) \/ Escapes(e) \/ LockLapses(e) \/ Heartbeat(e)
    PROVE  TypeInv'
  <1> USE DEF TypeInv
  <1> DEFINE c == Of(e)
  <1>0. /\ task[e] \in TaskRecord /\ e \in Procs
        /\ ~At(e, "idle") => c \in Confirms /\ Kind(c) \in AllKinds
    BY DEF TasksOK, Drafted
  <1>1. CASE Body(e)
    <2> DEFINE r == [task[e] EXCEPT !.pc = "claim", !.row = row]
    <2>1. r \in TaskRecord /\ r.confirm = c
      BY <1>0 DEF TaskRecord, StateOK, Steps
    <2>2. Drafted(r)
      BY <1>0, <1>1, <2>1 DEF Body, Drafted
    <2>3. CASE task' = [task EXCEPT ![e].pc = "claim", ![e].row = row]
      <3>1. task' = [task EXCEPT ![e] = r]
        BY <1>0, <2>3 DEF TasksOK
      <3> HIDE DEF r
      <3> QED BY <1>1, <2>1, <2>2, <3>1, RecordTyped DEF Body, StateOK, KindsKept
    <2>4. CASE Drops(e)
      BY <1>1, <2>4, DropsTyped DEF Body, StateOK
    <2> QED BY <1>1, <2>3, <2>4 DEF Body
  <1>2. CASE Claim(e)
    <2>1. CASE op[c].status # "NONE"
      BY <1>2, <2>1, DropsTyped DEF Claim, StateOK
    <2>2. CASE op[c].status = "NONE"
      <3> DEFINE o == [op[c] EXCEPT !.status = "PENDING", !.before = task[e].row]
                 r == [IdleTask EXCEPT !.confirm = c,
                          !.pc = IF Kind(c) \in Grants THEN "read" ELSE "send"]
      <3>0. c \in Confirms /\ Kind(c) \in AllKinds
        BY <1>0, <1>2 DEF Claim
      <3>1. o \in OpType /\ op' = [op EXCEPT ![c] = o]
        BY <1>0, <1>2, <2>2, <3>0 DEF Claim, StateOK, OpType, TaskRecord, Statuses, Blocking
      <3>2. draft' \in [Confirms -> DraftType] /\ \A d \in Confirms : draft'[d].kind = Kind(d)
        BY <1>2, <2>2, StartTyped DEF Claim, StateOK, DraftType
      <3>3. r \in TaskRecord /\ r.confirm = c /\ task' = [task EXCEPT ![e] = r]
        BY <1>2, <2>2, <3>0, StartTyped DEF Claim, TaskRecord, Steps
      <3>4. Drafted(r)
        BY <3>0, <3>3 DEF Drafted
      <3> HIDE DEF r, o
      <3>5. TasksOK'
        BY <3>2, <3>3, <3>4, RecordTyped DEF KindsKept
      <3>6. op' \in [Confirms -> OpType] /\ \A d \in Confirms : op'[d].status # "NONE" => draft'[d].kind \in AllKinds
        BY <3>0, <3>1, <3>2 DEF StateOK
      <3> QED BY <1>2, <2>2, <3>2, <3>5, <3>6 DEF Claim, StateOK
    <2> QED BY <2>1, <2>2
  <1>3. CASE FreshRead(e)
    <2> DEFINE r == [task[e] EXCEPT !.pc = "send", !.base = panel]
    <2>1. r \in TaskRecord /\ r.confirm = c
      BY <1>0 DEF TaskRecord, StateOK, Steps
    <2>2. Drafted(r)
      BY <1>0, <1>3, <2>1 DEF FreshRead, Drafted
    <2>3. CASE task' = [task EXCEPT ![e].pc = "send", ![e].base = panel]
      <3>1. task' = [task EXCEPT ![e] = r]
        BY <1>0, <2>3 DEF TasksOK
      <3> HIDE DEF r
      <3> QED BY <1>3, <2>1, <2>2, <3>1, RecordTyped DEF FreshRead, StateOK, KindsKept
    <2>4. CASE Ends(e, "FAILED")
      BY <1>3, <2>4, EndsTyped DEF FreshRead, StateOK, Statuses
    <2> QED BY <1>3, <2>3, <2>4 DEF FreshRead
  <1>4. ASSUME SendRequest(e) \/ AdapterRefuses(e), NEW pc \in Steps,
               task' = [task EXCEPT ![e].pc = pc, ![e].target = Target(e, c)]
        PROVE  TasksOK' /\ Target(e, c) \in Accounts
    <2> DEFINE r == [task[e] EXCEPT !.pc = pc, !.target = Target(e, c)]
    <2>1. ~At(e, "idle") /\ Target(e, c) \in Accounts
      BY <1>4, TargetTyped DEF SendRequest, AdapterRefuses
    <2>2. r \in TaskRecord /\ r.confirm = c /\ task' = [task EXCEPT ![e] = r]
      BY <1>0, <1>4, <2>1 DEF TaskRecord, TasksOK
    <2>3. Drafted(r)
      BY <1>0, <2>1, <2>2 DEF Drafted
    <2> HIDE DEF r
    <2> QED BY <1>4, <2>1, <2>2, <2>3, RecordTyped DEF SendRequest, AdapterRefuses, KindsKept
  <1>5. CASE SendRequest(e)
    <2>1. TasksOK' /\ Target(e, c) \in Accounts
      BY <1>4, <1>5 DEF SendRequest, Steps
    <2> QED BY <1>0, <1>5, <2>1 DEF SendRequest, StateOK
  <1>6. CASE AdapterRefuses(e)
    <2>1. TasksOK'
      <3>1. CASE Kind(c) \in Grants
        BY <1>4, <1>6, <3>1 DEF AdapterRefuses, Steps
      <3>2. CASE Kind(c) \notin Grants
        BY <1>6, <3>2, EndsTyped DEF AdapterRefuses, Statuses
      <3> QED BY <3>1, <3>2
    <2> QED BY <1>6, <2>1 DEF AdapterRefuses, StateOK
  <1>7. CASE Answered(e)
    <2>1. TasksOK'
      <3>1. CASE task[e].lost /\ Kind(c) \notin Toggles
        BY <1>7, <3>1, EndsTyped DEF Answered, Statuses, Blocking
      <3>2. CASE ~(task[e].lost /\ Kind(c) \notin Toggles)
        <4> DEFINE r == [task[e] EXCEPT !.pc = "persist", !.base = panel]
        <4>1. r \in TaskRecord /\ r.confirm = c /\ task' = [task EXCEPT ![e] = r]
          BY <1>0, <1>7, <3>2 DEF TaskRecord, StateOK, Steps, Answered, TasksOK
        <4>2. Drafted(r)
          BY <1>0, <1>7, <4>1 DEF Answered, Drafted
        <4> HIDE DEF r
        <4> QED BY <1>7, <4>1, <4>2, RecordTyped DEF Answered, KindsKept
      <3> QED BY <3>1, <3>2
    <2> QED BY <1>7, <2>1 DEF Answered, StateOK
  <1>8. CASE AnsweredUncertain(e) \/ AnsweredError(e)
    <2>1. TasksOK'
      BY <1>8, EndsTyped, GotoTyped DEF AnsweredUncertain, AnsweredError, Statuses, Blocking, Steps
    <2>2. stray' \subseteq Confirms
      BY <1>0, <1>8 DEF AnsweredUncertain, AnsweredError, Gone, StateOK
    <2> QED BY <1>8, <2>1, <2>2 DEF AnsweredUncertain, AnsweredError, StateOK
  <1>9. CASE Verify(e)
    <2>1. TasksOK'
      BY <1>9, EndsTyped DEF Verify, Statuses, Blocking
    <2> QED BY <1>9, <2>1 DEF Verify, StateOK
  <1>10. CASE Persist(e) \/ PersistThrows(e)
    <2>1. ~At(e, "idle")
      BY <1>10 DEF Persist, PersistThrows
    <2>2. row' \in Rows /\ audited' \subseteq Confirms
      BY <1>0, <1>10, <2>1, WrittenTyped DEF Persist, PersistThrows, StateOK
    <2>3. TasksOK'
      <3>1. CASE Persist(e)
        BY <2>1, <3>1, EndsTyped DEF Persist, Statuses
      <3>2. CASE PersistThrows(e)
        BY <2>1, <3>2, EndsTyped, GotoTyped DEF PersistThrows, Statuses, Blocking, Steps
      <3> QED BY <1>10, <3>1, <3>2
    <2> QED BY <1>10, <2>2, <2>3 DEF Persist, PersistThrows, StateOK
  <1>11. CASE Finish(e)
    <2>1. TasksOK'
      BY <1>11, GotoTyped, DropsTyped DEF Finish, Steps
    <2>2. Resolved(op[c], task[e].verdict, task[e].target) \in OpType
      BY <1>0, <1>11, ResolvedTyped DEF Finish, StateOK, TaskRecord
    <2> QED BY <1>0, <1>11, <2>1, <2>2, OpTyped DEF Finish, StateOK
  <1>12. CASE Escapes(e)
    <2>1. TasksOK'
      BY <1>12, DropsTyped DEF Escapes, Unguarded
    <2> QED BY <1>0, <1>12, <2>1 DEF Escapes, Unguarded, StateOK
  <1>13. CASE LockLapses(e)
    <2>1. TasksOK'
      BY <1>13, SameTyped DEF LockLapses
    <2> QED BY <1>13, <2>1 DEF LockLapses, StateOK
  <1>14. CASE Heartbeat(e)
    <2> DEFINE r == [task[e] EXCEPT !.lost = TRUE]
    <2>1. r \in TaskRecord /\ r.confirm = c /\ r.pc = task[e].pc /\ task' = [task EXCEPT ![e] = r]
      BY <1>0, <1>14 DEF TaskRecord, Heartbeat, TasksOK
    <2>2. Drafted(r)
      BY <1>0, <2>1 DEF Drafted
    <2> HIDE DEF r
    <2> QED BY <1>14, <2>1, <2>2, RecordTyped DEF Heartbeat, StateOK, KindsKept
  <1> QED BY <1>1, <1>2, <1>3, <1>5, <1>6, <1>7, <1>8, <1>9, <1>10, <1>11, <1>12, <1>13, <1>14
       DEF ExecutorStep

LEMMA ReviewerStepTyped ==
    ASSUME TypeInv, NEW r \in Reviewers, ReviewerStep(r)
    PROVE  TypeInv'
  <1> USE DEF TypeInv
  <1> DEFINE c == Of(r)
  <1>0. /\ task[r] \in TaskRecord /\ r \in Procs
        /\ ~At(r, "idle") => c \in Confirms /\ Kind(c) \in AllKinds
    BY DEF TasksOK, Drafted
  <1>1. CASE Probe(r)
    <2> DEFINE t == [task[r] EXCEPT !.pc = "sync", !.base = panel]
    <2>1. t \in TaskRecord /\ t.confirm = c
      BY <1>0 DEF TaskRecord, StateOK, Steps
    <2>2. Drafted(t)
      BY <1>0, <1>1, <2>1 DEF Probe, Drafted
    <2>3. CASE task' = [task EXCEPT ![r].pc = "sync", ![r].base = panel]
      <3>1. task' = [task EXCEPT ![r] = t]
        BY <1>0, <2>3 DEF TasksOK
      <3> HIDE DEF t
      <3> QED BY <1>1, <2>1, <2>2, <3>1, RecordTyped DEF Probe, StateOK, KindsKept
    <2>4. CASE Drops(r)
      BY <1>1, <2>4, DropsTyped DEF Probe, StateOK
    <2> QED BY <1>1, <2>3, <2>4 DEF Probe
  <1>2. CASE SyncRow(r)
    <2>0. Image(task[r].base) \in Rows
      BY <1>0, ImageTyped DEF TaskRecord, StateOK
    <2>1. CASE /\ row' = Image(task[r].base)
               /\ task' = [task EXCEPT ![r].pc = "release", ![r].fresh = TRUE, ![r].row = row']
      <3> DEFINE t == [task[r] EXCEPT !.pc = "release", !.fresh = TRUE, !.row = Image(task[r].base)]
      <3>1. t \in TaskRecord /\ t.confirm = c /\ task' = [task EXCEPT ![r] = t]
        BY <1>0, <2>0, <2>1 DEF TaskRecord, Steps, TasksOK
      <3>2. Drafted(t)
        BY <1>0, <1>2, <3>1 DEF SyncRow, Drafted
      <3> HIDE DEF t
      <3> QED BY <1>2, <2>0, <2>1, <3>1, <3>2, RecordTyped DEF SyncRow, StateOK, KindsKept
    <2>2. CASE Drops(r) /\ UNCHANGED row
      BY <1>2, <2>2, DropsTyped DEF SyncRow, StateOK
    <2> QED BY <1>2, <2>1, <2>2 DEF SyncRow
  <1>3. CASE Classify(r)
    <2> DEFINE v == Verdict(c, task[r].row)
    <2>1. TasksOK'
      BY <1>3, LeaveTyped DEF Classify
    <2>2. Resolved(op[c], v, op[c].after) \in OpType
      BY <1>0, <1>3, ResolvedTyped, VerdictTyped DEF Classify, StateOK, OpType, Statuses
    <2>3. op' = op \/ op' = [op EXCEPT ![c] = Resolved(op[c], v, op[c].after)]
      BY <1>3 DEF Classify
    <2> QED BY <1>0, <1>3, <2>1, <2>2, <2>3, OpTyped DEF Classify, StateOK
  <1> QED BY <1>1, <1>2, <1>3 DEF ReviewerStep

LEMMA LockStepTyped ==
    ASSUME TypeInv, NEW p \in Procs, LockStep(p)
    PROVE  TypeInv'
  <1> USE DEF TypeInv
  <1>1. CASE AcquireLock(p)
    <2>1. TasksOK'
      BY <1>1, GotoTyped DEF AcquireLock, Steps
    <2> QED BY <1>1, <2>1 DEF AcquireLock, StateOK
  <1>2. CASE GiveUpLock(p)
    BY <1>2, LeaveTyped DEF GiveUpLock, StateOK
  <1>3. CASE Release(p)
    <2>1. TasksOK'
      BY <1>3, GotoTyped, LeaveTyped DEF Release, Steps
    <2> QED BY <1>3, <2>1 DEF Release, StateOK
  <1> QED BY <1>1, <1>2, <1>3 DEF LockStep

LEMMA OutsideStepTyped ==
    ASSUME TypeInv,
           \/ \E u \in flying : RequestLands(u) \/ RequestIsLost(u)
           \/ PaidOperation \/ ToggleService \/ OpenPage
           \/ NextDay \/ LockExpires \/ BotCrash
    PROVE  TypeInv'
  <1> USE DEF TypeInv
  <1>1. ASSUME NEW u \in flying, RequestLands(u) PROVE TypeInv'
    <2>1. u[1] \in Confirms /\ u[2] \in AllKinds /\ u[3] \in Accounts /\ panel \in Accounts
      BY DEF StateOK
    <2>2. panel' \in Accounts
      BY <1>1, <2>1, CarriedOutTyped DEF RequestLands
    <2>3. landed' \in [Confirms -> Nat] /\ disturbed' \subseteq Confirms
      BY <1>1, <2>1 DEF RequestLands, Disturbs, StateOK
    <2>4. TasksOK'
      BY <1>1, SameTyped DEF RequestLands
    <2> QED BY <1>1, <2>2, <2>3, <2>4 DEF RequestLands, StateOK
  <1>2. ASSUME NEW u \in flying, RequestIsLost(u) PROVE TypeInv'
    BY <1>2, SameTyped DEF RequestIsLost, StateOK
  <1>3. CASE PaidOperation
    <2>1. PICK left \in {0, row.limit}, expiry \in {row.expiry, Extended(row.expiry, 1)} :
             panel' = [panel EXCEPT !.limit = left + PaidVolume, !.expiry = expiry, !.enabled = TRUE]
      BY <1>3 DEF PaidOperation
    <2>2. row.limit \in Nat /\ row.expiry \in Nat /\ Extended(row.expiry, 1) \in Nat
      BY ExtendedTyped DEF StateOK, Rows
    <2>3. left + PaidVolume \in Nat /\ expiry \in Nat
      BY <2>2, AdminOperationAssumption
    <2>4. panel' \in Accounts
      BY <2>1, <2>3 DEF StateOK, Accounts
    <2>5. Image(panel') \in Rows
      BY <2>4, ImageTyped DEF StateOK
    <2>6. row' \in Rows
      BY <1>3, <2>5 DEF PaidOperation, StateOK
    <2>7. TasksOK'
      BY <1>3, SameTyped DEF PaidOperation
    <2>8. disturbed' \subseteq Confirms
      BY <1>3 DEF PaidOperation, Disturbs, StateOK
    <2> QED BY <1>3, <2>4, <2>6, <2>7, <2>8 DEF PaidOperation, StateOK
  <1>4. CASE ToggleService
    <2>1. panel' \in Accounts /\ row' \in Rows
      BY <1>4 DEF ToggleService, StateOK, Accounts, Rows, RowStatus
    <2>2. TasksOK'
      BY <1>4, SameTyped DEF ToggleService
    <2> QED BY <1>4, <2>1, <2>2 DEF ToggleService, StateOK
  <1>5. CASE OpenPage
    BY <1>5, ImageTyped, SameTyped DEF OpenPage, StateOK
  <1>6. CASE NextDay
    BY <1>6, SameTyped DEF NextDay, StateOK
  <1>7. CASE LockExpires
    BY <1>7, SameTyped DEF LockExpires, StateOK
  <1>8. CASE BotCrash
    <2>1. TasksOK'
      BY <1>8, StartTyped DEF BotCrash, TasksOK, Drafted
    <2> QED BY <1>8, <2>1 DEF BotCrash, StateOK
  <1> QED BY <1>1, <1>2, <1>3, <1>4, <1>5, <1>6, <1>7, <1>8

LEMMA TypeStep == TypeInv /\ [Next]_vars => TypeInv'
  <1> SUFFICES ASSUME TypeInv, [Next]_vars PROVE TypeInv'
    OBVIOUS
  <1>1. CASE UNCHANGED vars
    BY <1>1 DEF vars, TypeInv, StateOK, TasksOK, Drafted
  <1>2. CASE Next
    BY <1>2, DraftStepTyped, ExecutorStepTyped, ReviewerStepTyped, LockStepTyped, OutsideStepTyped
       DEF Next
  <1> QED BY <1>1, <1>2

(* The rows, the account, the lock and the processes keep their types.     *)
THEOREM AdminTypeCorrect == Spec => []TypeOK
  <1>1. Spec => []TypeInv
    BY InitTyped, TypeStep, PTL DEF Spec
  <1> QED BY <1>1, TypeInvTypes, PTL

-----------------------------------------------------------------------------
(* From the claim to its verdict an operation is PENDING and belongs to    *)
(* one executor; until its request is sent the executor holds the lock.    *)
Locked   == {"body", "claim", "read", "send"}
Working  == {"read", "send", "answer", "verify", "persist", "again", "finish"}
After    == {"verify", "persist", "again", "finish"}
Verdicts == {"SUCCEEDED", "FAILED", "UNCERTAIN", "RECONCILIATION_REQUIRED"}

NotSent(c) == landed[c] = 0 /\ \A u \in flying : u[1] # c

Holding ==
    \A e \in Executors :
        /\ task[e].pc \in Locked => lock = e
        /\ At(e, "claim") => \A d \in Confirms : ~Unresolved(d)
        /\ task[e].pc \in Working => op[Of(e)].status = "PENDING"
        /\ task[e].pc \in {"read", "send"} => NotSent(Of(e))
        /\ task[e].pc \in After => \A u \in flying : u[1] = Of(e) => u[1] \in stray
        /\ At(e, "finish") => task[e].verdict \in Verdicts
        /\ \A f \in Executors :
              task[e].pc \in Working /\ task[f].pc \in Working /\ Of(e) = Of(f) => e = f
(* One request of an operation at most; one in flight whose executor has   *)
(* gone on has outlived its wait, or died with the executor.               *)
OneRequest ==
    /\ \A c \in Confirms : op[c].status = "NONE" => NotSent(c)
    /\ \A u, v \in flying : u[1] = v[1] => u = v
    /\ \A u \in flying : landed[u[1]] = 0
    /\ \A u \in flying : op[u[1]].status = "PENDING" \/ u[1] \in stray
(* A reviewer looks at an operation that has had its verdict.              *)
Looking(t) ==
    t.pc \in {"lock", "probe", "sync", "classify"} \/ (t.pc = "release" /\ t.fresh)
Reviewing ==
    \A r \in Reviewers : Looking(task[r]) =>
        task[r].verdict \in Open /\ op[Of(r)].status \notin {"NONE", "PENDING"}

OnceInv == Holding /\ OneRequest /\ Reviewing /\ CarriedOutOnce /\ OneUnresolved

LEMMA InitOnce == Init => OnceInv
  BY AdminOperationAssumption DEF Init, OnceInv, Holding, OneRequest, Reviewing, CarriedOutOnce,
     OneUnresolved, Unresolved, Blocking, NotSent, Looking, IdleTask, NoOp, Locked, Working, After

(* Every step keeps them and takes an operation along a declared edge.     *)
Allowed == \A c \in Confirms : op'[c].status # op[c].status => op'[c].status \in MayBecome(op[c].status)

(* How the ways a process record changes read.                             *)
Others(p) == \A q \in Procs \ {p} : task'[q] = task[q]

LEMMA GotoReads ==
    ASSUME TasksOK, NEW p \in Procs, NEW pc, Goto(p, pc)
    PROVE  /\ Others(p) /\ task'[p].pc = pc
           /\ task'[p].confirm = task[p].confirm /\ task'[p].verdict = task[p].verdict
           /\ task'[p].fresh = task[p].fresh /\ task'[p].row = task[p].row
           /\ task'[p].base = task[p].base /\ task'[p].target = task[p].target
  BY DEF TasksOK, TaskRecord, Goto, Others

LEMMA EndsReads ==
    ASSUME TasksOK, NEW p \in Procs, NEW v, Ends(p, v)
    PROVE  /\ Others(p) /\ task'[p].pc = "finish" /\ task'[p].verdict = v
           /\ task'[p].confirm = task[p].confirm /\ task'[p].target = task[p].target
  BY DEF TasksOK, Ends, Others, IdleTask

LEMMA DropsReads ==
    ASSUME TasksOK, NEW p \in Procs, Drops(p)
    PROVE  Others(p) /\ task'[p].pc = "release" /\ ~task'[p].fresh
  BY DEF TasksOK, Drops, Others, IdleTask

LEMMA LeaveReads ==
    ASSUME TasksOK, NEW p \in Procs, Leave(p)
    PROVE  Others(p) /\ task'[p].pc = "idle"
  BY DEF TasksOK, Leave, Others, IdleTask

(* Steps that decide nothing: no operation changes, no request is added.   *)
Quiet == UNCHANGED <<op, landed>> /\ flying' \subseteq flying /\ stray \subseteq stray'

LEMMA QuietOps ==
    ASSUME OnceInv, Quiet
    PROVE  OneRequest' /\ CarriedOutOnce' /\ OneUnresolved' /\ Allowed
  BY DEF OnceInv, Quiet, OneRequest, NotSent, CarriedOutOnce, OneUnresolved, Unresolved, Allowed

LEMMA QuietWorld ==
    ASSUME OnceInv, Quiet, UNCHANGED task, \A e \in Executors : lock = e /\ ~At(e, "answer") => lock' = e
    PROVE  OnceInv' /\ Allowed
  <1>1. Holding'
    BY DEF OnceInv, Holding, Quiet, Unresolved, NotSent, Locked
  <1>2. Reviewing'
    BY DEF OnceInv, Reviewing, Looking, Quiet
  <1> QED BY <1>1, <1>2, QuietOps DEF OnceInv

(* What a quiet step must show of the process that takes it.               *)
Advances(p) ==
    /\ task'[p].pc \in Locked => lock' = p
    /\ task'[p].pc = "claim" => \A d \in Confirms : ~Unresolved(d)
    /\ task'[p].pc \in Working => task[p].pc \in Working /\ task'[p].confirm = task[p].confirm
    /\ task'[p].pc \in {"read", "send"} => task[p].pc \in {"read", "send"}
    /\ task'[p].pc \in After => \A u \in flying' : u[1] = task[p].confirm => u[1] \in stray'
    /\ task'[p].pc = "finish" => task'[p].verdict \in Verdicts
Looks(p) ==
    Looking(task'[p]) => /\ task'[p].verdict \in Open
                         /\ op[task'[p].confirm].status \notin {"NONE", "PENDING"}

LEMMA QuietStep ==
    ASSUME TypeInv, OnceInv, Quiet, NEW p \in Procs, Others(p),
           \A e \in Executors \ {p} : lock = e => lock' = e,
           p \in Executors => Advances(p), p \in Reviewers => Looks(p)
    PROVE  OnceInv' /\ Allowed
  <1>1. Holding'
    <2> SUFFICES ASSUME NEW e \in Executors
        PROVE  /\ task'[e].pc \in Locked => lock' = e
               /\ task'[e].pc = "claim" => \A d \in Confirms : op'[d].status \notin Blocking
               /\ task'[e].pc \in Working => op'[task'[e].confirm].status = "PENDING"
               /\ task'[e].pc \in {"read", "send"} =>
                    landed'[task'[e].confirm] = 0 /\ \A u \in flying' : u[1] # task'[e].confirm
               /\ task'[e].pc \in After => \A u \in flying' : u[1] = task'[e].confirm => u[1] \in stray'
               /\ task'[e].pc = "finish" => task'[e].verdict \in Verdicts
               /\ \A f \in Executors :
                    task'[e].pc \in Working /\ task'[f].pc \in Working
                      /\ task'[e].confirm = task'[f].confirm => e = f
      BY DEF Holding, NotSent, Unresolved
    <2>1. \A f \in Executors : task'[f].pc \in Working =>
             task[f].pc \in Working /\ task'[f].confirm = task[f].confirm
      BY DEF Others, Advances
    <2>2. Holding
      BY DEF OnceInv
    <2>3. \A f \in Executors :
             task'[e].pc \in Working /\ task'[f].pc \in Working
               /\ task'[e].confirm = task'[f].confirm => e = f
      BY <2>1, <2>2 DEF Holding
    <2>4. e = p \/ (task'[e] = task[e] /\ (lock = e => lock' = e))
      BY DEF Others
    <2>5. CASE e = p
      <3>1. Advances(e)
        BY <2>5
      <3> QED BY <2>1, <2>2, <2>3, <2>5, <3>1
              DEF Advances, Holding, Quiet, NotSent, Unresolved, Working, After
    <2>6. CASE task'[e] = task[e] /\ (lock = e => lock' = e)
      BY <2>2, <2>3, <2>6 DEF Holding, Quiet, NotSent, Unresolved
    <2> QED BY <2>4, <2>5, <2>6
  <1>2. Reviewing'
    BY DEF OnceInv, Reviewing, Quiet, Others, Looks
  <1> QED BY <1>1, <1>2, QuietOps DEF OnceInv

(* An open operation gets its last verdict from a reviewer.                *)
OpResolvedBy(c, v) ==
    /\ op[c].status \in Open /\ v \in {"RECONCILED", "FAILED"}
    /\ op' = [op EXCEPT ![c] = [NoOp EXCEPT !.status = v]]

LEMMA OpResolved ==
    ASSUME TypeInv, OnceInv, NEW c \in Confirms, NEW v, OpResolvedBy(c, v),
           UNCHANGED <<landed, flying, stray, lock>>,
           \A e \in Executors : task'[e] = task[e],
           \A r \in Reviewers : task'[r] = task[r] \/ ~Looking(task'[r])
    PROVE  OnceInv' /\ Allowed
  <1>0. Holding /\ OneRequest /\ CarriedOutOnce /\ OneUnresolved /\ Reviewing
    BY DEF OnceInv
  <1>1. op'[c].status = v /\ \A d \in Confirms \ {c} : op'[d] = op[d]
    BY DEF OpResolvedBy, TypeInv, StateOK, NoOp
  <1>2. \A p \in Procs : ~At(p, "idle") => Of(p) \in Confirms
    BY DEF TypeInv, TasksOK, Drafted
  <1>3. Holding'
    BY <1>0, <1>1, <1>2
       DEF Holding, OpResolvedBy, Open, NotSent, Unresolved, Blocking, Working, After, Locked
  <1>4. OneRequest'
    BY <1>0, <1>1 DEF OneRequest, OpResolvedBy, Open, NotSent, TypeInv, StateOK
  <1>5. Reviewing'
    BY <1>0, <1>1, <1>2 DEF Reviewing, OpResolvedBy, Open, Looking
  <1>6. CarriedOutOnce' /\ OneUnresolved' /\ Allowed
    BY <1>0, <1>1
       DEF CarriedOutOnce, OneUnresolved, OpResolvedBy, Unresolved, Blocking, Open, Allowed, MayBecome
  <1> QED BY <1>3, <1>4, <1>5, <1>6 DEF OnceInv

LEMMA DraftStepOnce ==
    ASSUME TypeInv, OnceInv, NEW c \in Confirms,
           \/ \E k \in AllKinds : Preview(c, k)
           \/ \E e \in Executors : Confirm(e, c)
           \/ \E r \in Reviewers : StartReconcile(r, c)
           \/ MarkReviewed(c)
    PROVE  OnceInv' /\ Allowed
  <1>0. TasksOK /\ \A e \in Executors : e \in Procs /\ e \notin Reviewers
    BY AdminOperationAssumption DEF TypeInv
  <1>1. ASSUME NEW k \in AllKinds, Preview(c, k) PROVE OnceInv' /\ Allowed
    BY <1>1, QuietWorld DEF Preview, Quiet
  <1>2. ASSUME NEW e \in Executors, Confirm(e, c) PROVE OnceInv' /\ Allowed
    <2>1. Others(e) /\ task'[e].pc = "lock" /\ lock' = lock
      BY <1>0, <1>2 DEF Confirm, TasksOK, Others, IdleTask
    <2>2. Advances(e)
      BY <2>1 DEF Advances, Locked, Working, After
    <2> QED BY <1>0, <1>2, <2>1, <2>2, QuietStep DEF Confirm, Quiet
  <1>3. ASSUME NEW r \in Reviewers, StartReconcile(r, c) PROVE OnceInv' /\ Allowed
    <2>1. /\ Others(r) /\ task'[r].verdict = op[c].status /\ task'[r].confirm = c /\ lock' = lock
      BY <1>0, <1>3 DEF StartReconcile, TasksOK, Others, IdleTask
    <2>2. Looks(r)
      BY <1>3, <2>1 DEF StartReconcile, Reconcilable, Looks, Open
    <2> QED BY <1>0, <1>3, <2>1, <2>2, QuietStep DEF StartReconcile, Quiet
  <1>4. ASSUME MarkReviewed(c) PROVE OnceInv' /\ Allowed
    <2>1. op[c].status \in Open /\ op' = [op EXCEPT ![c] = [NoOp EXCEPT !.status = "RECONCILED"]]
      BY <1>4 DEF MarkReviewed, Reconcilable, Resolved, Open
    <2>2. UNCHANGED <<landed, flying, stray, task, lock>>
      BY <1>4 DEF MarkReviewed
    <2>3. OpResolvedBy(c, "RECONCILED")
      BY <2>1 DEF OpResolvedBy
    <2> QED BY <2>2, <2>3, OpResolved
  <1> QED BY <1>1, <1>2, <1>3, <1>4

LEMMA ExecutorStepOnce ==
    ASSUME TypeInv, OnceInv, NEW e \in Executors,
           ExecutorStep(e) \/ Escapes(e) \/ LockLapses(e) \/ Heartbeat(e)
    PROVE  OnceInv' /\ Allowed
  <1>0. /\ StateOK /\ TasksOK /\ Holding /\ OneRequest /\ OneUnresolved /\ CarriedOutOnce
        /\ e \in Procs /\ e \notin Reviewers /\ task[e] \in TaskRecord
        /\ ~At(e, "idle") => Of(e) \in Confirms
    BY AdminOperationAssumption DEF TypeInv, TasksOK, Drafted, OnceInv
  <1>1. CASE Body(e)
    <2>1. CASE Drops(e)
      BY <1>0, <1>1, <2>1, DropsReads, QuietStep DEF Body, Quiet, Advances, Locked, Working, After
    <2>2. CASE /\ \A d \in Confirms : ~Unresolved(d)
               /\ task' = [task EXCEPT ![e].pc = "claim", ![e].row = row]
      <3>1. Others(e) /\ task'[e].pc = "claim" /\ lock = e /\ lock' = e
        BY <1>0, <1>1, <2>2 DEF Body, TasksOK, TaskRecord, Others, Holding, Locked
      <3>2. Advances(e)
        BY <2>2, <3>1 DEF Advances, Working, After
      <3> QED BY <1>0, <1>1, <3>1, <3>2, QuietStep DEF Body, Quiet
    <2> QED BY <1>1, <2>1, <2>2 DEF Body
  <1>2. CASE Claim(e)
    <2> DEFINE c == Of(e)
    <2>0. At(e, "claim") /\ c \in Confirms /\ lock = e /\ \A d \in Confirms : ~Unresolved(d)
      BY <1>0, <1>2 DEF Claim, Holding, Locked
    <2>1. CASE op[c].status # "NONE"
      BY <1>0, <1>2, <2>1, DropsReads, QuietStep DEF Claim, Quiet, Advances, Locked, Working, After
    <2>2. CASE op[c].status = "NONE"
      <3>0. UNCHANGED <<landed, flying, stray, lock>>
        BY <1>2 DEF Claim
      <3>1. op'[c].status = "PENDING" /\ \A d \in Confirms \ {c} : op'[d] = op[d]
        <4>1. op' = [op EXCEPT ![c] = [@ EXCEPT !.status = "PENDING", !.before = task[e].row]]
          BY <1>2, <2>2 DEF Claim
        <4> QED BY <1>0, <2>0, <4>1 DEF StateOK, OpType
      <3>2. Others(e) /\ task'[e].confirm = c /\ task'[e].pc \in {"read", "send"}
        <4>1. task' = [task EXCEPT ![e] = [IdleTask EXCEPT !.confirm = c,
                           !.pc = IF Kind(c) \in Grants THEN "read" ELSE "send"]]
          BY <1>2, <2>2 DEF Claim
        <4> QED BY <1>0, <4>1 DEF TasksOK, Others, IdleTask
      <3>3. NotSent(c) /\ \A f \in Executors : task[f].pc \in Working => task[f].confirm # c
        BY <1>0, <2>0, <2>2 DEF OneRequest, Holding
      <3>4. \A f \in Executors \ {e} : task[f].pc \notin Locked
        BY <1>0, <2>0 DEF Holding
      <3>5. Holding'
        BY <1>0, <2>0, <3>0, <3>1, <3>2, <3>3, <3>4
           DEF Holding, Others, NotSent, Locked, Working, After, Unresolved, TasksOK, Drafted
      <3>6. OneRequest' /\ CarriedOutOnce'
        BY <1>0, <3>0, <3>1, <3>3 DEF OneRequest, CarriedOutOnce, NotSent, StateOK
      <3>7. Reviewing'
        BY <1>0, <2>0, <2>2, <3>1, <3>2, AdminOperationAssumption
           DEF OnceInv, Reviewing, Looking, Others, TasksOK, Drafted
      <3>8. OneUnresolved' /\ Allowed
        BY <2>0, <2>2, <3>1 DEF OneUnresolved, Unresolved, Allowed, MayBecome
      <3> QED BY <3>5, <3>6, <3>7, <3>8 DEF OnceInv
    <2> QED BY <2>1, <2>2
  <1>3. CASE SendRequest(e)
    <2> DEFINE c == Of(e)  u0 == <<c, Kind(c), Target(e, c)>>
    <2>0. At(e, "send") /\ c \in Confirms /\ NotSent(c) /\ op[c].status = "PENDING"
      BY <1>0, <1>3 DEF SendRequest, Holding, Working
    <2>1. flying' = flying \cup {u0} /\ u0[1] = c /\ UNCHANGED <<op, landed, lock, stray>>
      BY <1>3 DEF SendRequest
    <2>2. Others(e) /\ task'[e].confirm = c /\ task'[e].pc = "answer"
      BY <1>0, <1>3 DEF SendRequest, TasksOK, TaskRecord, Others
    <2> HIDE DEF u0
    <2>3. Holding'
      <3>1. \A f \in Executors \ {e} : task[f].pc \in Working => task[f].confirm # c
        BY <1>0, <2>0 DEF Holding, Working
      <3> QED BY <1>0, <2>0, <2>1, <2>2, <3>1
              DEF Holding, Others, NotSent, Locked, Working, After, Unresolved
    <2>4. OneRequest'
      BY <1>0, <2>0, <2>1 DEF OneRequest, NotSent
    <2>5. Reviewing'
      BY <1>0, <2>1, <2>2 DEF OnceInv, Reviewing, Others
    <2>6. CarriedOutOnce' /\ OneUnresolved' /\ Allowed
      BY <1>0, <2>1 DEF CarriedOutOnce, OneUnresolved, Unresolved, Allowed
    <2> QED BY <2>3, <2>4, <2>5, <2>6 DEF OnceInv
  <1>4. CASE Finish(e)
    <2> DEFINE c == Of(e)  v == task[e].verdict
    <2>0. At(e, "finish") /\ c \in Confirms /\ op[c].status = "PENDING" /\ v \in Verdicts
      BY <1>0, <1>4 DEF Finish, Holding, Working
    <2>1. op'[c].status = v /\ \A d \in Confirms \ {c} : op'[d] = op[d]
      BY <1>0, <1>4, <2>0, ResolvedTyped DEF Finish, StateOK, TaskRecord
    <2>2. UNCHANGED <<landed, flying, lock, stray>>
      BY <1>4 DEF Finish
    <2>3. Others(e) /\ task'[e].pc = "release"
      BY <1>0, <1>4, DropsReads DEF Finish
    <2>4. Holding'
      <3>1. \A f \in Executors \ {e} : task[f].pc \in Working => task[f].confirm # c
        BY <1>0, <2>0 DEF Holding, Working
      <3> QED BY <1>0, <2>0, <2>1, <2>2, <2>3, <3>1
              DEF Holding, Others, NotSent, Locked, Working, After, Unresolved, Blocking, Verdicts,
                  TasksOK, Drafted
    <2>5. OneRequest'
      BY <1>0, <2>0, <2>1, <2>2, <1>4 DEF Finish, OneRequest, Holding, After, NotSent, Verdicts, StateOK
    <2>6. Reviewing'
      BY <1>0, <2>0, <2>1, <2>3 DEF OnceInv, Reviewing, Looking, Others, Verdicts, TasksOK, Drafted
    <2>7. CarriedOutOnce' /\ OneUnresolved' /\ Allowed
      BY <1>0, <2>0, <2>1, <2>2
         DEF CarriedOutOnce, OneUnresolved, Unresolved, Blocking, Allowed, MayBecome, Verdicts
    <2> QED BY <2>4, <2>5, <2>6, <2>7 DEF OnceInv
  <1>5. CASE FreshRead(e)
    <2>1. Quiet
      BY <1>5 DEF FreshRead, Quiet
    <2>2. Others(e) /\ Advances(e)
      <3>1. CASE task' = [task EXCEPT ![e].pc = "send", ![e].base = panel]
        BY <1>0, <1>5, <3>1 DEF FreshRead, Others, Advances, Locked, Working, After, Verdicts,
           Holding, NotSent, TasksOK, TaskRecord
      <3>2. CASE Ends(e, "FAILED")
        BY <1>0, <1>5, <3>2, EndsReads DEF FreshRead, Others, Advances, Locked, Working, After, Verdicts,
           Holding, NotSent, TasksOK, TaskRecord
      <3> QED BY <1>5, <3>1, <3>2 DEF FreshRead
    <2>3. \A f \in Executors \ {e} : lock = f => lock' = f
      BY <1>5 DEF FreshRead
    <2> QED BY <1>0, <2>1, <2>2, <2>3, QuietStep
  <1>6. CASE AdapterRefuses(e)
    <2>1. Quiet
      BY <1>6 DEF AdapterRefuses, Quiet
    <2>2. Others(e) /\ Advances(e)
      <3>1. CASE task' = [task EXCEPT ![e].pc = "verify", ![e].target = Target(e, Of(e))]
        BY <1>0, <1>6, <3>1 DEF AdapterRefuses, Others, Advances, Locked, Working, After, Verdicts,
           Holding, NotSent, TasksOK, TaskRecord
      <3>2. CASE Ends(e, "FAILED")
        BY <1>0, <1>6, <3>2, EndsReads DEF AdapterRefuses, Others, Advances, Locked, Working, After, Verdicts,
           Holding, NotSent, TasksOK, TaskRecord
      <3> QED BY <1>6, <3>1, <3>2 DEF AdapterRefuses
    <2>3. \A f \in Executors \ {e} : lock = f => lock' = f
      BY <1>6 DEF AdapterRefuses
    <2> QED BY <1>0, <2>1, <2>2, <2>3, QuietStep
  <1>7. CASE Answered(e)
    <2>1. Quiet
      BY <1>7 DEF Answered, Quiet
    <2>2. Others(e) /\ Advances(e)
      <3>1. CASE task' = [task EXCEPT ![e].pc = "persist", ![e].base = panel]
        BY <1>0, <1>7, <3>1 DEF Answered, Others, Advances, Locked, Working, After, Verdicts,
           Holding, NotSent, TasksOK, TaskRecord
      <3>2. CASE Ends(e, "RECONCILIATION_REQUIRED")
        BY <1>0, <1>7, <3>2, EndsReads DEF Answered, Others, Advances, Locked, Working, After, Verdicts,
           Holding, NotSent, TasksOK, TaskRecord
      <3> QED BY <1>7, <3>1, <3>2 DEF Answered
    <2>3. \A f \in Executors \ {e} : lock = f => lock' = f
      BY <1>7 DEF Answered
    <2> QED BY <1>0, <2>1, <2>2, <2>3, QuietStep
  <1>8. CASE AnsweredUncertain(e)
    <2>1. Quiet
      BY <1>8 DEF AnsweredUncertain, Quiet, Gone
    <2>2. Others(e) /\ Advances(e)
      BY <1>0, <1>8, EndsReads DEF AnsweredUncertain, Gone, Advances, Locked, Working, After, Verdicts, Holding, NotSent
    <2>3. \A f \in Executors \ {e} : lock = f => lock' = f
      BY <1>8 DEF AnsweredUncertain
    <2> QED BY <1>0, <2>1, <2>2, <2>3, QuietStep
  <1>9. CASE AnsweredError(e)
    <2>1. Quiet
      BY <1>9 DEF AnsweredError, Quiet, Gone
    <2>2. Others(e) /\ Advances(e)
      <3>1. CASE Goto(e, "verify")
        BY <1>0, <1>9, <3>1, GotoReads DEF AnsweredError, Gone, Others, Advances, Locked, Working, After, Verdicts,
           Holding, NotSent, TasksOK, TaskRecord
      <3>2. CASE Ends(e, "FAILED")
        BY <1>0, <1>9, <3>2, EndsReads DEF AnsweredError, Gone, Others, Advances, Locked, Working, After, Verdicts,
           Holding, NotSent, TasksOK, TaskRecord
      <3> QED BY <1>9, <3>1, <3>2 DEF AnsweredError
    <2>3. \A f \in Executors \ {e} : lock = f => lock' = f
      BY <1>9 DEF AnsweredError
    <2> QED BY <1>0, <2>1, <2>2, <2>3, QuietStep
  <1>10. CASE Verify(e)
    <2>1. Quiet
      BY <1>10 DEF Verify, Quiet
    <2>2. Others(e) /\ Advances(e)
      BY <1>0, <1>10, EndsReads DEF Verify, Advances, Locked, Working, After, Verdicts, Holding, NotSent
    <2>3. \A f \in Executors \ {e} : lock = f => lock' = f
      BY <1>10 DEF Verify
    <2> QED BY <1>0, <2>1, <2>2, <2>3, QuietStep
  <1>11. CASE Persist(e)
    <2>1. Quiet
      BY <1>11 DEF Persist, Quiet
    <2>2. Others(e) /\ Advances(e)
      BY <1>0, <1>11, EndsReads DEF Persist, Advances, Locked, Working, After, Verdicts, Holding, NotSent
    <2>3. \A f \in Executors \ {e} : lock = f => lock' = f
      BY <1>11 DEF Persist
    <2> QED BY <1>0, <2>1, <2>2, <2>3, QuietStep
  <1>12. CASE PersistThrows(e)
    <2>1. Quiet
      BY <1>12 DEF PersistThrows, Quiet
    <2>2. Others(e) /\ Advances(e)
      <3>1. CASE Goto(e, "again")
        BY <1>0, <1>12, <3>1, GotoReads DEF PersistThrows, Others, Advances, Locked, Working, After, Verdicts,
           Holding, NotSent, TasksOK, TaskRecord
      <3>2. CASE Ends(e, IF Kind(Of(e)) \in Toggles THEN "UNCERTAIN" ELSE "RECONCILIATION_REQUIRED")
        BY <1>0, <1>12, <3>2, EndsReads DEF PersistThrows, Others, Advances, Locked, Working, After, Verdicts,
           Holding, NotSent, TasksOK, TaskRecord
      <3> QED BY <1>12, <3>1, <3>2 DEF PersistThrows
    <2>3. \A f \in Executors \ {e} : lock = f => lock' = f
      BY <1>12 DEF PersistThrows
    <2> QED BY <1>0, <2>1, <2>2, <2>3, QuietStep
  <1>13. CASE Escapes(e)
    <2>1. Quiet
      BY <1>13 DEF Escapes, Unguarded, Quiet
    <2>2. Others(e) /\ Advances(e)
      BY <1>0, <1>13, DropsReads DEF Escapes, Unguarded, Advances, Locked, Working, After, Verdicts, Holding, NotSent
    <2>3. \A f \in Executors \ {e} : lock = f => lock' = f
      BY <1>13 DEF Escapes, Unguarded
    <2> QED BY <1>0, <2>1, <2>2, <2>3, QuietStep
  <1>14. CASE Heartbeat(e)
    <2>1. Quiet
      BY <1>14 DEF Heartbeat, Quiet
    <2>2. Others(e) /\ Advances(e)
      BY <1>0, <1>14 DEF Heartbeat, Others, Advances, Locked, Working, After, Verdicts, Holding, NotSent
    <2>3. \A f \in Executors \ {e} : lock = f => lock' = f
      BY <1>14 DEF Heartbeat
    <2> QED BY <1>0, <2>1, <2>2, <2>3, QuietStep
  <1>15. CASE LockLapses(e)
    BY <1>0, <1>15, QuietWorld DEF LockLapses, Quiet
  <1> QED BY <1>1, <1>2, <1>3, <1>4, <1>5, <1>6, <1>7, <1>8, <1>9, <1>10, <1>11, <1>12, <1>13, <1>14, <1>15 DEF ExecutorStep

LEMMA ReviewerStepOnce ==
    ASSUME TypeInv, OnceInv, NEW r \in Reviewers, ReviewerStep(r)
    PROVE  OnceInv' /\ Allowed
  <1>0. /\ StateOK /\ TasksOK /\ Reviewing /\ r \in Procs /\ r \notin Executors
        /\ task[r] \in TaskRecord
        /\ ~At(r, "idle") => Of(r) \in Confirms
    BY AdminOperationAssumption DEF TypeInv, TasksOK, Drafted, OnceInv
  <1>1. CASE Probe(r)
    <2>1. Others(r) /\ Looks(r)
      BY <1>0, <1>1, DropsReads DEF Probe, Others, Looks, Looking, Reviewing, TasksOK, TaskRecord
    <2> QED BY <1>0, <1>1, <2>1, QuietStep DEF Probe, Quiet
  <1>2. CASE SyncRow(r)
    <2>1. Others(r) /\ Looks(r)
      BY <1>0, <1>2, DropsReads DEF SyncRow, Others, Looks, Looking, Reviewing, TasksOK, TaskRecord
    <2> QED BY <1>0, <1>2, <2>1, QuietStep DEF SyncRow, Quiet
  <1>3. CASE Classify(r)
    <2> DEFINE c == Of(r)  v == Verdict(c, task[r].row)
    <2>1. Others(r) /\ task'[r].pc = "idle" /\ UNCHANGED <<landed, flying, stray, lock>>
      BY <1>0, <1>3, LeaveReads DEF Classify
    <2>2. CASE op' = op
      <3>1. Looks(r)
        BY <2>1 DEF Looks, Looking
      <3> QED BY <1>0, <2>1, <2>2, <3>1, QuietStep DEF Quiet
    <2>3. CASE op' # op
      <3>1. /\ v \in {"RECONCILED", "FAILED"} /\ op[c].status = task[r].verdict
            /\ op' = [op EXCEPT ![c] = Resolved(op[c], v, op[c].after)]
        BY <1>3, <2>3, VerdictTyped DEF Classify
      <3>2. c \in Confirms /\ op[c].status \in Open
        <4>1. Looking(task[r]) /\ ~At(r, "idle")
          BY <1>3 DEF Classify, Looking
        <4>2. task[r].verdict \in Open
          BY <1>0, <4>1 DEF Reviewing
        <4>3. c \in Confirms
          BY <1>0, <4>1
        <4> HIDE DEF v
        <4>4. op[c].status = task[r].verdict
          BY <3>1
        <4> QED BY <4>2, <4>3, <4>4
      <3>3. op' = [op EXCEPT ![c] = [NoOp EXCEPT !.status = v]]
        BY <3>1 DEF Resolved, Open
      <3>4. OpResolvedBy(c, v)
        BY <3>1, <3>2, <3>3 DEF OpResolvedBy
      <3>5. \A f \in Executors : task'[f] = task[f]
        BY <1>0, <2>1 DEF Others
      <3>6. \A q \in Reviewers : task'[q] = task[q] \/ ~Looking(task'[q])
        BY <2>1 DEF Others, Looking
      <3> QED BY <2>1, <3>2, <3>4, <3>5, <3>6, OpResolved
    <2> QED BY <2>2, <2>3
  <1> QED BY <1>1, <1>2, <1>3 DEF ReviewerStep

LEMMA LockStepOnce ==
    ASSUME TypeInv, OnceInv, NEW p \in Procs, LockStep(p)
    PROVE  OnceInv' /\ Allowed
  <1>0. TasksOK /\ Holding /\ Reviewing /\ Executors \cap Reviewers = {} /\ task[p] \in TaskRecord
        /\ Free \notin Procs
    BY AdminOperationAssumption DEF TypeInv, TasksOK, OnceInv
  <1>1. CASE AcquireLock(p)
    <2>1. Others(p) /\ \A f \in Executors : lock # f
      BY <1>0, <1>1, GotoReads DEF AcquireLock
    <2>2. p \in Executors => Advances(p)
      BY <1>0, <1>1, GotoReads DEF AcquireLock, Advances, Working, Locked, After
    <2>3. p \in Reviewers => Looks(p)
      BY <1>0, <1>1, GotoReads DEF AcquireLock, Looks, Looking, Reviewing, TaskRecord
    <2> QED BY <1>1, <2>1, <2>2, <2>3, QuietStep DEF AcquireLock, Quiet
  <1>2. CASE GiveUpLock(p)
    <2>1. Others(p) /\ Advances(p) /\ Looks(p)
      BY <1>0, <1>2, LeaveReads DEF GiveUpLock, Advances, Looks, Looking, Locked, Working, After
    <2> QED BY <1>2, <2>1, QuietStep DEF GiveUpLock, Quiet
  <1>3. CASE Release(p)
    <2>1. Others(p) /\ Advances(p)
      BY <1>0, <1>3, LeaveReads, GotoReads DEF Release, Advances, Locked, Working, After
    <2>2. p \in Reviewers => Looks(p)
      BY <1>0, <1>3, LeaveReads, GotoReads DEF Release, Looks, Looking, Reviewing, TaskRecord
    <2> QED BY <1>3, <2>1, <2>2, QuietStep DEF Release, Quiet
  <1> QED BY <1>1, <1>2, <1>3 DEF LockStep

LEMMA OutsideStepOnce ==
    ASSUME TypeInv, OnceInv,
           \/ \E u \in flying : RequestLands(u) \/ RequestIsLost(u)
           \/ PaidOperation \/ ToggleService \/ OpenPage
           \/ NextDay \/ LockExpires \/ BotCrash
    PROVE  OnceInv' /\ Allowed
  <1>1. ASSUME NEW u \in flying, RequestLands(u) PROVE OnceInv' /\ Allowed
    <2> DEFINE c == u[1]
    <2>0. Holding /\ OneRequest /\ CarriedOutOnce /\ OneUnresolved /\ Reviewing
      BY DEF OnceInv
    <2>1. c \in Confirms /\ landed \in [Confirms -> Nat] /\ landed[c] = 0
      BY <2>0 DEF TypeInv, StateOK, OneRequest
    <2>2. /\ flying' = flying \ {u} /\ landed' = [landed EXCEPT ![c] = 1]
          /\ UNCHANGED <<op, stray, task, lock>>
      BY <1>1, <2>1 DEF RequestLands
    <2>3. \A d \in Confirms : NotSent(d) => d # c
      BY DEF NotSent
    <2>4. \A v \in flying' : v[1] # c
      BY <2>0, <2>2 DEF OneRequest
    <2>5. \A e \in Executors : ~At(e, "idle") => Of(e) \in Confirms
      BY DEF TypeInv, TasksOK, Drafted
    <2>6. \A d \in Confirms : NotSent(d) => NotSent(d)'
      BY <2>1, <2>2, <2>3 DEF NotSent
    <2>7. Holding'
      BY <2>0, <2>2, <2>5, <2>6 DEF Holding, Unresolved
    <2>8. OneRequest'
      BY <2>0, <2>1, <2>2, <2>4, <2>6 DEF OneRequest, TypeInv, StateOK
    <2>9. Reviewing' /\ CarriedOutOnce' /\ OneUnresolved' /\ Allowed
      BY <2>0, <2>1, <2>2
         DEF Reviewing, Looking, CarriedOutOnce, OneUnresolved, Unresolved, Allowed
    <2> QED BY <2>7, <2>8, <2>9 DEF OnceInv
  <1>2. ASSUME NEW u \in flying, RequestIsLost(u) PROVE OnceInv' /\ Allowed
    BY <1>2, QuietWorld DEF RequestIsLost, Quiet
  <1>3. CASE PaidOperation
    BY <1>3, QuietWorld DEF PaidOperation, Quiet
  <1>4. CASE ToggleService
    BY <1>4, QuietWorld DEF ToggleService, Quiet
  <1>5. CASE OpenPage \/ NextDay
    BY <1>5, QuietWorld DEF OpenPage, NextDay, Quiet
  <1>6. CASE LockExpires
    BY <1>6, QuietWorld, AdminOperationAssumption DEF LockExpires, Quiet
  <1>7. CASE BotCrash
    <2>1. Quiet /\ \A p \in Procs : task'[p].pc = "idle"
      BY <1>7 DEF BotCrash, Quiet, IdleTask
    <2>2. Holding' /\ Reviewing'
      BY <2>1 DEF Holding, Reviewing, Looking, Locked, Working, After
    <2> QED BY <2>1, <2>2, QuietOps DEF OnceInv
  <1> QED BY <1>1, <1>2, <1>3, <1>4, <1>5, <1>6, <1>7

LEMMA OnceStep == TypeInv /\ OnceInv /\ [Next]_vars => OnceInv' /\ Allowed
  <1> SUFFICES ASSUME TypeInv, OnceInv, [Next]_vars PROVE OnceInv' /\ Allowed
    OBVIOUS
  <1>1. CASE UNCHANGED vars
    BY <1>1, QuietWorld DEF vars, Quiet
  <1>2. CASE Next
    BY <1>2, DraftStepOnce, ExecutorStepOnce, ReviewerStepOnce, LockStepOnce, OutsideStepOnce
       DEF Next
  <1> QED BY <1>1, <1>2

LEMMA OnceHolds == Spec => [](TypeInv /\ OnceInv)
  BY InitTyped, TypeStep, InitOnce, OnceStep, PTL DEF Spec

(* However often a confirmation is repeated or its operation reconciled,   *)
(* its request is carried out at most once.                                *)
THEOREM AdminCarriedOutOnce == Spec => []CarriedOutOnce
  BY OnceHolds, PTL DEF OnceInv

(* A reading of the account speaks of one operation.                       *)
THEOREM AdminOneUnresolved == Spec => []OneUnresolved
  BY OnceHolds, PTL DEF OnceInv

(* No verdict is overwritten: ALLOWED_TRANSITIONS is kept, though the      *)
(* executor writes by id.                                                  *)
THEOREM AdminTransitions == Spec => TransitionsAllowed
  BY OnceHolds, OnceStep, PTL DEF Spec, TransitionsAllowed, Allowed

-----------------------------------------------------------------------------
(* What the values say: the account an executor or a reviewer has read is  *)
(* the account as it is, as long as nobody else changed it.                *)
Same(a, b) == a.limit = b.limit /\ a.expiry = b.expiry
Aims(c, t, a) ==
    /\ Kind(c) = "ADD_VOLUME" => t.limit = a.limit + Amount[c] /\ t.expiry = a.expiry
    /\ Kind(c) = "ADD_TIME"   => t.limit = a.limit /\ t.expiry >= a.expiry + Amount[c]
Beyond(c, t, a) ==
    /\ Kind(c) = "ADD_VOLUME" => t.limit > a.limit
    /\ Kind(c) = "ADD_TIME"   => t.expiry > a.expiry
Untouched(c) == IsGrant(c) /\ c \notin stray \cup disturbed

Sent == {"answer"} \cup After
Reading(e) ==
    LET c == Of(e)  t == task[e] IN
    /\ t.pc \in Sent => \A u \in flying : u[1] = c => u[2] = Kind(c) /\ u[3] = t.target
    /\ t.pc \in {"persist", "again"} => landed[c] # 0
    /\ IsGrant(c) =>
         /\ t.pc \in {"answer", "verify"} => Aims(c, t.target, t.base)
         /\ t.pc \in {"send", "answer", "verify"} /\ landed[c] = 0 /\ c \notin disturbed
              => Same(panel, t.base)
         /\ t.pc \in {"send", "answer"} /\ landed[c] = 0 /\ lock = e /\ stray \subseteq {c}
              => Same(panel, t.base)
         /\ t.pc \in Sent /\ landed[c] # 0 /\ c \notin disturbed => Same(panel, t.target)
         /\ t.pc = "finish" /\ t.verdict = "SUCCEEDED" => landed[c] # 0 /\ c \in audited
    /\ Untouched(c) /\ t.pc = "finish" =>
         /\ t.verdict = "FAILED" => landed[c] = 0
         /\ t.verdict \in Open /\ landed[c] = 0 => Beyond(c, t.target, panel)
Judging(r) ==
    LET c == Of(r)  t == task[r] IN
    Looking(t) /\ Untouched(c) /\ op[c].status \in Open =>
        /\ t.pc = "sync" => Same(t.base, panel)
        /\ t.pc \in {"release", "classify"} => Same(t.row, panel)
Entry(c) ==
    Untouched(c) =>
        /\ op[c].status = "FAILED" => landed[c] = 0
        /\ op[c].status \in {"SUCCEEDED", "RECONCILED"} => landed[c] = 1
        /\ op[c].status = "SUCCEEDED" => c \in audited
        /\ op[c].status \in Open =>
             /\ landed[c] # 0 => Same(panel, op[c].after)
             /\ landed[c] = 0 => Beyond(c, op[c].after, panel)

ValueInv ==
    /\ \A e \in Executors : Reading(e)
    /\ \A r \in Reviewers : Judging(r)
    /\ \A c \in Confirms : Entry(c)

LEMMA InitValues == Init => ValueInv
  BY DEF Init, ValueInv, Reading, Judging, Entry, Looking, Untouched, IsGrant, IdleTask, NoOp,
     NoDraft, Sent, After, Grants

(* Steps that leave quota, last day and the ghosts' promises as they are.  *)
Still ==
    /\ Same(panel', panel) /\ landed' = landed /\ KindsKept
    /\ stray \subseteq stray' /\ disturbed \subseteq disturbed' /\ audited \subseteq audited'

LEMMA KindOfTask ==
    ASSUME TypeInv, KindsKept, NEW p \in Procs, ~At(p, "idle")
    PROVE  Of(p) \in Confirms /\ draft'[Of(p)].kind = Kind(Of(p))
  BY DEF TypeInv, TasksOK, Drafted, KindsKept

LEMMA SameReading ==
    ASSUME TypeInv, Still, NEW e \in Executors, Reading(e), task'[e] = task[e],
           lock' = e => lock = e,
           task[e].pc \in Working => \A u \in flying' \ flying : u[1] # Of(e)
    PROVE  Reading(e)'
  <1>1. CASE task[e].pc \notin Working
    BY <1>1 DEF Reading, Sent, After, Working
  <1>2. CASE task[e].pc \in Working
    <2>1. Of(e) \in Confirms /\ draft'[Of(e)].kind = Kind(Of(e)) /\ ~At(e, "idle")
      BY <1>2, KindOfTask DEF Working, Still
    <2> QED BY <1>2, <2>1 DEF Reading, Still, Same, Aims, Beyond, Untouched, IsGrant
  <1> QED BY <1>1, <1>2

LEMMA SameJudging ==
    ASSUME TypeInv, OnceInv, Still, Allowed, NEW r \in Reviewers, Judging(r), task'[r] = task[r]
    PROVE  Judging(r)'
  <1> SUFFICES ASSUME Looking(task[r]), op'[Of(r)].status \in Open
      PROVE  Judging(r)'
    BY DEF Judging, Looking
  <1>1. Of(r) \in Confirms /\ draft'[Of(r)].kind = Kind(Of(r))
    BY KindOfTask DEF Looking, Still
  <1>2. op[Of(r)].status \notin {"NONE", "PENDING"}
    BY DEF OnceInv, Reviewing
  <1>3. op[Of(r)].status \in Open
    BY <1>1, <1>2 DEF Allowed, MayBecome, Open
  <1> QED BY <1>1, <1>3 DEF Judging, Still, Same, Untouched, IsGrant

LEMMA SameEntry ==
    ASSUME TypeInv, Still, NEW c \in Confirms, Entry(c), op'[c] = op[c]
    PROVE  Entry(c)'
  <1>1. CASE Kind(c) \in AllKinds
    BY <1>1 DEF Entry, Still, KindsKept, Same, Beyond, Untouched, IsGrant
  <1>2. CASE Kind(c) \notin AllKinds
    BY <1>2 DEF TypeInv, StateOK, Entry, Open
  <1> QED BY <1>1, <1>2

LEMMA WorldValues ==
    ASSUME TypeInv, OnceInv, ValueInv, Still, UNCHANGED <<op, task>>, flying' \subseteq flying,
           \A e \in Executors : lock' = e => lock = e
    PROVE  ValueInv'
  <1>1. Allowed
    BY DEF Allowed
  <1> QED BY <1>1, SameReading, SameJudging, SameEntry DEF ValueInv

(* What a step of p must show of p, and of the operations it decides.      *)
LEMMA StepValues ==
    ASSUME TypeInv, OnceInv, ValueInv, Still, Allowed, NEW p \in Procs, Others(p),
           \A e \in Executors \ {p} : lock' = e => lock = e,
           \A e \in Executors \ {p} :
              task[e].pc \in Working => \A u \in flying' \ flying : u[1] # Of(e),
           \A c \in Confirms : op'[c] = op[c] \/ Entry(c)',
           p \in Executors => Reading(p)', p \in Reviewers => Judging(p)'
    PROVE  ValueInv'
  <1>1. ASSUME NEW e \in Executors PROVE Reading(e)'
    BY SameReading DEF ValueInv, Others
  <1>2. ASSUME NEW r \in Reviewers PROVE Judging(r)'
    BY SameJudging DEF ValueInv, Others
  <1>3. ASSUME NEW c \in Confirms PROVE Entry(c)'
    BY SameEntry DEF ValueInv
  <1> QED BY <1>1, <1>2, <1>3 DEF ValueInv

(* A process with nothing to show.                                         *)
LEMMA NoReading ==
    ASSUME NEW e \in Executors, task'[e].pc \notin {"send"} \cup Sent
    PROVE  Reading(e)'
  BY DEF Reading, Sent, After

LEMMA NoJudging ==
    ASSUME NEW r \in Reviewers, task'[r].pc \notin {"sync", "release", "classify"} \/ ~Looking(task'[r])
    PROVE  Judging(r)'
  BY DEF Judging

LEMMA KeptDraft == UNCHANGED draft => KindsKept
  BY DEF KindsKept

LEMMA DraftStepValues ==
    ASSUME TypeInv, OnceInv, ValueInv, Allowed, NEW c \in Confirms,
           \/ \E k \in AllKinds : Preview(c, k)
           \/ \E e \in Executors : Confirm(e, c)
           \/ \E r \in Reviewers : StartReconcile(r, c)
           \/ MarkReviewed(c)
    PROVE  ValueInv'
  <1>0. TasksOK /\ StateOK /\ \A e \in Executors : e \in Procs /\ e \notin Reviewers
    BY AdminOperationAssumption DEF TypeInv
  <1>1. ASSUME NEW k \in AllKinds, Preview(c, k) PROVE ValueInv'
    <2>1. KindsKept
      BY <1>0, <1>1 DEF Preview, KindsKept, StateOK, DraftType, AllKinds, Grants, Toggles
    <2>2. Still
      BY <1>1, <2>1 DEF Preview, Still, Same
    <2> QED BY <1>1, <2>2, WorldValues DEF Preview
  <1>2. ASSUME NEW e \in Executors, Confirm(e, c) PROVE ValueInv'
    <2>1. Others(e) /\ task'[e].pc = "lock"
      BY <1>0, <1>2 DEF Confirm, TasksOK, Others, IdleTask
    <2>2. Still
      BY <1>2, KeptDraft DEF Confirm, Still, Same
    <2>3. Reading(e)'
      BY <2>1, NoReading DEF Sent, After
    <2> QED BY <1>0, <1>2, <2>1, <2>2, <2>3, StepValues DEF Confirm
  <1>3. ASSUME NEW r \in Reviewers, StartReconcile(r, c) PROVE ValueInv'
    <2>1. Others(r) /\ task'[r].pc = "lock" /\ r \notin Executors
      BY <1>0, <1>3 DEF StartReconcile, TasksOK, Others, IdleTask
    <2>2. Still
      BY <1>3, KeptDraft DEF StartReconcile, Still, Same
    <2>3. Judging(r)'
      BY <2>1, NoJudging
    <2> QED BY <1>3, <2>1, <2>2, <2>3, StepValues DEF StartReconcile
  <1>4. CASE MarkReviewed(c)
    <2>1. Still /\ UNCHANGED <<task, flying, lock, draft>>
      BY <1>4, KeptDraft DEF MarkReviewed, Still, Same
    <2>2. \A d \in Confirms \ {c} : op'[d] = op[d]
      BY <1>0, <1>4 DEF MarkReviewed, StateOK
    <2>3. Entry(c)'
      BY <1>4, <2>1 DEF MarkReviewed, Entry, Untouched, IsGrant, Grants
    <2>4. \A d \in Confirms : Entry(d)'
      BY <2>1, <2>2, <2>3, SameEntry DEF ValueInv
    <2>5. \A e \in Executors : Reading(e)'
      BY <2>1, SameReading DEF ValueInv
    <2>6. \A r \in Reviewers : Judging(r)'
      BY <2>1, SameJudging DEF ValueInv
    <2> QED BY <2>4, <2>5, <2>6 DEF ValueInv
  <1> QED BY <1>1, <1>2, <1>3, <1>4

(* A grant aims past what was read.                                        *)
LEMMA TargetAims ==
    ASSUME TypeInv, NEW e \in Executors, ~At(e, "idle")
    PROVE  Aims(Of(e), Target(e, Of(e)), task[e].base)
  <1> DEFINE c == Of(e)  a == task[e].base
  <1>1. c \in Confirms /\ Amount[c] \in Nat /\ a \in Accounts /\ today \in Nat
    BY AdminOperationAssumption DEF TypeInv, StateOK, TasksOK, Drafted, TaskRecord
  <1>2. Extended(a.expiry, Amount[c]) >= a.expiry + Amount[c]
    BY <1>1, ExtendedTyped DEF Accounts
  <1>3. ASSUME Kind(c) = "ADD_VOLUME"
        PROVE Target(e, c) = [a EXCEPT !.limit = @ + Amount[c], !.enabled = TRUE]
    BY <1>3 DEF Target, Toggles
  <1>4. ASSUME Kind(c) = "ADD_TIME"
        PROVE Target(e, c) = [a EXCEPT !.expiry = Extended(@, Amount[c]), !.enabled = TRUE]
    BY <1>4 DEF Target, Toggles
  <1>5. a.limit \in Nat /\ a.expiry \in Nat
    BY <1>1 DEF Accounts
  <1> HIDE DEF a
  <1>6. CASE Kind(c) = "ADD_VOLUME"
    <2>1. Target(e, c).limit = a.limit + Amount[c] /\ Target(e, c).expiry = a.expiry
      BY <1>1, <1>3, <1>6 DEF Accounts
    <2> QED BY <1>6, <2>1 DEF Aims, a
  <1>7. CASE Kind(c) = "ADD_TIME"
    <2>1. Target(e, c).limit = a.limit /\ Target(e, c).expiry = Extended(a.expiry, Amount[c])
      BY <1>1, <1>4, <1>7 DEF Accounts
    <2> QED BY <1>2, <1>7, <2>1 DEF Aims, a
  <1> QED BY <1>6, <1>7 DEF Aims, a

LEMMA AimsBeyond ==
    ASSUME NEW c \in Confirms, NEW t \in Accounts, NEW a \in Accounts, NEW b \in Accounts,
           Aims(c, t, a), Same(b, a)
    PROVE  Beyond(c, t, b)
  BY AdminOperationAssumption DEF Aims, Same, Beyond, Accounts

(* A reading of the account tells a landed grant from one that has not.    *)
LEMMA AppliedTells ==
    ASSUME NEW c \in Confirms, IsGrant(c), NEW fresh, NEW t, NEW a \in Accounts,
           Same(fresh, a), t.limit \in Nat, t.expiry \in Nat
    PROVE  /\ Same(a, t) => Applied(Kind(c), fresh, t)
           /\ Beyond(c, t, a) => ~Applied(Kind(c), fresh, t)
  BY DEF IsGrant, Grants, Same, Beyond, Applied, Accounts

LEMMA ExecutorStepValues ==
    ASSUME TypeInv, OnceInv, ValueInv, Allowed, NEW e \in Executors,
           ExecutorStep(e) \/ Escapes(e) \/ LockLapses(e) \/ Heartbeat(e)
    PROVE  ValueInv'
  <1> DEFINE c == Of(e)
  <1>0. /\ TasksOK /\ StateOK /\ Holding /\ CarriedOutOnce /\ OneUnresolved
        /\ Reading(e) /\ e \in Procs /\ e \notin Reviewers /\ task[e] \in TaskRecord
        /\ ~At(e, "idle") => c \in Confirms /\ Kind(c) \in AllKinds
    BY AdminOperationAssumption DEF TypeInv, TasksOK, Drafted, OnceInv, ValueInv
  (* The steps after which there is nothing to show of e.                  *)
  <1>1. CASE Body(e)
    <2>1. Others(e) /\ task'[e].pc \in {"claim", "release"}
      BY <1>0, <1>1, DropsReads DEF Body, TasksOK, TaskRecord, Others
    <2>2. Still
      BY <1>1, KeptDraft DEF Body, Still, Same
    <2>3. Reading(e)'
      BY <2>1, NoReading DEF Sent, After
    <2> QED BY <1>0, <1>1, <2>1, <2>2, <2>3, StepValues DEF Body
  <1>2. CASE Escapes(e)
    <2>1. Others(e) /\ task'[e].pc = "release"
      BY <1>0, <1>2, DropsReads DEF Escapes, Unguarded
    <2>2. Still
      BY <1>2, KeptDraft DEF Escapes, Unguarded, Still, Same
    <2>3. Reading(e)'
      BY <2>1, NoReading DEF Sent, After
    <2> QED BY <1>0, <1>2, <2>1, <2>2, <2>3, StepValues DEF Escapes, Unguarded
  <1>3. CASE LockLapses(e)
    <2>1. Still
      BY <1>3, KeptDraft DEF LockLapses, Still, Same
    <2> QED BY <1>0, <1>3, <2>1, WorldValues, AdminOperationAssumption DEF LockLapses
  <1>4. CASE Claim(e)
    <2>0. At(e, "claim") /\ c \in Confirms
      BY <1>0, <1>4 DEF Claim
    <2>1. Others(e) /\ task'[e].confirm = c
      <3>1. CASE Drops(e)
        BY <1>0, <3>1 DEF Drops, TasksOK, Others, IdleTask
      <3>2. CASE task' = [task EXCEPT ![e] = [IdleTask EXCEPT !.confirm = c,
                              !.pc = IF Kind(c) \in Grants THEN "read" ELSE "send"]]
        BY <1>0, <3>2 DEF TasksOK, Others, IdleTask
      <3> QED BY <1>4, <3>1, <3>2 DEF Claim
    <2>2. KindsKept
      BY <1>0, <1>4, <2>0, KeptDraft DEF Claim, KindsKept, StateOK, DraftType
    <2>3. Still /\ UNCHANGED <<flying, lock>>
      BY <1>4, <2>2 DEF Claim, Still, Same
    <2>4. \A d \in Confirms \ {c} : op'[d] = op[d]
      BY <1>0, <1>4 DEF Claim, StateOK
    <2>5. PICK d \in Confirms : d = c
      BY <2>0
    <2>6. op'[d] = op[d] \/ Entry(d)'
      <3>1. CASE op' = op
        BY <3>1
      <3>2. CASE op' = [op EXCEPT ![c] = [@ EXCEPT !.status = "PENDING", !.before = task[e].row]]
        <4>1. op'[d].status = "PENDING"
          BY <1>0, <2>5, <3>2 DEF StateOK, OpType
        <4> QED BY <4>1 DEF Entry, Open
      <3> QED BY <1>4, <3>1, <3>2 DEF Claim
    <2>7. draft'[c].kind = Kind(c)
      BY <1>0, <2>0, <2>2 DEF KindsKept
    <2>8. task'[e].pc \in {"release", "read"} \/ (task'[e].pc = "send" /\ Kind(c) \notin Grants)
      <3>1. CASE Drops(e)
        BY <1>0, <3>1, DropsReads
      <3>2. CASE task' = [task EXCEPT ![e] = [IdleTask EXCEPT !.confirm = c,
                              !.pc = IF Kind(c) \in Grants THEN "read" ELSE "send"]]
        BY <1>0, <3>2 DEF TasksOK, IdleTask
      <3> QED BY <1>4, <3>1, <3>2 DEF Claim
    <2>9. Reading(e)'
      BY <2>1, <2>7, <2>8 DEF Reading, IsGrant, Untouched, Sent, After
    <2> QED BY <1>0, <2>1, <2>3, <2>4, <2>5, <2>6, <2>9, StepValues
  <1>5. CASE FreshRead(e)
    <2>0. At(e, "read") /\ NotSent(c)
      BY <1>0, <1>5 DEF FreshRead, Holding
    <2>1. Still /\ UNCHANGED <<op, flying, lock, landed, panel, draft, stray, disturbed, audited>>
      BY <1>5, KeptDraft DEF FreshRead, Still, Same
    <2>2. CASE task' = [task EXCEPT ![e].pc = "send", ![e].base = panel]
      <3>1. /\ Others(e) /\ task'[e].pc = "send" /\ task'[e].base = panel /\ task'[e].confirm = c
        BY <1>0, <2>2 DEF TasksOK, TaskRecord, Others
      <3>2. Reading(e)'
        BY <2>1, <3>1 DEF Reading, Sent, After, Same
      <3> QED BY <1>0, <2>1, <3>1, <3>2, StepValues
    <2>3. CASE Ends(e, "FAILED")
      <3>1. Others(e) /\ task'[e].pc = "finish" /\ task'[e].confirm = c /\ task'[e].verdict = "FAILED"
        BY <1>0, <2>3, EndsReads
      <3>2. Reading(e)'
        BY <2>0, <2>1, <3>1 DEF Reading, NotSent, Open
      <3> QED BY <1>0, <2>1, <3>1, <3>2, StepValues
    <2> QED BY <1>5, <2>2, <2>3 DEF FreshRead
  <1>6. ASSUME SendRequest(e) \/ AdapterRefuses(e), NEW pc \in {"answer", "verify"},
               task' = [task EXCEPT ![e].pc = pc, ![e].target = Target(e, c)],
               \A u \in flying' : u[1] = c => u[2] = Kind(c) /\ u[3] = Target(e, c)
        PROVE  Others(e) /\ Reading(e)'
    <2>0. At(e, "send") /\ NotSent(c) /\ ~At(e, "idle")
      BY <1>0, <1>6 DEF SendRequest, AdapterRefuses, Holding
    <2>1. /\ Others(e) /\ task'[e].pc = pc /\ task'[e].target = Target(e, c)
          /\ task'[e].base = task[e].base /\ task'[e].confirm = c
      BY <1>0, <1>6 DEF TasksOK, TaskRecord, Others
    <2>2. UNCHANGED <<landed, panel, draft, stray, disturbed, lock>>
      BY <1>6 DEF SendRequest, AdapterRefuses
    <2>3. Aims(c, Target(e, c), task[e].base)
      BY <2>0, TargetAims
    <2>4. /\ IsGrant(c) /\ c \notin disturbed => Same(panel, task[e].base)
          /\ IsGrant(c) /\ lock = e /\ stray \subseteq {c} => Same(panel, task[e].base)
      BY <1>0, <2>0 DEF Reading, NotSent
    <2>5. landed[c] = 0 /\ pc # "finish" /\ pc \notin {"persist", "again"}
      BY <2>0 DEF NotSent
    <2>6. stray' = stray
      BY <2>2
    <2>7. PICK t : t = Target(e, c)
      OBVIOUS
    <2>8. PICK d \in Confirms : d = c
      BY <1>0, <2>0
    <2>9. Aims(d, t, task[e].base) /\ IsGrant(d)' = IsGrant(d) /\ task'[e].confirm = d
      BY <2>1, <2>2, <2>3, <2>7, <2>8 DEF IsGrant
    <2>10. Aims(d, t, task[e].base)'
      BY <2>1, <2>2, <2>9 DEF Aims
    <2>11. /\ IsGrant(d) /\ d \notin disturbed => Same(panel, task[e].base)'
           /\ IsGrant(d) /\ lock = e /\ stray \subseteq {d} => Same(panel, task[e].base)'
      BY <2>1, <2>2, <2>4, <2>8 DEF Same
    <2>12. \A u \in flying' : u[1] = d => u[2] = draft'[d].kind /\ u[3] = t
      BY <1>6, <2>2, <2>7, <2>8
    <2>13. landed'[d] = 0 /\ task'[e].pc \in {"answer", "verify"} /\ task'[e].target = t
      BY <2>1, <2>2, <2>5, <2>7, <2>8
    <2>14. Reading(e)'
      BY <2>2, <2>6, <2>9, <2>10, <2>11, <2>12, <2>13 DEF Reading, Untouched
    <2> QED BY <2>1, <2>14
  <1>7. CASE SendRequest(e)
    <2> DEFINE u0 == <<c, Kind(c), Target(e, c)>>
    <2>0. At(e, "send") /\ NotSent(c) /\ ~At(e, "idle") /\ task[e].pc \in Working
      BY <1>0, <1>7 DEF SendRequest, Holding, Working
    <2>1. Still /\ UNCHANGED <<op, lock>> /\ flying' = flying \cup {u0}
      BY <1>7, KeptDraft DEF SendRequest, Still, Same
    <2>2. \A u \in flying' : u[1] = c => u[2] = Kind(c) /\ u[3] = Target(e, c)
      BY <2>0, <2>1 DEF NotSent
    <2>3. Others(e) /\ Reading(e)'
      BY <1>6, <1>7, <2>2 DEF SendRequest
    <2>4. \A f \in Executors \ {e} : task[f].pc \in Working => Of(f) # c
      BY <1>0, <2>0 DEF Holding
    <2>5. \A f \in Executors \ {e} : task[f].pc \in Working => \A u \in flying' \ flying : u[1] # Of(f)
      BY <2>1, <2>4
    <2> HIDE DEF u0
    <2> QED BY <1>0, <2>1, <2>3, <2>5, StepValues
  <1>8. CASE AdapterRefuses(e)
    <2>0. At(e, "send") /\ NotSent(c)
      BY <1>0, <1>8 DEF AdapterRefuses, Holding
    <2>1. Still /\ UNCHANGED <<op, flying, lock, landed>>
      BY <1>8, KeptDraft DEF AdapterRefuses, Still, Same
    <2>2. CASE Kind(c) \in Grants
      <3>1. Others(e) /\ Reading(e)'
        BY <1>6, <1>8, <2>0, <2>1, <2>2 DEF AdapterRefuses, NotSent
      <3> QED BY <1>0, <2>1, <3>1, StepValues
    <2>3. CASE Kind(c) \notin Grants
      <3>1. Others(e) /\ task'[e].pc = "finish" /\ task'[e].confirm = c /\ task'[e].verdict = "FAILED"
        BY <1>0, <1>8, <2>3, EndsReads DEF AdapterRefuses
      <3>2. Reading(e)'
        BY <2>0, <2>1, <3>1 DEF Reading, NotSent, Open
      <3> QED BY <1>0, <2>1, <3>1, <3>2, StepValues
    <2> QED BY <2>2, <2>3
  (* A verdict to write, when the request is past its executor.            *)
  <1>9. ASSUME NEW v \in Verdicts, Ends(e, v), Still, task[e].pc \in Sent,
               UNCHANGED <<panel, draft, disturbed>>, flying' = flying,
               IsGrant(c) /\ v = "SUCCEEDED" => landed[c] # 0 /\ c \in audited',
               Untouched(c) /\ c \notin stray' /\ v = "FAILED" => landed[c] = 0,
               Untouched(c) /\ c \notin stray' /\ v \in Open /\ landed[c] = 0
                  => Beyond(c, task[e].target, panel)
        PROVE  Others(e) /\ Reading(e)'
    <2>1. /\ Others(e) /\ task'[e].pc = "finish" /\ task'[e].confirm = c
          /\ task'[e].verdict = v /\ task'[e].target = task[e].target
      BY <1>0, <1>9, EndsReads
    <2>2. landed' = landed /\ stray \subseteq stray'
      BY <1>9 DEF Still
    <2> QED BY <1>0, <1>9, <2>1, <2>2 DEF Reading, Beyond, Untouched, IsGrant, Same, Sent, After
  <1>10. ASSUME Untouched(c), At(e, "answer") \/ At(e, "verify"), landed[c] = 0
         PROVE  Beyond(c, task[e].target, panel) /\ Same(panel, task[e].base)
    <2>1. Aims(c, task[e].target, task[e].base) /\ Same(panel, task[e].base)
      BY <1>0, <1>10 DEF Reading, Untouched
    <2>2. c \in Confirms /\ task[e].target \in Accounts /\ task[e].base \in Accounts /\ panel \in Accounts
      BY <1>0, <1>10 DEF TaskRecord, StateOK
    <2> QED BY <2>1, <2>2, AimsBeyond
  <1>11. CASE Answered(e)
    <2>0. At(e, "answer") /\ landed[c] # 0 /\ task[e].pc \in Sent
      BY <1>0, <1>11 DEF Answered, StateOK, Sent
    <2>1. Still /\ UNCHANGED <<op, flying, lock, landed, panel, draft, disturbed, stray, audited>>
      BY <1>11, KeptDraft DEF Answered, Still, Same
    <2>2. CASE Ends(e, "RECONCILIATION_REQUIRED")
      <3>1. Others(e) /\ Reading(e)'
        BY <1>9, <2>0, <2>1, <2>2 DEF Verdicts
      <3> QED BY <1>0, <2>1, <3>1, StepValues
    <2>3. CASE task' = [task EXCEPT ![e].pc = "persist", ![e].base = panel]
      <3>1. /\ Others(e) /\ task'[e].pc = "persist" /\ task'[e].target = task[e].target
            /\ task'[e].confirm = c
        BY <1>0, <2>3 DEF TasksOK, TaskRecord, Others
      <3>2. Reading(e)'
        BY <1>0, <2>0, <2>1, <3>1 DEF Reading, IsGrant, Untouched, Same, Sent, After
      <3> QED BY <1>0, <2>1, <3>1, <3>2, StepValues
    <2> QED BY <1>11, <2>2, <2>3 DEF Answered
  <1>12. CASE AnsweredUncertain(e)
    <2>1. Still /\ UNCHANGED <<op, flying, lock, panel, draft, disturbed>>
      BY <1>12, KeptDraft DEF AnsweredUncertain, Gone, Still, Same
    <2>2. PICK v \in {"RECONCILIATION_REQUIRED", "UNCERTAIN"} : Ends(e, v)
      BY <1>12 DEF AnsweredUncertain
    <2>3. At(e, "answer") /\ task[e].pc \in Sent
      BY <1>12 DEF AnsweredUncertain, Sent
    <2>4. Others(e) /\ Reading(e)'
      BY <1>9, <1>10, <2>1, <2>2, <2>3 DEF Verdicts
    <2> QED BY <1>0, <2>1, <2>4, StepValues
  <1>13. ASSUME NEW pc, Goto(e, pc), <<task[e].pc, pc>> \in {<<"answer", "verify">>, <<"persist", "again">>},
                Still, UNCHANGED <<panel, draft, disturbed, flying>>
         PROVE  Others(e) /\ Reading(e)'
    <2>1. /\ Others(e) /\ task'[e].pc = pc /\ task'[e].target = task[e].target
          /\ task'[e].confirm = c /\ task'[e].base = task[e].base
      BY <1>0, <1>13, GotoReads
    <2>2. landed' = landed
      BY <1>13 DEF Still
    <2> QED BY <1>0, <1>13, <2>1, <2>2 DEF Reading, Aims, IsGrant, Untouched, Same, Sent, After
  <1>14. CASE AnsweredError(e)
    <2>1. Still /\ UNCHANGED <<op, flying, lock, panel, draft, disturbed>>
      BY <1>14, KeptDraft DEF AnsweredError, Gone, Still, Same
    <2>2. At(e, "answer") /\ task[e].pc \in Sent
      BY <1>14 DEF AnsweredError, Sent
    <2>3. CASE Kind(c) \in Grants
      <3>1. Others(e) /\ Reading(e)'
        <4>1. Goto(e, "verify")
          BY <1>14, <2>3 DEF AnsweredError
        <4>2. task[e].pc = "answer"
          BY <2>2
        <4> QED BY <1>13, <2>1, <4>1, <4>2, Zenon
      <3> QED BY <1>0, <2>1, <3>1, StepValues
    <2>4. CASE Kind(c) \notin Grants
      <3>1. ~IsGrant(c) /\ Ends(e, "FAILED") /\ ~Untouched(c)
        BY <1>14, <2>4 DEF AnsweredError, IsGrant, Untouched
      <3>2. Others(e) /\ Reading(e)'
        BY <1>9, <2>1, <2>2, <3>1 DEF Verdicts
      <3> QED BY <1>0, <2>1, <3>2, StepValues
    <2> QED BY <2>3, <2>4
  <1>15. CASE Verify(e)
    <2>1. Still /\ UNCHANGED <<op, flying, lock, landed, panel, draft, disturbed, stray>>
      BY <1>15, KeptDraft DEF Verify, Still, Same
    <2>2. At(e, "verify") /\ task[e].pc \in Sent
      BY <1>15 DEF Verify, Sent, After
    <2>3. PICK v \in {"RECONCILIATION_REQUIRED", "FAILED", "UNCERTAIN"} :
             Ends(e, v) /\ (v = "FAILED" => ~Applied(Kind(c), panel, task[e].target))
      BY <1>15 DEF Verify
    <2>4. ASSUME Untouched(c), v = "FAILED" PROVE landed[c] = 0
      <3>1. c \in Confirms /\ IsGrant(c) /\ panel \in Accounts /\ task[e].target \in Accounts
        BY <1>0, <2>2, <2>4 DEF Untouched, StateOK, TaskRecord
      <3>2. landed[c] # 0 => Same(panel, task[e].target)
        BY <1>0, <2>2, <2>4 DEF Reading, Untouched, Sent, After
      <3>3. Same(panel, task[e].target) => Applied(Kind(c), panel, task[e].target)
        BY <3>1, AppliedTells DEF Same, Accounts
      <3> QED BY <2>3, <2>4, <3>2, <3>3
    <2>5. Others(e) /\ Reading(e)'
      BY <1>9, <1>10, <2>1, <2>2, <2>3, <2>4 DEF Verdicts
    <2> QED BY <1>0, <2>1, <2>5, StepValues
  <1>16. CASE Persist(e)
    <2>1. Still /\ UNCHANGED <<op, flying, lock, panel, draft, disturbed, stray>>
      BY <1>16, KeptDraft DEF Persist, Still, Same
    <2>2. task[e].pc \in {"persist", "again"} /\ task[e].pc \in Sent
      BY <1>16 DEF Persist, Sent, After
    <2>3. landed[c] # 0
      BY <1>0, <2>2 DEF Reading
    <2>4. PICK v \in {"SUCCEEDED", "FAILED"} :
             Ends(e, v) /\ (IsGrant(c) => v = "SUCCEEDED" /\ c \in audited')
      BY <1>16 DEF Persist, Superseded, IsGrant, Grants
    <2>5. Others(e) /\ Reading(e)'
      BY <1>9, <2>1, <2>2, <2>3, <2>4 DEF Verdicts, Untouched, Open
    <2> QED BY <1>0, <2>1, <2>5, StepValues
  <1>17. CASE PersistThrows(e)
    <2>1. Still /\ UNCHANGED <<op, flying, lock, panel, draft, disturbed, stray>>
      BY <1>17, KeptDraft DEF PersistThrows, Still, Same
    <2>2. task[e].pc \in {"persist", "again"} /\ task[e].pc \in Sent
      BY <1>17 DEF PersistThrows, Sent, After
    <2>3. landed[c] # 0
      BY <1>0, <2>2 DEF Reading
    <2>4. CASE Goto(e, "again") /\ At(e, "persist")
      <3>1. Others(e) /\ Reading(e)'
        BY <1>13, <2>1, <2>4
      <3> QED BY <1>0, <2>1, <3>1, StepValues
    <2>5. CASE \E v \in {"UNCERTAIN", "RECONCILIATION_REQUIRED"} : Ends(e, v)
      <3>1. Others(e) /\ Reading(e)'
        BY <1>9, <2>1, <2>2, <2>3, <2>5 DEF Verdicts
      <3> QED BY <1>0, <2>1, <3>1, StepValues
    <2> QED BY <1>17, <2>4, <2>5 DEF PersistThrows
  <1>18. CASE Finish(e)
    <2> DEFINE v == task[e].verdict  t == task[e].target
    <2>0. At(e, "finish") /\ c \in Confirms /\ v \in Verdicts
      BY <1>0, <1>18 DEF Finish, Holding
    <2>1. Others(e) /\ task'[e].pc = "release"
      BY <1>0, <1>18, DropsReads DEF Finish
    <2>2. Still /\ UNCHANGED <<flying, lock, landed, panel, draft, disturbed, stray, audited>>
      BY <1>18, KeptDraft DEF Finish, Still, Same
    <2>3. op'[c] = Resolved(op[c], v, t) /\ \A d \in Confirms \ {c} : op'[d] = op[d]
      BY <1>0, <1>18, <2>0 DEF Finish, StateOK
    <2>4. op'[c].status = v /\ (v \in Open => op'[c].after = t)
      BY <1>0, <2>0, <2>3, ResolvedTyped DEF StateOK, TaskRecord
    <2>5. landed[c] # 0 => landed[c] = 1
      BY <1>0, <2>0 DEF StateOK, CarriedOutOnce
    <2> HIDE DEF v, t
    <2>6. ASSUME Untouched(c)
          PROVE  /\ v = "FAILED" => landed[c] = 0
                 /\ v = "SUCCEEDED" => landed[c] # 0 /\ c \in audited
                 /\ landed[c] # 0 => Same(panel, t)
                 /\ v \in Open /\ landed[c] = 0 => Beyond(c, t, panel)
      BY <1>0, <2>0, <2>6 DEF Reading, Untouched, Sent, After, v, t
    <2>9. PICK d \in Confirms : d = c
      BY <2>0
    <2>7. Entry(d)'
      BY <2>0, <2>2, <2>4, <2>5, <2>6, <2>9 DEF Entry, Untouched, IsGrant, Same, Beyond, Verdicts
    <2>8. Reading(e)'
      BY <2>1, NoReading DEF Sent, After
    <2> QED BY <1>0, <2>1, <2>2, <2>3, <2>7, <2>8, <2>9, StepValues
  <1>19. CASE Heartbeat(e)
    <2>1. /\ Others(e) /\ task'[e].pc = task[e].pc /\ task'[e].target = task[e].target
          /\ task'[e].confirm = c /\ task'[e].base = task[e].base /\ task[e].pc = "answer"
      BY <1>0, <1>19 DEF Heartbeat, TasksOK, TaskRecord, Others
    <2>2. Still /\ UNCHANGED <<op, flying, lock, landed, panel, draft, disturbed, stray>>
      BY <1>19, KeptDraft DEF Heartbeat, Still, Same
    <2>3. Reading(e)'
      BY <1>0, <2>1, <2>2 DEF Reading, Aims, IsGrant, Untouched, Same, Sent, After
    <2> QED BY <1>0, <2>1, <2>2, <2>3, StepValues
  <1> QED BY <1>1, <1>2, <1>3, <1>4, <1>5, <1>7, <1>8, <1>11, <1>12, <1>14, <1>15, <1>16, <1>17,
             <1>18, <1>19 DEF ExecutorStep

LEMMA ReviewerStepValues ==
    ASSUME TypeInv, OnceInv, ValueInv, Allowed, NEW r \in Reviewers, ReviewerStep(r)
    PROVE  ValueInv'
  <1> DEFINE c == Of(r)
  <1>0. /\ TasksOK /\ StateOK /\ CarriedOutOnce /\ Reviewing
        /\ Judging(r) /\ r \in Procs /\ r \notin Executors /\ task[r] \in TaskRecord
        /\ ~At(r, "idle") => c \in Confirms
    BY AdminOperationAssumption DEF TypeInv, TasksOK, Drafted, OnceInv, ValueInv
  <1>1. ASSUME Drops(r), Still, UNCHANGED <<op, flying, lock>> PROVE ValueInv'
    <2>1. Others(r) /\ ~Looking(task'[r])
      BY <1>0, <1>1, DropsReads DEF Looking
    <2> QED BY <1>0, <1>1, <2>1, NoJudging, StepValues
  <1>2. CASE Probe(r)
    <2>1. Still /\ UNCHANGED <<op, flying, lock, panel>>
      BY <1>2, KeptDraft DEF Probe, Still, Same
    <2>2. CASE task' = [task EXCEPT ![r].pc = "sync", ![r].base = panel]
      <3>1. Others(r) /\ task'[r].pc = "sync" /\ task'[r].base = panel
        BY <1>0, <2>2 DEF TasksOK, TaskRecord, Others
      <3>2. Judging(r)'
        BY <2>1, <3>1 DEF Judging, Same
      <3> QED BY <1>0, <2>1, <3>1, <3>2, StepValues
    <2> QED BY <1>1, <1>2, <2>1, <2>2 DEF Probe
  <1>3. CASE SyncRow(r)
    <2>1. Still /\ UNCHANGED <<op, flying, lock, panel, stray, disturbed, draft>>
      BY <1>3, KeptDraft DEF SyncRow, Still, Same
    <2>2. CASE /\ row' = Image(task[r].base)
               /\ task' = [task EXCEPT ![r].pc = "release", ![r].fresh = TRUE, ![r].row = row']
      <3>1. /\ Others(r) /\ task'[r].pc = "release" /\ task'[r].row = Image(task[r].base)
            /\ task'[r].confirm = c
        BY <1>0, <2>2 DEF TasksOK, TaskRecord, Others
      <3>2. Same(Image(task[r].base), task[r].base) /\ At(r, "sync") /\ Looking(task[r])
        BY <1>3 DEF SyncRow, Image, Same, Looking
      <3>3. Judging(r)'
        BY <1>0, <2>1, <3>1, <3>2 DEF Judging, Same, Untouched, IsGrant
      <3> QED BY <1>0, <2>1, <3>1, <3>3, StepValues
    <2> QED BY <1>1, <1>3, <2>1, <2>2 DEF SyncRow
  <1>4. CASE Classify(r)
    <2>0. At(r, "classify") /\ Looking(task[r]) /\ task[r].pc \in {"release", "classify"}
      BY <1>4 DEF Classify, Looking
    <2>1. Others(r) /\ task'[r].pc = "idle"
      BY <1>0, <1>4, LeaveReads DEF Classify
    <2>2. Still /\ UNCHANGED <<flying, lock, landed, panel, draft, stray, disturbed, audited>>
      BY <1>4, KeptDraft DEF Classify, Still, Same
    <2>3. PICK d \in Confirms : d = c
      BY <1>0, <2>0
    <2>4. PICK v : v = Verdict(d, task[r].row)
      OBVIOUS
    <2>5. CASE op' = op
      BY <1>0, <2>1, <2>2, <2>5, NoJudging, StepValues
    <2>6. CASE /\ v # "NONE" /\ op[d].status = task[r].verdict
               /\ op' = [op EXCEPT ![d] = Resolved(@, v, @.after)]
      <3>1. op[d].status \in Open /\ v \in {"RECONCILED", "FAILED"}
        BY <1>0, <2>0, <2>3, <2>4, <2>6, VerdictTyped DEF Reviewing
      <3>2. op'[d].status = v /\ \A x \in Confirms \ {d} : op'[x] = op[x]
        BY <1>0, <2>6, <3>1 DEF Resolved, StateOK, Open, NoOp
      <3>3. ASSUME Untouched(d)
            PROVE  /\ v = "RECONCILED" => landed[d] = 1
                   /\ v = "FAILED" => landed[d] = 0
        <4> DEFINE t == op[d].after
        <4>1. Same(task[r].row, panel)
          BY <1>0, <2>0, <2>3, <3>1, <3>3 DEF Judging
        <4>2. /\ landed[d] # 0 => Same(panel, t)
              /\ landed[d] = 0 => Beyond(d, t, panel)
          BY <3>1, <3>3 DEF ValueInv, Entry
        <4>3. t \in Accounts /\ panel \in Accounts /\ IsGrant(d)
          BY <1>0, <3>3 DEF StateOK, OpType, Untouched
        <4>4. t.limit \in Nat /\ t.expiry \in Nat
          BY <4>3 DEF Accounts
        <4>5. /\ v = "RECONCILED" => Applied(Kind(d), task[r].row, t)
              /\ v = "FAILED" => ~Applied(Kind(d), task[r].row, t)
          BY <2>4, <4>3 DEF Verdict, IsGrant, Grants
        <4>6. landed[d] \in {0, 1}
          BY <1>0 DEF CarriedOutOnce, StateOK
        <4> HIDE DEF t
        <4> QED BY <4>1, <4>2, <4>3, <4>4, <4>5, <4>6, AppliedTells
      <3>4. Entry(d)'
        BY <2>2, <3>1, <3>2, <3>3 DEF Entry, Untouched, IsGrant, Open
      <3> QED BY <1>0, <2>1, <2>2, <3>2, <3>4, NoJudging, StepValues
    <2> QED BY <1>4, <2>3, <2>4, <2>5, <2>6 DEF Classify
  <1> QED BY <1>2, <1>3, <1>4 DEF ReviewerStep

LEMMA LockStepValues ==
    ASSUME TypeInv, OnceInv, ValueInv, Allowed, NEW p \in Procs, LockStep(p)
    PROVE  ValueInv'
  <1>0. TasksOK /\ Executors \cap Reviewers = {} /\ Free \notin Procs
        /\ (p \in Reviewers => Judging(p))
    BY AdminOperationAssumption DEF TypeInv, ValueInv
  <1>1. CASE AcquireLock(p)
    <2>1. Others(p) /\ task'[p].pc \in {"body", "probe"} /\ (p \in Reviewers => task'[p].pc = "probe")
      BY <1>0, <1>1, GotoReads DEF AcquireLock
    <2>2. Still
      BY <1>1, KeptDraft DEF AcquireLock, Still, Same
    <2>3. (p \in Executors => Reading(p)') /\ (p \in Reviewers => Judging(p)')
      BY <2>1, NoReading, NoJudging DEF Sent, After
    <2> QED BY <1>0, <1>1, <2>1, <2>2, <2>3, StepValues DEF AcquireLock
  <1>2. CASE GiveUpLock(p)
    <2>1. Others(p) /\ task'[p].pc = "idle"
      BY <1>0, <1>2, LeaveReads DEF GiveUpLock
    <2>2. Still
      BY <1>2, KeptDraft DEF GiveUpLock, Still, Same
    <2>3. (p \in Executors => Reading(p)') /\ (p \in Reviewers => Judging(p)')
      BY <2>1, NoReading, NoJudging DEF Sent, After
    <2> QED BY <1>2, <2>1, <2>2, <2>3, StepValues DEF GiveUpLock
  <1>3. CASE Release(p)
    <2>1. Still /\ UNCHANGED <<op, flying, panel, stray, disturbed, draft>>
      BY <1>3, KeptDraft DEF Release, Still, Same
    <2>2. \A e \in Executors \ {p} : lock' = e => lock = e
      BY <1>0, <1>3 DEF Release
    <2>3. CASE ~task[p].fresh
      <3>1. Others(p) /\ task'[p].pc = "idle"
        BY <1>0, <1>3, <2>3, LeaveReads DEF Release
      <3>2. (p \in Executors => Reading(p)') /\ (p \in Reviewers => Judging(p)')
        BY <3>1, NoReading, NoJudging DEF Sent, After
      <3> QED BY <2>1, <2>2, <3>1, <3>2, StepValues
    <2>4. CASE task[p].fresh
      <3>1. /\ Others(p) /\ task'[p].pc = "classify" /\ task'[p].row = task[p].row
            /\ task'[p].confirm = task[p].confirm
        BY <1>0, <1>3, <2>4, GotoReads DEF Release
      <3>2. p \in Executors => Reading(p)'
        BY <3>1, NoReading DEF Sent, After
      <3>3. p \in Reviewers => Judging(p)'
        BY <1>0, <1>3, <2>1, <2>4, <3>1
           DEF Release, Judging, Looking, Same, Untouched, IsGrant
      <3> QED BY <2>1, <2>2, <3>1, <3>2, <3>3, StepValues
    <2> QED BY <2>3, <2>4
  <1> QED BY <1>1, <1>2, <1>3 DEF LockStep

(* What a grant that arrives leaves: the limits it aimed at.               *)
LEMMA GrantLeaves ==
    ASSUME NEW k \in Grants, NEW a \in Accounts, NEW t \in Accounts
    PROVE  CarriedOut(k, a, t).limit = t.limit /\ CarriedOut(k, a, t).expiry = t.expiry
  <1>1. CarriedOut(k, a, t) = [a EXCEPT !.limit = t.limit, !.expiry = t.expiry, !.enabled = TRUE]
    BY DEF CarriedOut, Grants, Toggles
  <1> QED BY <1>1 DEF Accounts

(* The account changes under everybody but one operation, which the ghost  *)
(* remembers, or whose own request arrived.                                *)
LEMMA OutsideStepValues ==
    ASSUME TypeInv, OnceInv, ValueInv,
           \/ \E u \in flying : RequestLands(u) \/ RequestIsLost(u)
           \/ PaidOperation \/ ToggleService \/ OpenPage
           \/ NextDay \/ LockExpires \/ BotCrash
    PROVE  ValueInv'
  <1>0. /\ StateOK /\ TasksOK /\ Holding /\ OneRequest /\ OneUnresolved /\ CarriedOutOnce /\ Reviewing
        /\ Free \notin Procs
        /\ \A p \in Procs : ~At(p, "idle") => Of(p) \in Confirms
    BY AdminOperationAssumption DEF TypeInv, TasksOK, Drafted, OnceInv
  <1>1. ASSUME NEW u \in flying, RequestLands(u) PROVE ValueInv'
    <2> DEFINE x == u[1]
    <2>1. /\ flying' = flying \ {u} /\ panel' = CarriedOut(u[2], panel, u[3])
          /\ UNCHANGED <<op, audited, lock, task, draft, stray>>
          /\ disturbed' = disturbed \cup {d \in Confirms \ {x} : Unresolved(d)}
      BY <1>1 DEF RequestLands, Disturbs
    <2>2. x \in Confirms /\ landed[x] = 0 /\ landed' = [landed EXCEPT ![x] = 1]
      <3>1. x \in Confirms /\ landed[x] = 0
        BY <1>0 DEF OneRequest, StateOK
      <3>2. landed' = [landed EXCEPT ![x] = landed[x] + 1]
        BY <1>1 DEF RequestLands
      <3> QED BY <3>1, <3>2
    <2>3. \A d \in Confirms \ {x} : landed'[d] = landed[d]
      BY <1>0, <2>2 DEF StateOK
    <2>4. landed'[x] = 1
      BY <1>0, <2>2 DEF StateOK
    <2>5. \A d \in Confirms \ {x} : Unresolved(d) => d \in disturbed'
      BY <2>1
    <2>6. op[x].status = "PENDING" \/ x \in stray
      BY <1>0 DEF OneRequest
    <2> HIDE DEF x
    <2>7. ASSUME NEW e \in Executors, task[e].pc \in Working PROVE Reading(e)'
      <3>1. PICK c \in Confirms : c = Of(e)
        BY <1>0, <2>7 DEF Working
      <3>2. Unresolved(c) /\ Reading(e)
        BY <1>0, <2>7, <3>1 DEF Holding, Unresolved, Blocking, ValueInv
      <3>3. CASE c # x
        <4>1. c \in disturbed' /\ landed'[c] = landed[c]
          BY <2>3, <2>5, <3>2, <3>3
        <4>2. ~(stray \subseteq {c})
          <5>1. op[x].status # "PENDING"
            BY <1>0, <2>2, <3>2, <3>3 DEF OneUnresolved, Unresolved, Blocking
          <5> QED BY <2>6, <3>3, <5>1
        <4> QED BY <2>1, <3>1, <3>2, <4>1, <4>2 DEF Reading, Aims, IsGrant, Untouched
      <3>4. CASE c = x
        <4>1. task[e].pc \in Sent
          BY <1>0, <1>1, <2>7, <3>1, <3>4 DEF Holding, NotSent, Working, Sent, After, x
        <4>2. u[2] = Kind(c) /\ u[3] = task[e].target
          BY <1>1, <3>1, <3>2, <3>4, <4>1 DEF Reading, x
        <4>3. IsGrant(c) => Same(panel, task[e].target)'
          <5>1. task[e].target \in Accounts /\ panel \in Accounts
            BY <1>0 DEF TasksOK, TaskRecord, StateOK, TypeInv
          <5>2. panel' = CarriedOut(Kind(c), panel, task[e].target) /\ task' = task
            BY <2>1, <4>2
          <5> QED BY <5>1, <5>2, GrantLeaves DEF IsGrant, Same
        <4>4. task[e].pc = "finish" => c \in stray
          BY <1>0, <1>1, <3>1, <3>4 DEF Holding, After, x
        <4> QED BY <2>1, <2>4, <3>1, <3>2, <3>4, <4>1, <4>3, <4>4
                DEF Reading, Aims, IsGrant, Untouched, Same
      <3> QED BY <3>3, <3>4
    <2>8. ASSUME NEW e \in Executors PROVE Reading(e)'
      <3>1. CASE task[e].pc \notin Working
        BY <2>1, <3>1 DEF Reading, Sent, After, Working
      <3> QED BY <2>7, <3>1
    <2>9. ASSUME NEW r \in Reviewers PROVE Judging(r)'
      <3>1. SUFFICES ASSUME Looking(task[r]), op[Of(r)].status \in Open, Untouched(Of(r))'
            PROVE FALSE
        BY <2>1 DEF Judging
      <3>2. Of(r) \in Confirms
        BY <1>0, <3>1 DEF Looking
      <3> QED BY <2>1, <2>5, <2>6, <3>1, <3>2 DEF Untouched, Unresolved, Open, Blocking
    <2>10. ASSUME NEW c \in Confirms PROVE Entry(c)'
      <3>1. CASE c = x
        BY <2>1, <2>6, <3>1 DEF Entry, Untouched, Open
      <3>2. CASE c # x
        <4>1. Entry(c)
          BY DEF ValueInv
        <4> QED BY <2>1, <2>3, <2>5, <3>2, <4>1
                DEF Entry, Untouched, IsGrant, Unresolved, Open, Blocking
      <3> QED BY <3>1, <3>2
    <2> QED BY <2>8, <2>9, <2>10 DEF ValueInv
  <1>2. ASSUME NEW u \in flying, RequestIsLost(u) PROVE ValueInv'
    <2>1. Still
      BY <1>2, KeptDraft DEF RequestIsLost, Still, Same
    <2> QED BY <1>2, <2>1, WorldValues DEF RequestIsLost
  <1>3. CASE PaidOperation
    <2>1. /\ UNCHANGED <<op, audited, lock, task, draft, stray, flying, landed>> /\ lock = Free
          /\ disturbed' = disturbed \cup {d \in Confirms : Unresolved(d)}
      BY <1>3 DEF PaidOperation, Disturbs
    <2>2. ASSUME NEW e \in Executors PROVE Reading(e)'
      <3>1. CASE task[e].pc \notin Working
        BY <2>1, <3>1 DEF Reading, Sent, After, Working
      <3>2. CASE task[e].pc \in Working
        <4>1. PICK c \in Confirms : c = Of(e)
          BY <1>0, <3>2 DEF Working
        <4>2. c \in disturbed' /\ Reading(e) /\ lock # e
          BY <1>0, <2>1, <3>2, <4>1 DEF Holding, Unresolved, Blocking, ValueInv
        <4> QED BY <2>1, <4>1, <4>2 DEF Reading, Aims, IsGrant, Untouched
      <3> QED BY <3>1, <3>2
    <2>3. ASSUME NEW r \in Reviewers PROVE Judging(r)'
      <3>1. SUFFICES ASSUME Looking(task[r]), op[Of(r)].status \in Open, Untouched(Of(r))'
            PROVE FALSE
        BY <2>1 DEF Judging
      <3>2. Of(r) \in Confirms
        BY <1>0, <3>1 DEF Looking
      <3> QED BY <2>1, <3>1, <3>2 DEF Untouched, Unresolved, Open, Blocking
    <2>4. ASSUME NEW c \in Confirms PROVE Entry(c)'
      <3>1. Entry(c)
        BY DEF ValueInv
      <3> QED BY <2>1, <3>1 DEF Entry, Untouched, IsGrant, Unresolved, Open, Blocking
    <2> QED BY <2>2, <2>3, <2>4 DEF ValueInv
  <1>4. CASE ToggleService
    <2>1. Still
      BY <1>0, <1>4, KeptDraft DEF ToggleService, Still, Same, StateOK, Accounts
    <2> QED BY <1>4, <2>1, WorldValues DEF ToggleService
  <1>5. CASE OpenPage \/ NextDay
    <2>1. Still
      BY <1>5, KeptDraft DEF OpenPage, NextDay, Still, Same
    <2> QED BY <1>5, <2>1, WorldValues DEF OpenPage, NextDay
  <1>6. CASE LockExpires
    <2>1. Still
      BY <1>6, KeptDraft DEF LockExpires, Still, Same
    <2> QED BY <1>0, <1>6, <2>1, WorldValues DEF LockExpires
  <1>7. CASE BotCrash
    <2>1. Still /\ op' = op
      BY <1>7, KeptDraft DEF BotCrash, Still, Same
    <2>2. \A p \in Procs : task'[p].pc = "idle"
      BY <1>7 DEF BotCrash, IdleTask
    <2>3. \A e \in Executors : Reading(e)'
      BY <2>2, NoReading DEF Sent, After
    <2>4. \A r \in Reviewers : Judging(r)'
      BY <2>2, NoJudging
    <2>5. \A c \in Confirms : Entry(c)'
      BY <2>1, SameEntry DEF ValueInv
    <2> QED BY <2>3, <2>4, <2>5 DEF ValueInv
  <1> QED BY <1>1, <1>2, <1>3, <1>4, <1>5, <1>6, <1>7

LEMMA ValueStep == TypeInv /\ OnceInv /\ ValueInv /\ [Next]_vars => ValueInv'
  <1> SUFFICES ASSUME TypeInv, OnceInv, ValueInv, [Next]_vars PROVE ValueInv'
    OBVIOUS
  <1>0. Allowed
    BY OnceStep
  <1>1. CASE UNCHANGED vars
    <2>1. Still
      BY <1>1, KeptDraft DEF vars, Still, Same
    <2> QED BY <1>1, <2>1, WorldValues DEF vars
  <1>2. CASE Next
    BY <1>0, <1>2, DraftStepValues, ExecutorStepValues, ReviewerStepValues, LockStepValues,
       OutsideStepValues DEF Next
  <1> QED BY <1>1, <1>2

LEMMA ValuesHold == Spec => [](TypeInv /\ OnceInv /\ ValueInv)
  BY InitTyped, TypeStep, InitOnce, OnceStep, InitValues, ValueStep, PTL DEF Spec

(* What the record says of a grant is what happened to the account.        *)
THEOREM AdminVerdictTrue == Spec => []VerdictTrue
  <1>1. ValueInv => VerdictTrue
    BY DEF ValueInv, Entry, VerdictTrue, Untouched
  <1> QED BY <1>1, ValuesHold, PTL

(* A request that arrives under its executor's lock adds the amount.       *)
GrantStep ==
    \A c \in Confirms, e \in Executors :
      (landed'[c] > landed[c] /\ stray \subseteq {c} /\ At(e, "answer") /\ Of(e) = c /\ lock = e)
        => /\ Kind(c) = "ADD_VOLUME" => /\ panel'.limit = panel.limit + Amount[c]
                                        /\ panel'.expiry = panel.expiry
           /\ Kind(c) = "ADD_TIME" => /\ panel'.limit = panel.limit
                                      /\ panel'.expiry >= panel.expiry + Amount[c]

LEMMA LandingAdds == TypeInv /\ OnceInv /\ ValueInv /\ [Next]_vars => GrantStep
  <1> SUFFICES ASSUME TypeInv, OnceInv, ValueInv, [Next]_vars, NEW c \in Confirms, NEW e \in Executors,
                      landed'[c] > landed[c], stray \subseteq {c}, At(e, "answer"), Of(e) = c, lock = e
      PROVE  /\ Kind(c) = "ADD_VOLUME" => /\ panel'.limit = panel.limit + Amount[c]
                                          /\ panel'.expiry = panel.expiry
             /\ Kind(c) = "ADD_TIME" => /\ panel'.limit = panel.limit
                                        /\ panel'.expiry >= panel.expiry + Amount[c]
    BY DEF GrantStep
  <1>1. landed' # landed /\ landed[c] \in Nat
    BY DEF TypeInv, StateOK
  <1>2. PICK u \in flying : RequestLands(u)
    BY <1>1 DEF Next, vars, Preview, Confirm, StartReconcile, MarkReviewed, ExecutorStep, Body, Claim,
       FreshRead, SendRequest, AdapterRefuses, Answered, AnsweredUncertain, AnsweredError, Verify,
       Persist, PersistThrows, Finish, Escapes, LockLapses, Heartbeat, ReviewerStep, Probe,
       SyncRow, Classify, LockStep, AcquireLock, GiveUpLock, Release, RequestIsLost, PaidOperation,
       ToggleService, OpenPage, NextDay, LockExpires, BotCrash
  <1>3. u[1] = c
    BY <1>1, <1>2 DEF RequestLands, TypeInv, StateOK
  <1>4. landed[c] = 0 /\ Reading(e) /\ panel \in Accounts /\ task[e].target \in Accounts
    BY <1>3 DEF OnceInv, OneRequest, ValueInv, TypeInv, StateOK, TasksOK, TaskRecord
  <1>5. u[2] = Kind(c) /\ u[3] = task[e].target
    BY <1>3, <1>4 DEF Reading, Sent
  <1>6. panel' = CarriedOut(Kind(c), panel, task[e].target)
    BY <1>2, <1>5 DEF RequestLands
  <1>7. ASSUME IsGrant(c)
        PROVE  /\ Aims(c, task[e].target, task[e].base) /\ Same(panel, task[e].base)
               /\ panel'.limit = task[e].target.limit /\ panel'.expiry = task[e].target.expiry
    <2>1. Aims(c, task[e].target, task[e].base) /\ Same(panel, task[e].base)
      BY <1>4, <1>7 DEF Reading
    <2>2. panel'.limit = task[e].target.limit /\ panel'.expiry = task[e].target.expiry
      BY <1>4, <1>6, <1>7, GrantLeaves DEF IsGrant
    <2> QED BY <2>1, <2>2
  <1> QED BY <1>7 DEF IsGrant, Grants, Aims, Same

THEOREM AdminGrantAdds == Spec => GrantAddsExactly
  BY ValuesHold, LandingAdds, PTL DEF Spec, GrantAddsExactly, GrantStep
=============================================================================
