--------------------------- MODULE AdminOperation ---------------------------
(***************************************************************************)
(* The administrator's operations on one service: enable, disable, grant   *)
(* volume, grant time, regenerate the link.  An OWNER previews an          *)
(* operation and confirms it; the executor checks the preview against the  *)
(* row, claims the confirmation with a PENDING AdminServiceOperation, sends *)
(* one request to the panel, persists, and records what it knows: done,    *)
(* failed, or unknown.  An unknown outcome blocks the service until an     *)
(* OWNER reconciles it from a reading of the panel.                        *)
(*                                                                         *)
(* The service is shared with its buyer, whose paid operations, toggles     *)
(* and page views take the same Redis lock.  They are modules of their own *)
(* (ServiceMutation); here each is one action, taken while the lock is     *)
(* free.                                                                   *)
(*                                                                         *)
(* A statement that commits on its own, a $transaction, a Redis command    *)
(* and a panel request are one action each.  LIMITED is folded into        *)
(* ACTIVE: every operation accepts both alike.                             *)
(***************************************************************************)
EXTENDS Naturals, FiniteSets

CONSTANTS
    Confirms,      \* confirmation drafts, each with its one-shot nonce
    Amount,        \* units or days a draft asks for, if it is a grant
    Executors,     \* update handlers; a double click runs one draft in two of them
    Reviewers,     \* OWNER sessions on the reconciliation dashboard
    Offered,       \* what a draft may ask for
    Limit0, Expiry0,   \* the account at first: quota, last day
    PaidVolume,    \* what the buyer's paid operations add
    Free, Dead,    \* an unheld lock; the token of an owner that crashed
    NoConfirm,
    MaxMoves,      \* bound: days that pass, paid operations and toggles of the buyer
    MaxFaults      \* bound: crashes, lapsed locks and uncaught throws

Procs    == Executors \cup Reviewers
Grants   == {"ADD_VOLUME", "ADD_TIME"}
Toggles  == {"ENABLE", "DISABLE"}
AllKinds == Grants \cup Toggles \cup {"REGENERATE_LINK"}

ASSUME AdminOperationAssumption ==
    /\ Amount \in [Confirms -> Nat \ {0}]
    /\ Executors \cap Reviewers = {}
    /\ Offered \in [Confirms -> SUBSET AllKinds]
    /\ Limit0 \in Nat \ {0} /\ Expiry0 \in Nat /\ PaidVolume \in Nat \ {0}
    /\ NoConfirm \notin Confirms
    /\ Free \notin Procs /\ Dead \notin Procs /\ Free # Dead
    /\ MaxMoves \in Nat /\ MaxFaults \in Nat

VARIABLES
    draft,      \* session: the kind and the fingerprint the OWNER saw
    op,         \* AdminServiceOperation.status, beforeSnapshot, afterSnapshot
    row,        \* Service.status, volumeBytes, expiresAt
    audited,    \* operations with a ServiceEventLog row that carries their id
    panel,      \* external: the account
    flying,     \* external: requests on their way, with their values
    landed,     \* external: how often a request of the operation was carried out
    lock,       \* Redis: the token under the service's key
    task,       \* process records
    today, acted, faults,
    stray,      \* ghost: operations whose request outlived the wait of its executor
    disturbed,  \* ghost: unresolved operations under which the account was changed otherwise
    orphaned    \* ghost: operations whose executor died, or threw past its inner tries

remote == <<panel, flying, landed>>
bounds == <<today, acted, faults>>
ghosts == <<stray, disturbed, orphaned>>
vars   == <<draft, op, row, audited, remote, lock, task, bounds, ghosts>>

Blocking  == {"PENDING", "UNCERTAIN", "RECONCILIATION_REQUIRED"}
Open      == {"UNCERTAIN", "RECONCILIATION_REQUIRED"}
Statuses  == {"NONE", "SUCCEEDED", "FAILED", "RECONCILED"} \cup Blocking
RowStatus == {"ACTIVE", "DISABLED", "EXPIRED"}
Rows      == [status : RowStatus, limit : Nat, expiry : Nat]
Accounts  == [enabled : BOOLEAN, limit : Nat, expiry : Nat]
Steps     == {"idle", "lock", "body", "claim", "read", "send", "answer", "verify", "persist",
              "again", "finish", "release", "probe", "sync", "classify"}

Account0 == [enabled |-> TRUE, limit |-> Limit0, expiry |-> Expiry0]
Row0     == [status |-> "ACTIVE", limit |-> Limit0, expiry |-> Expiry0]
NoDraft  == [kind |-> "NONE", seen |-> Row0]
NoOp     == [status |-> "NONE", before |-> Row0, after |-> Account0]
IdleTask == [pc |-> "idle", confirm |-> NoConfirm, row |-> Row0, base |-> Account0,
             target |-> Account0, verdict |-> "NONE", fresh |-> FALSE, lost |-> FALSE]

Init ==
    /\ draft     = [c \in Confirms |-> NoDraft]
    /\ op        = [c \in Confirms |-> NoOp]
    /\ row       = Row0
    /\ audited   = {}
    /\ panel     = Account0
    /\ flying    = {}
    /\ landed    = [c \in Confirms |-> 0]
    /\ lock      = Free
    /\ task      = [p \in Procs |-> IdleTask]
    /\ today     = 0
    /\ acted     = 0
    /\ faults    = 0
    /\ stray     = {}
    /\ disturbed = {}
    /\ orphaned  = {}

-----------------------------------------------------------------------------
Unresolved(c)  == op[c].status \in Blocking
Fingerprint(r) == <<r.status, r.limit, r.expiry>>
Kind(c)        == draft[c].kind
Extended(expiry, days) == (IF expiry > today THEN expiry ELSE today) + days

(* What buildUpdateData makes of a reading of the account.                 *)
Image(a) ==
    [status |-> CASE ~a.enabled        -> "DISABLED"
                  [] a.enabled /\ a.expiry <= today -> "EXPIRED"
                  [] OTHER             -> "ACTIVE",
     limit |-> a.limit, expiry |-> a.expiry]

(* ELIGIBLE_STATUS and isServiceExpired.                                   *)
Eligible(kind, r) ==
    CASE kind = "ENABLE"   -> r.status = "DISABLED" /\ r.expiry > today
      [] kind = "DISABLE"  -> r.status = "ACTIVE"
      [] kind = "ADD_TIME" -> r.status \in {"ACTIVE", "EXPIRED"}
      [] kind = "ADD_VOLUME" -> r.status = "ACTIVE"
      [] kind = "REGENERATE_LINK" -> r.status \in {"ACTIVE", "DISABLED"}

TargetFromRow(e, c) ==   \* mutant: the grant is added to what the row says
    LET k == Kind(c)  a == task[e].base  r == task[e].row IN
    CASE k = "ADD_VOLUME" -> [a EXCEPT !.limit = r.limit + Amount[c], !.enabled = TRUE]
      [] k = "ADD_TIME"   -> [a EXCEPT !.expiry = Extended(r.expiry, Amount[c]), !.enabled = TRUE]
      [] k \in Toggles    -> [a EXCEPT !.enabled = (k = "ENABLE")]
      [] k = "REGENERATE_LINK" -> a

(* The absolute values a request asks for.  addServiceTime carries quota   *)
(* and expiry, and enables the account.                                    *)
Target(e, c) ==
    LET k == Kind(c)  a == task[e].base IN
    CASE k = "ADD_VOLUME" -> [a EXCEPT !.limit = @ + Amount[c], !.enabled = TRUE]
      [] k = "ADD_TIME"   -> [a EXCEPT !.expiry = Extended(@, Amount[c]), !.enabled = TRUE]
      [] k \in Toggles    -> [a EXCEPT !.enabled = (k = "ENABLE")]
      [] k = "REGENERATE_LINK" -> a

(* What a request does to the account: a grant sets quota and expiry, a    *)
(* toggle the flag alone, a regeneration none of the three.                *)
CarriedOut(k, a, target) ==
    CASE k \in Grants  -> [a EXCEPT !.limit = target.limit, !.expiry = target.expiry,
                                    !.enabled = TRUE]
      [] k \in Toggles -> [a EXCEPT !.enabled = target.enabled]
      [] k = "REGENERATE_LINK" -> a

-----------------------------------------------------------------------------
At(p, pc)   == task[p].pc = pc
Of(p)       == task[p].confirm
Goto(p, pc) == task' = [task EXCEPT ![p].pc = pc]
Ends(p, v)  == task' = [task EXCEPT ![p] = [IdleTask EXCEPT !.pc = "finish", !.verdict = v,
                                 !.confirm = Of(p), !.target = task[p].target]]
Drops(p)    == task' = [task EXCEPT ![p] = [IdleTask EXCEPT !.pc = "release", !.confirm = Of(p)]]
Leave(p)    == task' = [task EXCEPT ![p] = IdleTask]

(* The preview of an operation the view offers; its nonce is the draft's.  *)
Preview(c, k) ==
    /\ Kind(c) = "NONE" /\ k \in Offered[c] /\ Eligible(k, row)
    /\ \A d \in Confirms : ~Unresolved(d)
    /\ draft' = [draft EXCEPT ![c] = [kind |-> k, seen |-> row]]
    /\ UNCHANGED <<op, row, audited, remote, lock, task, bounds, ghosts>>

(* A confirmation, also a repeated one, starts the executor; one whose     *)
(* operation exists converges on it before anything else.                  *)
Confirm(e, c) ==
    /\ At(e, "idle") /\ Kind(c) # "NONE" /\ op[c].status = "NONE"
    /\ task' = [task EXCEPT ![e] = [IdleTask EXCEPT !.pc = "lock", !.confirm = c]]
    /\ UNCHANGED <<draft, op, row, audited, remote, lock, bounds, ghosts>>

AcquireLock(p) ==
    /\ At(p, "lock") /\ lock = Free
    /\ lock' = p
    /\ Goto(p, IF p \in Executors THEN "body" ELSE "probe")
    /\ UNCHANGED <<draft, op, row, audited, remote, bounds, ghosts>>

(* A busy lock, or an unreachable Redis.                                   *)
GiveUpLock(p) ==
    /\ At(p, "lock")
    /\ Leave(p)
    /\ UNCHANGED <<draft, op, row, audited, remote, lock, bounds, ghosts>>

(* Eligibility, conflicting operations and the stale preview, under the    *)
(* lock.                                                                   *)
Body(e) ==
    LET c == Of(e)
        admitted == /\ Eligible(Kind(c), row)
                    /\ \A d \in Confirms : ~Unresolved(d)
                    /\ Fingerprint(row) = Fingerprint(draft[c].seen) IN
    /\ At(e, "body")
    /\ \/ admitted /\ task' = [task EXCEPT ![e].pc = "claim", ![e].row = row]
       \/ Drops(e)   \* also a panel that is inactive or lacks the capability
    /\ UNCHANGED <<draft, op, row, audited, remote, lock, bounds, ghosts>>

(* The PENDING row.  A unique violation converges on the existing one.     *)
(* The fingerprint is not read again.                                      *)
Claim(e) ==
    LET c == Of(e) IN
    /\ At(e, "claim")
    /\ IF op[c].status # "NONE" THEN Drops(e) /\ UNCHANGED <<op, draft>>
       ELSE /\ op' = [op EXCEPT ![c] = [@ EXCEPT !.status = "PENDING", !.before = task[e].row]]
            /\ task' = [task EXCEPT ![e] = [IdleTask EXCEPT !.confirm = c,
                           !.pc = IF Kind(c) \in Grants THEN "read" ELSE "send"]]
            /\ draft' = [draft EXCEPT ![c].seen = Row0]
    /\ UNCHANGED <<row, audited, remote, lock, bounds, ghosts>>

-----------------------------------------------------------------------------
(* The appliers.                                                           *)

(* A grant reads the account before it writes it; an unreadable account is *)
(* a failure, nothing was sent.                                            *)
FreshRead(e) ==
    /\ At(e, "read")
    /\ \/ task' = [task EXCEPT ![e].pc = "send", ![e].base = panel]
       \/ Ends(e, "FAILED")
    /\ UNCHANGED <<draft, op, row, audited, remote, lock, bounds, ghosts>>

SendRequest(e) ==
    LET c == Of(e)  t == Target(e, c) IN
    /\ At(e, "send")
    /\ flying' = flying \cup {<<c, Kind(c), t>>}
    /\ task' = [task EXCEPT ![e].pc = "answer", ![e].target = t]
    /\ UNCHANGED <<draft, op, row, audited, panel, landed, lock, bounds, ghosts>>

(* The adapter authenticates and reads the client before it writes: a      *)
(* failure there is a plain one.                                           *)
AdapterRefuses(e) ==
    LET c == Of(e) IN
    /\ At(e, "send")
    /\ IF Kind(c) \in Grants
       THEN task' = [task EXCEPT ![e].pc = "verify", ![e].target = Target(e, c)]
       ELSE Ends(e, "FAILED")
    /\ UNCHANGED <<draft, op, row, audited, remote, lock, bounds, ghosts>>

(* The requests of an operation that is still unresolved are disturbed by  *)
(* whatever else changes the account.                                      *)
Disturbs(S) == disturbed' = disturbed \cup {d \in S : Unresolved(d)}

RequestLands(u) ==
    /\ u \in flying
    /\ flying' = flying \ {u}
    /\ panel'  = CarriedOut(u[2], panel, u[3])
    /\ landed' = [landed EXCEPT ![u[1]] = @ + 1]
    /\ Disturbs(Confirms \ {u[1]})
    /\ UNCHANGED <<draft, op, row, audited, lock, task, bounds, stray, orphaned>>

RequestIsLost(u) ==
    /\ u \in flying
    /\ flying' = flying \ {u}
    /\ UNCHANGED <<draft, op, row, audited, panel, landed, lock, task, bounds, ghosts>>

(* The executor goes on while its request may still arrive.                *)
Gone(c) == stray' = IF \E u \in flying : u[1] = c THEN stray \cup {c} ELSE stray

(* The panel carried the request out and says so.  A grant or a            *)
(* regeneration that lost its lock is left to reconciliation; a toggle is  *)
(* persisted by a guarded update.                                          *)
Answered(e) ==
    LET c == Of(e) IN
    /\ At(e, "answer") /\ landed[c] > 0 /\ \A u \in flying : u[1] # c
    /\ IF task[e].lost /\ Kind(c) \notin Toggles THEN Ends(e, "RECONCILIATION_REQUIRED")
       ELSE task' = [task EXCEPT ![e].pc = "persist", ![e].base = panel]
    /\ UNCHANGED <<draft, op, row, audited, remote, lock, bounds, ghosts>>

(* The adapter flags the outcome as unknown.                               *)
AnsweredUncertain(e) ==
    LET c == Of(e) IN
    /\ At(e, "answer")
    /\ Ends(e, IF Kind(c) = "REGENERATE_LINK" THEN "RECONCILIATION_REQUIRED" ELSE "UNCERTAIN")
    /\ Gone(c)
    /\ UNCHANGED <<draft, op, row, audited, remote, lock, bounds, disturbed, orphaned>>

(* It does not, though the request may have been carried out: a grant is   *)
(* verified, a toggle or a regeneration counts as failed.                  *)
AnsweredError(e) ==
    LET c == Of(e) IN
    /\ At(e, "answer")
    /\ IF Kind(c) \in Grants THEN Goto(e, "verify") ELSE Ends(e, "FAILED")
    /\ Gone(c)
    /\ UNCHANGED <<draft, op, row, audited, remote, lock, bounds, disturbed, orphaned>>

(* What a reading of the account says of a grant.                          *)
Applied(k, a, target)    == IF k = "ADD_VOLUME" THEN a.limit >= target.limit
                                                ELSE a.expiry >= target.expiry
NotApplied(k, a, before) == IF k = "ADD_VOLUME" THEN a.limit <= before.limit
                                                ELSE a.expiry = before.expiry

VerifyTrusting(e) ==   \* mutant: a verification that cannot read the account confirms the failure
    LET c == Of(e)  k == Kind(c) IN
    /\ At(e, "verify")
    /\ Ends(e, IF Applied(k, panel, task[e].target) THEN "RECONCILIATION_REQUIRED" ELSE "FAILED")
       \/ Ends(e, "FAILED")
    /\ UNCHANGED <<draft, op, row, audited, remote, lock, bounds, ghosts>>

(* verifyGrantFailure: only a reading that shows the account as it was is  *)
(* a definite failure.                                                     *)
Verify(e) ==
    LET c == Of(e)  k == Kind(c) IN
    /\ At(e, "verify")
    /\ \/ Ends(e, CASE Applied(k, panel, task[e].target) -> "RECONCILIATION_REQUIRED"
                    [] ~Applied(k, panel, task[e].target) /\ NotApplied(k, panel, task[e].base)
                                                         -> "FAILED"
                    [] OTHER                             -> "UNCERTAIN")
       \/ Ends(e, "UNCERTAIN")   \* unreadable
    /\ UNCHANGED <<draft, op, row, audited, remote, lock, bounds, ghosts>>

(* The row after each operation: a volume grant leaves the expiry alone, a *)
(* time grant the quota, a regeneration the quota.                         *)
Written(e) ==
    LET k == Kind(Of(e))  a == task[e].base IN
    CASE k = "ADD_VOLUME" -> [row EXCEPT !.limit = task[e].target.limit, !.status = "ACTIVE"]
      [] k = "ADD_TIME"   -> [row EXCEPT !.expiry = task[e].target.expiry, !.status = "ACTIVE"]
      [] k = "ENABLE"     -> [row EXCEPT !.status = "ACTIVE", !.expiry = a.expiry]
      [] k = "DISABLE"    -> [row EXCEPT !.status = "DISABLED", !.expiry = a.expiry]
      [] k = "REGENERATE_LINK" -> [row EXCEPT !.expiry = a.expiry,
                                              !.status = Image(a).status]

(* A toggle only leaves the statuses it may leave; otherwise it is done    *)
(* already, or lost the race.                                              *)
Superseded(e) ==
    \/ Kind(Of(e)) = "ENABLE"  /\ row.status # "DISABLED"
    \/ Kind(Of(e)) = "DISABLE" /\ row.status # "ACTIVE"
AlreadyThere(e) ==
    row.status = (IF Kind(Of(e)) = "ENABLE" THEN "ACTIVE" ELSE "DISABLED")

Persist(e) ==
    LET c == Of(e) IN
    /\ At(e, "persist") \/ At(e, "again")
    /\ IF Superseded(e)
       THEN /\ Ends(e, IF AlreadyThere(e) THEN "SUCCEEDED" ELSE "FAILED")
            /\ UNCHANGED <<row, audited>>
       ELSE /\ row' = Written(e)
            /\ audited' = audited \cup {c}
            /\ Ends(e, "SUCCEEDED")
    /\ UNCHANGED <<draft, op, remote, lock, bounds, ghosts>>

PersistEscapes(e) ==   \* mutant: the second failure is not caught
    /\ At(e, "persist") \/ At(e, "again")
    /\ UNCHANGED <<row, audited>>
    /\ IF At(e, "persist") /\ Kind(Of(e)) # "REGENERATE_LINK" THEN Goto(e, "again")
       ELSE Drops(e)
    /\ UNCHANGED <<draft, op, remote, lock, bounds, ghosts>>

(* The transaction throws, having committed or not.  It is tried a second  *)
(* time, except by a regeneration; then the outcome is unknown.            *)
PersistThrows(e) ==
    LET c == Of(e)  k == Kind(c) IN
    /\ At(e, "persist") \/ At(e, "again")
    /\ \/ UNCHANGED <<row, audited>>
       \/ /\ ~Superseded(e)
          /\ row' = Written(e)
          /\ audited' = audited \cup {c}
    /\ IF At(e, "persist") /\ k # "REGENERATE_LINK" THEN Goto(e, "again")
       ELSE Ends(e, IF k \in Toggles THEN "UNCERTAIN" ELSE "RECONCILIATION_REQUIRED")
    /\ UNCHANGED <<draft, op, remote, lock, bounds, ghosts>>

-----------------------------------------------------------------------------
(* The snapshots are read again only while a verdict is missing.           *)
Resolved(o, v, target) ==
    IF v \in Open THEN [o EXCEPT !.status = v, !.after = target] ELSE [NoOp EXCEPT !.status = v]

(* The verdict of the executor is written by the operation's id.           *)
Finish(e) ==
    LET c == Of(e) IN
    /\ At(e, "finish")
    /\ op' = [op EXCEPT ![c] = Resolved(@, task[e].verdict, task[e].target)]
    /\ Drops(e)
    /\ UNCHANGED <<draft, row, audited, remote, lock, bounds, ghosts>>

(* What only the outermost catch covers: buildAdapterForPanel before a     *)
(* grant's reading and before its verification, which throws on missing or *)
(* undecryptable credentials; the reads a toggle and a regeneration make   *)
(* before their request and after their transaction; the status update.    *)
Unguarded(e) ==
    \/ At(e, "read") \/ At(e, "verify") \/ At(e, "finish")
    \/ At(e, "send") /\ Kind(Of(e)) \notin Grants

(* One of them throws: the handler is told of a rejection, the lock is     *)
(* released and the row stays PENDING.                                     *)
Escapes(e) ==
    LET c == Of(e) IN
    /\ Unguarded(e) /\ faults < MaxFaults
    /\ faults' = faults + 1
    /\ orphaned' = orphaned \cup {c}
    /\ Drops(e)
    /\ UNCHANGED <<draft, op, row, audited, remote, lock, today, acted, stray, disturbed>>

(* The lock is released before the reconciliation classifies what it read; *)
(* after a real change the customer is sent one message, which nothing     *)
(* depends on.                                                             *)
Release(p) ==
    /\ At(p, "release")
    /\ lock' = IF lock = p THEN Free ELSE lock
    /\ IF task[p].fresh THEN Goto(p, "classify") ELSE Leave(p)
    /\ UNCHANGED <<draft, op, row, audited, remote, bounds, ghosts>>

-----------------------------------------------------------------------------
(* Reconciliation: one reading of the account, which also refreshes the    *)
(* row, then a verdict that only an unchanged status accepts.              *)

Reconcilable(c) == op[c].status \in Open

StartReconcile(r, c) ==
    /\ At(r, "idle") /\ Reconcilable(c)
    /\ task' = [task EXCEPT ![r] = [IdleTask EXCEPT !.pc = "lock", !.confirm = c,
                                                   !.verdict = op[c].status]]
    /\ UNCHANGED <<draft, op, row, audited, remote, lock, bounds, ghosts>>

Probe(r) ==
    /\ At(r, "probe")
    /\ \/ task' = [task EXCEPT ![r].pc = "sync", ![r].base = panel]
       \/ Drops(r)
    /\ UNCHANGED <<draft, op, row, audited, remote, lock, bounds, ghosts>>

(* The row takes what was read, or the update fails and nothing is said.   *)
SyncRow(r) ==
    /\ At(r, "sync")
    /\ \/ /\ row' = Image(task[r].base)
          /\ task' = [task EXCEPT ![r].pc = "release", ![r].fresh = TRUE, ![r].row = row']
       \/ Drops(r) /\ UNCHANGED row
    /\ UNCHANGED <<draft, op, audited, remote, lock, bounds, ghosts>>

(* classifyReconciliation.  A regeneration cannot be read back.            *)
Verdict(c, fresh) ==
    LET k == Kind(c) IN
    CASE k = "ENABLE"  /\ fresh.status = "ACTIVE"   -> "RECONCILED"
      [] k = "ENABLE"  /\ fresh.status = "DISABLED" -> "FAILED"
      [] k = "DISABLE" /\ fresh.status = "DISABLED" -> "RECONCILED"
      [] k = "DISABLE" /\ fresh.status = "ACTIVE"   -> "FAILED"
      [] k \in Grants /\ Applied(k, fresh, op[c].after) -> "RECONCILED"
      [] k \in Grants /\ ~Applied(k, fresh, op[c].after) /\ NotApplied(k, fresh, op[c].before)
                                                    -> "FAILED"
      [] OTHER -> "NONE"

Classify(r) ==
    LET c == Of(r)  v == Verdict(c, task[r].row) IN
    /\ At(r, "classify")
    /\ op' = IF v # "NONE" /\ op[c].status = task[r].verdict
             THEN [op EXCEPT ![c] = Resolved(@, v, @.after)] ELSE op
    /\ Leave(r)
    /\ UNCHANGED <<draft, row, audited, remote, lock, bounds, ghosts>>

(* markAdminServiceOperationReviewed: only a regeneration may be resolved  *)
(* without evidence.                                                       *)
MarkReviewed(c) ==
    /\ Reconcilable(c) /\ Kind(c) = "REGENERATE_LINK"
    /\ op' = [op EXCEPT ![c] = Resolved(@, "RECONCILED", @.after)]
    /\ UNCHANGED <<draft, row, audited, remote, lock, task, bounds, ghosts>>

-----------------------------------------------------------------------------
(* The buyer.                                                              *)

(* A renewal or extra volume: the quota becomes what is left of the row's  *)
(* plus the purchase, nothing left or all of it; the persist may fail.     *)
PaidOperation ==
    /\ lock = Free /\ acted + today < MaxMoves
    /\ acted' = acted + 1
    /\ \E left \in {0, row.limit}, expiry \in {row.expiry, Extended(row.expiry, 1)} :
          panel' = [panel EXCEPT !.limit = left + PaidVolume, !.expiry = expiry, !.enabled = TRUE]
    /\ row' \in {row, Image(panel')}
    /\ Disturbs(Confirms)
    /\ UNCHANGED <<draft, op, audited, flying, landed, lock, task, today, faults,
                   stray, orphaned>>

ToggleService ==
    /\ lock = Free /\ acted + today < MaxMoves
    /\ Eligible(IF row.status = "DISABLED" THEN "ENABLE" ELSE "DISABLE", row)
    /\ acted' = acted + 1
    /\ panel' = [panel EXCEPT !.enabled = (row.status = "DISABLED")]
    /\ row' = [row EXCEPT !.status = IF @ = "DISABLED" THEN "ACTIVE" ELSE "DISABLED",
                          !.expiry = panel.expiry]
    /\ UNCHANGED <<draft, op, audited, flying, landed, lock, task, today, faults, ghosts>>

OpenPage ==
    /\ lock = Free
    /\ row' = Image(panel)
    /\ UNCHANGED <<draft, op, audited, remote, lock, task, bounds, ghosts>>

-----------------------------------------------------------------------------
(* Time, Redis and crashes.                                                *)

NextDay ==
    /\ acted + today < MaxMoves
    /\ today' = today + 1
    /\ UNCHANGED <<draft, op, row, audited, remote, lock, task, acted, faults, ghosts>>

(* Renewals of the key fail long enough for it to expire under its owner:  *)
(* only the panel request lasts that long.                                 *)
LockLapses(e) ==
    /\ faults < MaxFaults /\ At(e, "answer") /\ lock = e
    /\ faults' = faults + 1
    /\ lock' = Free
    /\ UNCHANGED <<draft, op, row, audited, remote, task, today, acted, ghosts>>

Heartbeat(e) ==
    /\ At(e, "answer") /\ lock # e /\ ~task[e].lost
    /\ task' = [task EXCEPT ![e].lost = TRUE]
    /\ UNCHANGED <<draft, op, row, audited, remote, lock, bounds, ghosts>>

(* The key of a dead owner expires after 90 s, past any request of his.    *)
LockExpires ==
    /\ lock = Dead /\ \A u \in flying : u[1] \in stray
    /\ lock' = Free
    /\ UNCHANGED <<draft, op, row, audited, remote, task, bounds, ghosts>>

BotCrash ==
    /\ faults < MaxFaults
    /\ faults' = faults + 1
    /\ orphaned' = orphaned \cup {c \in Confirms : op[c].status = "PENDING"}
    /\ task' = [p \in Procs |-> IdleTask]
    /\ lock' = IF lock = Free THEN Free ELSE Dead
    /\ UNCHANGED <<draft, op, row, audited, remote, today, acted, stray, disturbed>>

-----------------------------------------------------------------------------
ExecutorStep(e) ==
    \/ Body(e) \/ Claim(e) \/ FreshRead(e) \/ SendRequest(e) \/ AdapterRefuses(e)
    \/ Answered(e) \/ AnsweredUncertain(e) \/ AnsweredError(e) \/ Verify(e)
    \/ Persist(e) \/ PersistThrows(e) \/ Finish(e)
ReviewerStep(r) == Probe(r) \/ SyncRow(r) \/ Classify(r)
LockStep(p)     == AcquireLock(p) \/ GiveUpLock(p) \/ Release(p)

Next ==
    \/ \E c \in Confirms : MarkReviewed(c) \/ \E k \in AllKinds : Preview(c, k)
    \/ \E c \in Confirms, e \in Executors : Confirm(e, c)
    \/ \E c \in Confirms, r \in Reviewers : StartReconcile(r, c)
    \/ \E e \in Executors : ExecutorStep(e) \/ Escapes(e) \/ LockLapses(e) \/ Heartbeat(e)
    \/ \E r \in Reviewers : ReviewerStep(r)
    \/ \E p \in Procs : LockStep(p)
    \/ \E u \in flying : RequestLands(u) \/ RequestIsLost(u)
    \/ PaidOperation \/ ToggleService \/ OpenPage
    \/ NextDay \/ LockExpires \/ BotCrash

Spec == Init /\ [][Next]_vars

(* A running handler goes on; nothing is assumed of the OWNER, the buyer,  *)
(* the panel or Redis.                                                     *)
FairSpec == Spec /\ \A e \in Executors : WF_vars(ExecutorStep(e) \/ LockStep(e))
-----------------------------------------------------------------------------
(* Properties.                                                             *)

TaskRecord == [pc : Steps, confirm : Confirms \cup {NoConfirm}, row : Rows, base : Accounts,
               target : Accounts, verdict : Statuses, fresh : BOOLEAN, lost : BOOLEAN]

(* Type invariant of the rows, the account, the lock and the processes.    *)
TypeOK ==
    /\ draft \in [Confirms -> [kind : AllKinds \cup {"NONE"}, seen : Rows]]
    /\ op \in [Confirms -> [status : Statuses, before : Rows, after : Accounts]]
    /\ row \in Rows /\ panel \in Accounts
    /\ audited \subseteq Confirms /\ landed \in [Confirms -> Nat]
    /\ flying \subseteq Confirms \X AllKinds \X Accounts
    /\ lock \in Procs \cup {Free, Dead}
    /\ task \in [Procs -> TaskRecord]
    /\ \A p \in Procs : task[p].pc # "idle" => task[p].confirm \in Confirms
    /\ today \in Nat /\ acted \in Nat /\ faults \in Nat
    /\ stray \subseteq Confirms /\ disturbed \subseteq Confirms /\ orphaned \subseteq Confirms

IsGrant(c) == Kind(c) \in Grants

(* What the record says of a grant is what happened to the account: a      *)
(* failed grant was not carried out, so that granting again cannot give    *)
(* twice, and a grant called done was carried out once.  The two ways left *)
(* open: the request arrived after its executor had stopped waiting, or    *)
(* the account was changed otherwise before the verdict.                   *)
VerdictTrue ==
    \A c \in Confirms : IsGrant(c) /\ c \notin stray \cup disturbed =>
        /\ op[c].status = "FAILED" => landed[c] = 0
        /\ op[c].status \in {"SUCCEEDED", "RECONCILED"} => landed[c] = 1
        /\ op[c].status = "SUCCEEDED" => c \in audited

(* The same without the account's other writers: the promise of the docs.  *)
FailedIsNotApplied ==
    \A c \in Confirms \ stray : IsGrant(c) /\ op[c].status = "FAILED" => landed[c] = 0

(* A grant adds what it says and nothing else, although its request names  *)
(* the new total: a request that arrives while its executor holds the lock *)
(* raises the account's own quota or last day by the amount, and leaves    *)
(* the other as it is, whatever the row says and whatever the buyer bought *)
(* since the preview.  Only another operation's request that outlived its  *)
(* executor's wait may come in between.                                    *)
GrantAddsExactly ==
    [][\A c \in Confirms, e \in Executors :
         (landed'[c] > landed[c] /\ stray \subseteq {c} /\ At(e, "answer") /\ Of(e) = c /\ lock = e)
           => /\ Kind(c) = "ADD_VOLUME" => /\ panel'.limit = panel.limit + Amount[c]
                                           /\ panel'.expiry = panel.expiry
              /\ Kind(c) = "ADD_TIME" => /\ panel'.limit = panel.limit
                                         /\ panel'.expiry >= panel.expiry + Amount[c]]_vars

(* However often a confirmation is repeated, replayed or reconciled, its   *)
(* request is carried out at most once.                                    *)
CarriedOutOnce == \A c \in Confirms : landed[c] <= 1

(* At most one operation of the service is unresolved, so that a reading   *)
(* of the account speaks of one operation.                                 *)
OneUnresolved == \A c, d \in Confirms : Unresolved(c) /\ Unresolved(d) => c = d

(* ALLOWED_TRANSITIONS.                                                    *)
MayBecome(s) ==
    CASE s = "NONE"      -> {"PENDING"}
      [] s = "PENDING"   -> {"SUCCEEDED", "FAILED", "UNCERTAIN", "RECONCILIATION_REQUIRED"}
      [] s = "UNCERTAIN" -> {"RECONCILIATION_REQUIRED", "RECONCILED", "FAILED"}
      [] s = "RECONCILIATION_REQUIRED" -> {"RECONCILED", "FAILED"}
      [] OTHER           -> {}

(* No verdict is overwritten: the executor, which writes its verdict by    *)
(* id, and the reconciliations of several OWNERs only ever take an         *)
(* operation along the declared transitions.                               *)
TransitionsAllowed ==
    [][\A c \in Confirms : op'[c].status # op[c].status =>
                              op'[c].status \in MayBecome(op[c].status)]_vars

(* Every claimed operation gets its verdict, so that it blocks the service *)
(* only as long as nobody knows: whatever the panel answers and however    *)
(* often the transaction fails.  The exceptions are an executor that died  *)
(* and one that threw where only the outermost catch is.                   *)
ClaimedIsClassified ==
    \A c \in Confirms :
        op[c].status = "PENDING" ~> op[c].status # "PENDING" \/ c \in orphaned

(* The order of docs/admin-service-operations.md:81-82, "persist the       *)
(* operation status", then "release the lock": an executor that leaves its *)
(* claimed operation has recorded a verdict.  TLC refutes it: one that     *)
(* throws outside the inner tries leaves PENDING behind, which blocks the  *)
(* service and is no status the reconciliation page takes up.              *)
VerdictBeforeRelease ==
    [][\A e \in Executors :
         (task[e].pc \notin {"idle", "lock", "body", "claim", "release"} /\ task'[e].pc = "release")
           => op'[Of(e)].status # "PENDING"]_vars
=============================================================================
