----------------------------- MODULE FreeTrial -----------------------------
(***************************************************************************)
(* Free trials on one panel.  A claim is inserted together with the        *)
(* reservation of one unit of its user's allowance, decides its place in   *)
(* the panel's capacity, is provisioned on the panel and becomes a         *)
(* Service; what definitely was not created gives the unit back.  A sweep  *)
(* cancels, reconciles, escalates and expires claims; an OWNER may         *)
(* reconcile or resolve one; a paid renewal converts a trial.              *)
(*                                                                         *)
(* A unit comes from the user's grant (FreeTrialEntitlement) or from the   *)
(* default allowance, which is counted from the claims.  The account name  *)
(* is frozen in the claim and used by nobody else, so that the lock of the *)
(* provisioning key excludes no one: only its failure is modelled.         *)
(***************************************************************************)
EXTENDS Integers, FiniteSets

CONSTANTS
    Claims,        \* the claims that will be made
    Users, NoUser,
    Handlers,      \* update handlers of the bot: users and OWNERs
    Sweep,         \* the free-trial sweep of the bot
    NoClaim,
    Grant,         \* units of each user's grant
    Default,       \* default allowance of a user
    Capacity,      \* Panel.testMaxConcurrentAccounts
    MaxCrashes     \* bound: crashes of the bot process

Procs == Handlers \cup {Sweep}

ASSUME FreeTrialAssumption ==
    /\ IsFiniteSet(Claims) /\ NoClaim \notin Claims /\ Sweep \notin Handlers
    /\ NoUser \notin Users /\ Grant \in [Users -> Nat]
    /\ Default \in Nat /\ Capacity \in Nat /\ MaxCrashes \in Nat

VARIABLES
    claim,       \* FreeTrialClaim rows
    consumed,    \* FreeTrialEntitlement.consumed of each user's grant
    ended,       \* users whose grant expired or was revoked
    service,     \* claims with a Service row
    lapsed,      \* those whose Service is EXPIRED
    converted,   \* those whose Service a paid renewal converted
    past,        \* trials past their expiresAt
    old,         \* CLAIMED for 15 minutes, or PROVISIONING and not updated for one
    account,     \* external: the panel account of each claim
    flying,      \* external: create requests on their way
    task,
    crashes,
    disputed     \* ghost: claims failed while their creation was under way, or by force

rows  == <<claim, consumed, ended, service, lapsed, converted>>
panel == <<account, flying>>
time  == <<past, old>>
vars  == <<rows, panel, time, task, crashes, disputed>>

Statuses == {"NONE", "CLAIMED", "PROVISIONING", "ACTIVE", "EXPIRED", "FAILED", "CANCELLED",
             "MANUAL_REVIEW"}
Steps == {"idle", "capacity", "provision", "lock", "create", "answer", "persist", "release",
          "probe", "adopt", "fail", "escalate", "expire", "expireService", "disable"}
Consuming == {"CLAIMED", "PROVISIONING", "ACTIVE", "MANUAL_REVIEW", "EXPIRED"}
Live      == {"CLAIMED", "PROVISIONING", "ACTIVE", "MANUAL_REVIEW"}
Undecided == {"PROVISIONING", "MANUAL_REVIEW"}

NoRow    == [status |-> "NONE", user |-> NoUser, fund |-> "none", released |-> FALSE]
IdleTask == [pc |-> "idle", claim |-> NoClaim, keeps |-> FALSE]

Init ==
    /\ claim     = [c \in Claims |-> NoRow]
    /\ consumed  = [u \in Users |-> 0]
    /\ ended     = {}
    /\ service   = {}
    /\ lapsed    = {}
    /\ converted = {}
    /\ past      = {}
    /\ old       = {}
    /\ account   = [c \in Claims |-> "none"]
    /\ flying    = {}
    /\ task      = [w \in Procs |-> IdleTask]
    /\ crashes   = 0
    /\ disputed  = {}

-----------------------------------------------------------------------------
At(w, pc)   == task[w].pc = pc
ClaimOf(w)  == task[w].claim
Goto(w, pc) == task' = [task EXCEPT ![w].pc = pc]
Leave(w)    == task' = [task EXCEPT ![w] = IdleTask]
Take(w, pc, c) == task' = [task EXCEPT ![w] = [pc |-> pc, claim |-> c, keeps |-> FALSE]]
Busy(c)     == \E w \in Handlers : ClaimOf(w) = c

Of(u)       == {c \in Claims : claim[c].user = u}
Status(S)   == {c \in Claims : claim[c].status \in S}
SetStatus(c, from, to) ==
    claim' = [claim EXCEPT ![c].status = IF @ \in from THEN to ELSE @]

GrantUsable(u) == u \notin ended /\ consumed[u] < Grant[u]
DefaultInUse(u) ==   \* mutant: an expired trial gives its unit back
    Cardinality({c \in Of(u) \cap Status(Live) : claim[c].fund = "default"})
DefaultUsed(u) == Cardinality({c \in Of(u) \cap Status(Consuming) : claim[c].fund = "default"})

(* Claims that count against the panel's capacity.                         *)
Occupying == Status({"CLAIMED"} \cup Undecided) \cup (Status({"ACTIVE"}) \ past)

-----------------------------------------------------------------------------
(* The claim.                                                              *)

(* insertClaim: claim and reservation in one transaction, behind the       *)
(* partial unique index on the live claims of a user.                      *)
InsertClaim(w, c, u) ==
    /\ w \in Handlers /\ At(w, "idle") /\ claim[c].status = "NONE"
    /\ Of(u) \cap Status(Live) = {}
    /\ GrantUsable(u) \/ DefaultUsed(u) < Default
    /\ claim' = [claim EXCEPT ![c] =
                   [status |-> "CLAIMED", user |-> u, released |-> FALSE,
                    fund |-> IF GrantUsable(u) THEN "grant" ELSE "default"]]
    /\ consumed' = [consumed EXCEPT ![u] = IF GrantUsable(u) THEN @ + 1 ELSE @]
    /\ Take(w, "capacity", c)
    /\ UNCHANGED <<ended, service, lapsed, converted, panel, time, crashes, disputed>>

CapacityOfOlder(w) ==   \* mutant: only claims that reached the panel are counted
    /\ At(w, "capacity")
    /\ Goto(w, IF Cardinality(Occupying \ Status({"CLAIMED"})) < Capacity THEN "provision"
               ELSE "release")
    /\ UNCHANGED <<rows, panel, time, crashes, disputed>>

(* The capacity transaction, under the advisory lock of the panel: a claim *)
(* cancels itself if the others fill the limit.                            *)
DecideCapacity(w) ==
    LET c == ClaimOf(w)
        others == Cardinality(Occupying \ {c}) IN
    /\ At(w, "capacity")
    /\ IF others < Capacity THEN Goto(w, "provision") /\ UNCHANGED claim
       ELSE SetStatus(c, {"CLAIMED"}, "CANCELLED") /\ Goto(w, "release")
    /\ UNCHANGED <<consumed, ended, service, lapsed, converted, panel, time, crashes, disputed>>

(* cancelClaimSafely, and the same with FAILED: only who moves the status  *)
(* releases the unit, in a transaction of its own.                         *)
CancelSafely(w, c, from, to) ==
    /\ SetStatus(c, from, to)
    /\ IF claim[c].status \in from THEN Take(w, "release", c) ELSE Leave(w)

ReleaseTwice(w) ==   \* mutant: the release is not stamped
    LET c == ClaimOf(w)  u == claim[c].user IN
    /\ At(w, "release")
    /\ consumed' = [consumed EXCEPT ![u] = IF claim[c].fund = "grant" /\ @ > 0 THEN @ - 1 ELSE @]
    /\ Leave(w)
    /\ UNCHANGED <<claim, ended, service, lapsed, converted, panel, time, crashes, disputed>>

(* releaseClaimAllowance.                                                  *)
ReleaseAllowance(w) ==
    LET c == ClaimOf(w)
        mine == claim[c].status \in {"FAILED", "CANCELLED"} /\ ~claim[c].released IN
    /\ At(w, "release")
    /\ claim' = [claim EXCEPT ![c].released = @ \/ mine]
    /\ consumed' = [consumed EXCEPT ![claim[c].user] =
                      IF mine /\ claim[c].fund = "grant" /\ @ > 0 THEN @ - 1 ELSE @]
    /\ Leave(w)
    /\ UNCHANGED <<ended, service, lapsed, converted, panel, time, crashes, disputed>>

(* provisionTrialClaim: the naming fails, or the name is frozen and the    *)
(* claim moved to PROVISIONING.                                            *)
StartProvisioning(w) ==
    LET c == ClaimOf(w) IN
    /\ At(w, "provision")
    /\ \/ CancelSafely(w, c, {"CLAIMED", "PROVISIONING"}, "CANCELLED") /\ UNCHANGED old
       \/ /\ SetStatus(c, {"CLAIMED"}, "PROVISIONING")
          /\ old' = old \ {c}
          /\ Goto(w, "lock")
    /\ UNCHANGED <<consumed, ended, service, lapsed, converted, panel, past, crashes, disputed>>

(* No lock backend cancels the claim, as no attempt was made before.       *)
AcquireLock(w) ==
    LET c == ClaimOf(w) IN
    /\ At(w, "lock")
    /\ \/ CancelSafely(w, c, {"CLAIMED", "PROVISIONING"}, "CANCELLED")
       \/ Leave(w) /\ UNCHANGED claim
       \/ Goto(w, "create") /\ UNCHANGED claim
    /\ UNCHANGED <<consumed, ended, service, lapsed, converted, panel, time, crashes, disputed>>

(* createServiceAccount: reads that fail, or a rejection, are definite.    *)
CreateRefused(w) ==
    /\ At(w, "create")
    /\ CancelSafely(w, ClaimOf(w), {"PROVISIONING"}, "FAILED")
    /\ UNCHANGED <<consumed, ended, service, lapsed, converted, panel, time, crashes, disputed>>

SendCreate(w) ==
    /\ At(w, "create")
    /\ flying' = flying \cup {ClaimOf(w)}
    /\ Goto(w, "answer")
    /\ UNCHANGED <<rows, account, time, crashes, disputed>>

CreateLands(c) ==
    /\ c \in flying
    /\ flying' = flying \ {c}
    /\ account' = [account EXCEPT ![c] = "enabled"]
    /\ UNCHANGED <<rows, time, task, crashes, disputed>>

CreateIsLost(c) ==
    /\ c \in flying
    /\ flying' = flying \ {c}
    /\ UNCHANGED <<rows, account, time, task, crashes, disputed>>

CreateConfirmed(w) ==
    /\ At(w, "answer") /\ account[ClaimOf(w)] # "none"
    /\ Goto(w, "persist")
    /\ UNCHANGED <<rows, panel, time, crashes, disputed>>

UnknownReleases(w) ==   \* mutant: a timeout fails the claim and releases its unit
    /\ At(w, "answer")
    /\ CancelSafely(w, ClaimOf(w), {"PROVISIONING"}, "FAILED")
    /\ UNCHANGED <<consumed, ended, service, lapsed, converted, panel, time, crashes, disputed>>

(* Unknown: the claim is left to the reconciliation.                       *)
CreateUnknown(w) ==
    /\ At(w, "answer")
    /\ Leave(w)
    /\ UNCHANGED <<rows, panel, time, crashes, disputed>>

(* persistTrialService: the Service of the user is created or found; only  *)
(* an undecided claim becomes ACTIVE.  Or the transaction throws.          *)
PersistTrial(w) ==
    LET c == ClaimOf(w) IN
    /\ At(w, "persist") \/ At(w, "adopt")
    /\ \/ UNCHANGED <<claim, service>>
       \/ service' = service \cup {c} /\ SetStatus(c, Undecided, "ACTIVE")
    /\ Leave(w)
    /\ UNCHANGED <<consumed, ended, lapsed, converted, panel, time, crashes, disputed>>

-----------------------------------------------------------------------------
(* Reconciliation, by the sweep or by an OWNER.                            *)

(* The sweep looks at PROVISIONING claims not updated for a minute, an     *)
(* OWNER at any undecided claim.                                           *)
StartReconcile(w, c) ==
    /\ At(w, "idle")
    /\ IF w = Sweep THEN claim[c].status = "PROVISIONING" /\ c \in old
       ELSE claim[c].status \in Undecided
    /\ Take(w, "probe", c)
    /\ UNCHANGED <<rows, panel, time, crashes, disputed>>

(* No provisioning lock is taken.  What stays unknown to the sweep for an  *)
(* hour is escalated.                                                      *)
ProbePanel(w) ==
    LET c == ClaimOf(w) IN
    /\ At(w, "probe")
    /\ \/ account[c] # "none" /\ Goto(w, "adopt")
       \/ account[c] = "none" /\ Goto(w, "fail")
       \/ IF w = Sweep THEN Goto(w, "escalate") ELSE Leave(w)
    /\ UNCHANGED <<rows, panel, time, crashes, disputed>>

UnderWay(c) == account[c] # "none" \/ c \in flying
                \/ \E v \in Handlers : ClaimOf(v) = c
                                       /\ task[v].pc \in {"lock", "create", "answer", "persist"}

FailAbsent(w) ==
    LET c == ClaimOf(w) IN
    /\ At(w, "fail")
    /\ CancelSafely(w, c, Undecided, "FAILED")
    /\ disputed' = IF UnderWay(c) THEN disputed \cup {c} ELSE disputed
    /\ UNCHANGED <<consumed, ended, service, lapsed, converted, panel, time, crashes>>

Escalate(w) ==
    /\ At(w, "escalate")
    /\ \/ UNCHANGED claim
       \/ SetStatus(ClaimOf(w), {"PROVISIONING"}, "MANUAL_REVIEW")
    /\ Leave(w)
    /\ UNCHANGED <<consumed, ended, service, lapsed, converted, panel, time, crashes, disputed>>

(* forceClaimNotCreated: an OWNER decides after a warning.                 *)
ForceNotCreated(w, c) ==
    /\ w \in Handlers /\ At(w, "idle") /\ claim[c].status \in Undecided
    /\ CancelSafely(w, c, Undecided, "CANCELLED")
    /\ disputed' = disputed \cup {c}
    /\ UNCHANGED <<consumed, ended, service, lapsed, converted, panel, time, crashes>>

-----------------------------------------------------------------------------
(* The rest of the sweep.                                                  *)

CancelStale(c) ==
    /\ At(Sweep, "idle") /\ claim[c].status = "CLAIMED" /\ c \in old
    /\ CancelSafely(Sweep, c, {"CLAIMED", "PROVISIONING"}, "CANCELLED")
    /\ UNCHANGED <<consumed, ended, service, lapsed, converted, panel, time, crashes, disputed>>

(* Claims past their expiry are read in a batch, with their services.      *)
StartExpiry(c) ==
    /\ At(Sweep, "idle") /\ claim[c].status = "ACTIVE" /\ c \in past
    /\ task' = [task EXCEPT ![Sweep] = [pc |-> "expire", claim |-> c,
                                        keeps |-> c \in converted]]
    /\ UNCHANGED <<rows, panel, time, crashes, disputed>>

ExpireClaim ==
    LET c == ClaimOf(Sweep) IN
    /\ At(Sweep, "expire")
    /\ SetStatus(c, {"ACTIVE"}, "EXPIRED")
    /\ IF task[Sweep].keeps THEN Leave(Sweep) ELSE Goto(Sweep, "expireService")
    /\ UNCHANGED <<consumed, ended, service, lapsed, converted, panel, time, crashes, disputed>>

ExpireService ==
    LET c == ClaimOf(Sweep) IN
    /\ At(Sweep, "expireService")
    /\ lapsed' = IF c \in converted THEN lapsed ELSE lapsed \cup {c}
    /\ Goto(Sweep, "disable")
    /\ UNCHANGED <<claim, consumed, ended, service, converted, panel, time, crashes, disputed>>

(* testAutoDisableAfterExpiry, if the panel is reached.                    *)
DisableAccount ==
    LET c == ClaimOf(Sweep) IN
    /\ At(Sweep, "disable")
    /\ account' \in {account, [account EXCEPT ![c] = "disabled"]}
    /\ Leave(Sweep)
    /\ UNCHANGED <<rows, flying, time, crashes, disputed>>

(* expireTrialEntitlements, or a revocation by an administrator.           *)
GrantEnds(u) ==
    /\ Grant[u] > 0 /\ u \notin ended
    /\ ended' = ended \cup {u}
    /\ UNCHANGED <<claim, consumed, service, lapsed, converted, panel, time, task, crashes,
                   disputed>>

-----------------------------------------------------------------------------
(* Time, the paid renewal of a trial (ServiceMutation), and crashes.       *)

TrialEnds(c) ==
    /\ c \in service \ past
    /\ past' = past \cup {c}
    /\ UNCHANGED <<rows, panel, old, task, crashes, disputed>>

(* A CLAIMED claim of that age has no handler any more; nothing bounds the *)
(* requests of createServiceAccount to a minute in all, but one that was   *)
(* given up has arrived or is lost by then.                                *)
GrowsOld(c) ==
    /\ c \notin old
    /\ \/ claim[c].status = "CLAIMED" /\ ~Busy(c)
       \/ claim[c].status = "PROVISIONING" /\ (c \in flying => Busy(c))
    /\ old' = old \cup {c}
    /\ UNCHANGED <<rows, panel, past, task, crashes, disputed>>

Convert(c) ==
    /\ c \in service \ converted
    /\ converted' = converted \cup {c}
    /\ lapsed' = lapsed \ {c}
    /\ UNCHANGED <<claim, consumed, ended, service, panel, time, task, crashes, disputed>>

BotCrash ==
    /\ crashes < MaxCrashes
    /\ crashes' = crashes + 1
    /\ task' = [w \in Procs |-> IdleTask]
    /\ UNCHANGED <<rows, panel, time, disputed>>

-----------------------------------------------------------------------------
Step(w) ==
    \/ DecideCapacity(w) \/ ReleaseAllowance(w) \/ StartProvisioning(w) \/ AcquireLock(w)
    \/ CreateRefused(w) \/ SendCreate(w) \/ CreateConfirmed(w) \/ CreateUnknown(w)
    \/ PersistTrial(w) \/ ProbePanel(w) \/ FailAbsent(w) \/ Escalate(w)

SweepStep == Step(Sweep) \/ ExpireClaim \/ ExpireService \/ DisableAccount

Next ==
    \/ \E w \in Handlers : Step(w)
    \/ SweepStep
    \/ \E w \in Procs, c \in Claims : \/ \E u \in Users : InsertClaim(w, c, u)
                                      \/ StartReconcile(w, c) \/ ForceNotCreated(w, c)
    \/ \E c \in Claims : \/ CreateLands(c) \/ CreateIsLost(c) \/ CancelStale(c) \/ StartExpiry(c)
                         \/ TrialEnds(c) \/ GrowsOld(c) \/ Convert(c)
    \/ \E u \in Users : GrantEnds(u)
    \/ BotCrash

Spec == Init /\ [][Next]_vars

-----------------------------------------------------------------------------
(* Properties.                                                             *)

(* Type invariant of the rows, the panel and the processes.                *)
TypeOK ==
    /\ claim \in [Claims -> [status : Statuses, user : Users \cup {NoUser},
                             fund : {"none", "grant", "default"}, released : BOOLEAN]]
    /\ consumed \in [Users -> Nat] /\ ended \subseteq Users
    /\ service \subseteq Claims /\ lapsed \subseteq service /\ converted \subseteq service
    /\ past \subseteq Claims /\ old \subseteq Claims /\ flying \subseteq Claims
    /\ account \in [Claims -> {"none", "enabled", "disabled"}]
    /\ task \in [Procs -> [pc : Steps, claim : Claims \cup {NoClaim}, keeps : BOOLEAN]]
    /\ \A w \in Procs : At(w, "idle") <=> ClaimOf(w) = NoClaim
    /\ crashes \in Nat /\ disputed \subseteq Claims

(* The counter of a grant is explained by its receipts, the claims it      *)
(* funded and was not paid back for, however handlers, sweep and OWNER     *)
(* fail, cancel and release claims side by side.                           *)
ConsumedIsReceipts ==
    \A u \in Users : consumed[u] =
        Cardinality({c \in Of(u) : claim[c].fund = "grant" /\ ~claim[c].released})

(* A unit is released only when the account was not created: nobody holds  *)
(* a trial whose unit went back, except for claims that were failed while  *)
(* their creation was under way or forced by an OWNER.                     *)
ReleasedUnlessDisputed ==
    \A c \in Claims : claim[c].released => c \notin service \/ c \in disputed

(* The same without the exception for the reconciliation.                  *)
ReleasedOnAbsence ==
    \A c \in Claims : claim[c].released /\ claim[c].status = "FAILED" => c \notin service

(* No user gets more trials than its allowance has units, with the same    *)
(* exception.                                                              *)
TrialsWithinAllowance ==
    \A u \in Users : Cardinality((service \cap Of(u)) \ disputed) <= Grant[u] + Default

(* The claims let through to the panel never exceed its capacity, in       *)
(* whatever order the deciders commit.                                     *)
CapacityHeld ==
    Cardinality((Status(Undecided) \cup (Status({"ACTIVE"}) \ past))) <= Capacity

(* The sweep never disables the account of a converted service.            *)
ConvertedStaysEnabled ==
    [][\A c \in Claims : c \in converted /\ account[c] = "enabled" => account'[c] = "enabled"]_vars
=============================================================================
