------------------------- MODULE WorkspaceBindingProofs -------------------------
(***************************************************************************)
(* What the binding's run checks on a few threads, callbacks, links and    *)
(* teardowns, for any number of them: a pending bind is spent once, the    *)
(* threads share one _Credential until a bind or a teardown, a turn begun  *)
(* after a teardown is served only where the store could not be written,   *)
(* and a binding is adopted with its credential.                           *)
(***************************************************************************)
EXTENDS WorkspaceBinding, CredentialRotationProofs

-----------------------------------------------------------------------------
(* A pending bind is spent once. *)

\* A callback has a step and a record.
Shaped == /\ DOMAIN binder = Binders /\ DOMAIN pend = Pendings
          /\ \A x \in Binders : /\ "step" \in DOMAIN binder[x] /\ "rec" \in DOMAIN binder[x]
                                /\ binder[x].rec \in Pendings \union {None}

\* A callback that has read a link has it; one that has got past consume keeps the
\* others where they read it, and they will find it spent.
Waiting  == {"idle", "selected", "rejected"}
Holds(x) == binder[x].step \notin Waiting /\ binder[x].rec # None
Picked   == \A x \in Binders :
                /\ binder[x].step = "selected" => binder[x].rec \in Pendings
                /\ binder[x].step \in {"idle", "rejected"} => binder[x].rec = None
Spent    == \A x \in Binders : Holds(x) => pend[binder[x].rec] = "consumed"
Alone    == \A x, y \in Binders :
                Holds(x) /\ x # y /\ binder[y].rec = binder[x].rec => binder[y].step = "selected"

BindInv == Shaped /\ Picked /\ Spent /\ Alone

-----------------------------------------------------------------------------
\* The links and the callbacks as they were.
LEMMA Untouched == ASSUME BindInv, UNCHANGED <<pend, binder>> PROVE BindInv'
BY DEF BindInv, Shaped, Picked, Spent, Alone, Holds

\* A link that no callback holds changes.
LEMMA LinkMoves ==
    ASSUME BindInv, UNCHANGED binder, NEW r \in Pendings, pend[r] # "consumed", NEW v,
           pend' = [pend EXCEPT ![r] = v]
    PROVE  BindInv'
BY DEF BindInv, Shaped, Picked, Spent, Alone, Holds

\* A callback goes on without changing its record or the links.
LEMMA CallbackMoves ==
    ASSUME BindInv, UNCHANGED pend, NEW x \in Binders, DOMAIN binder' = Binders,
           \A y \in Binders \ {x} : binder'[y] = binder[y],
           "step" \in DOMAIN binder'[x], "rec" \in DOMAIN binder'[x],
           binder'[x].rec = binder[x].rec, binder[x].step \notin Waiting,
           binder'[x].step \notin Waiting
    PROVE  BindInv'
BY DEF BindInv, Shaped, Picked, Spent, Alone, Holds, Waiting

\* A callback is turned away.
LEMMA TurnedDown ==
    ASSUME BindInv, DOMAIN pend' = Pendings,
           \A q \in Pendings : pend'[q] = pend[q], NEW x \in Binders, DOMAIN binder' = Binders,
           \A y \in Binders \ {x} : binder'[y] = binder[y],
           binder'[x] = [NoBind EXCEPT !.step = "rejected"]
    PROVE  BindInv'
BY BindingAssumption DEF BindInv, Shaped, Picked, Spent, Alone, Holds, Waiting, NoBind

-----------------------------------------------------------------------------
LEMMA SelectKeeps == ASSUME BindInv, NEW x \in Binders, NEW r \in Pendings, Select(x, r)
                     PROVE  BindInv'
<1>0. UNCHANGED pend /\ binder[x].step = "idle" /\ binder[x].rec = None
  BY DEF Select, BindInv, Picked
<1>1. CASE pend[r] = "open" /\ binder' = [binder EXCEPT ![x].rec = r, ![x].step = "selected"]
  <2>1. /\ DOMAIN binder' = Binders /\ \A y \in Binders \ {x} : binder'[y] = binder[y]
        /\ "step" \in DOMAIN binder'[x] /\ "rec" \in DOMAIN binder'[x]
        /\ binder'[x].rec = r /\ binder'[x].step = "selected"
    BY <1>1 DEF BindInv, Shaped
  <2>. QED
    BY <1>0, <1>1, <2>1 DEF BindInv, Shaped, Picked, Spent, Alone, Holds, Waiting
<1>2. CASE BinderAt(x, "idle", "rejected")
  <2>1. /\ DOMAIN binder' = Binders /\ \A y \in Binders \ {x} : binder'[y] = binder[y]
        /\ "step" \in DOMAIN binder'[x] /\ "rec" \in DOMAIN binder'[x]
        /\ binder'[x].rec = None /\ binder'[x].step = "rejected"
    BY <1>0, <1>2 DEF BindInv, Shaped, BinderAt
  <2>. QED
    BY <1>0, <2>1 DEF BindInv, Shaped, Picked, Spent, Alone, Holds, Waiting
<1>. QED
  BY <1>1, <1>2 DEF Select

\* Of the callbacks that have read a link, the one whose claim finds it open holds it.
LEMMA ClaimKeeps == ASSUME BindInv, NEW x \in Binders, Claim(x) PROVE BindInv'
<1>. DEFINE r == binder[x].rec
<1>0. binder[x].step = "selected" /\ r \in Pendings /\ DOMAIN pend = Pendings
  BY DEF Claim, BindInv, Shaped, Picked
<1>1. CASE Claimable(r)
  <2>1. pend[r] = "open" /\ pend' = [pend EXCEPT ![r] = "consumed"]
    BY <1>0, <1>1 DEF Claim, Claimable
  <2>2. /\ DOMAIN binder' = Binders /\ \A y \in Binders \ {x} : binder'[y] = binder[y]
        /\ "step" \in DOMAIN binder'[x] /\ "rec" \in DOMAIN binder'[x]
        /\ binder'[x].rec = r /\ binder'[x].step = "claimed"
    BY <1>1 DEF Claim, BindInv, Shaped
  <2>3. \A y \in Binders : binder[y].rec = r => binder[y].step = "selected"
    BY <1>0, <2>1, BindingAssumption DEF BindInv, Picked, Spent, Holds, Waiting
  <2>4. Shaped' /\ Picked' /\ Spent'
    BY <1>0, <2>1, <2>2 DEF BindInv, Shaped, Picked, Spent, Holds, Waiting
  <2>5. Alone'
    BY <1>0, <2>2, <2>3 DEF BindInv, Alone, Holds, Waiting
  <2>. QED
    BY <2>4, <2>5 DEF BindInv
<1>2. CASE ~Claimable(r)
  <2>1. pend' = [pend EXCEPT ![r] = pend[r]]
    BY <1>0, <1>2 DEF Claim, Claimable
  <2>2. DOMAIN pend' = Pendings /\ \A q \in Pendings : pend'[q] = pend[q]
    BY <1>0, <2>1
  <2>3. /\ DOMAIN binder' = Binders /\ \A y \in Binders \ {x} : binder'[y] = binder[y]
        /\ binder'[x] = [NoBind EXCEPT !.step = "rejected"]
    BY <1>2 DEF Claim, BindInv, Shaped
  <2>. QED
    BY <2>2, <2>3, TurnedDown
<1>. QED
  BY <1>1, <1>2

\* What a callback does once it holds its link.
LEMMA HolderKeeps ==
    ASSUME BindInv, NEW x \in Binders,
           \/ BindFails(x) \/ (\E e \in Enterprises : BindWorkspace(x, e))
           \/ StoreBinding(x) \/ StoreBindingFails(x) \/ ForgetPrevious(x)
    PROVE  BindInv'
<1>0. DOMAIN binder = Binders /\ "step" \in DOMAIN binder[x] /\ "rec" \in DOMAIN binder[x]
  BY DEF BindInv, Shaped
<1>1. /\ UNCHANGED pend /\ binder[x].step \in {"claimed", "issued", "stored"}
      /\ DOMAIN binder' = Binders /\ \A y \in Binders \ {x} : binder'[y] = binder[y]
      /\ "step" \in DOMAIN binder'[x] /\ "rec" \in DOMAIN binder'[x]
      /\ binder'[x].rec = binder[x].rec
      /\ binder'[x].step \in {"issued", "stored", "bound", "failed"}
  <2>1. CASE BindFails(x)
    BY <1>0, <2>1 DEF BindFails, BinderAt
  <2>2. ASSUME NEW e \in Enterprises, BindWorkspace(x, e)
        PROVE  /\ UNCHANGED pend /\ binder[x].step = "claimed"
               /\ DOMAIN binder' = Binders /\ \A y \in Binders \ {x} : binder'[y] = binder[y]
               /\ "step" \in DOMAIN binder'[x] /\ "rec" \in DOMAIN binder'[x]
               /\ binder'[x].rec = binder[x].rec /\ binder'[x].step \in {"issued", "failed"}
    BY <1>0, <2>2 DEF BindWorkspace, BinderAt
  <2>3. CASE StoreBinding(x)
    BY <1>0, <2>3 DEF StoreBinding
  <2>4. CASE StoreBindingFails(x)
    BY <1>0, <2>4 DEF StoreBindingFails
  <2>5. CASE ForgetPrevious(x)
    BY <1>0, <2>5 DEF ForgetPrevious, BinderAt
  <2>. QED
    BY <2>1, <2>2, <2>3, <2>4, <2>5
<1>. QED
  BY <1>1, CallbackMoves DEF Waiting

\* A new process has no callback under way, and its links may have been purged.
LEMMA RestartKeeps == ASSUME BindInv, RestartAll PROVE BindInv'
<1>1. /\ DOMAIN binder' = Binders /\ DOMAIN pend' = Pendings
      /\ \A x \in Binders : /\ "step" \in DOMAIN binder'[x] /\ "rec" \in DOMAIN binder'[x]
                            /\ binder'[x].rec = None /\ binder'[x].step \in {"idle", "failed"}
  BY DEF RestartAll, Purge, NoBind
<1>. QED
  BY <1>1, BindingAssumption DEF BindInv, Shaped, Picked, Spent, Alone, Holds

LEMMA BindStepKeeps == ASSUME BindInv, [BindNext]_bvars PROVE BindInv'
<1>1. CASE Rotating \/ Disconnect \/ (\E u \in Leavers : TearDown(u)) \/ UNCHANGED bvars
  <2>1. UNCHANGED <<pend, binder>>
    BY <1>1 DEF Rotating, Disconnect, TearDown, ReadBinding, Unbind, UnbindFails, RevokeToken,
                ForgetCached, bvars, bindVars
  <2>. QED
    BY <2>1, Untouched
<1>2. CASE RestartAll
  BY <1>2, RestartKeeps
<1>3. ASSUME NEW r \in Pendings, OpenBind(r) \/ Decline(r) PROVE BindInv'
  BY <1>3, LinkMoves DEF OpenBind, Opened, Decline
<1>4. ASSUME NEW x \in Binders, CompleteBind(x) PROVE BindInv'
  BY <1>4, SelectKeeps, ClaimKeeps, HolderKeeps DEF CompleteBind
<1>. QED
  BY <1>1, <1>2, <1>3, <1>4 DEF BindNext

LEMMA BindInitHolds == BindInit => BindInv
BY BindingAssumption DEF BindInit, NoBind, BindInv, Shaped, Picked, Spent, Alone, Holds, Waiting

-----------------------------------------------------------------------------
\* Of any number of callbacks racing on any number of links, one gets past consume for
\* each (PendingBindStore.consume's guarded UPDATE), across declines, purges and restarts.
THEOREM LinkSpentOnce == BindSpec => []SpentOnce
<1>1. BindInv => SpentOnce
  BY DEF BindInv, Spent, Alone, Holds, Waiting, SpentOnce
<1>. QED
  BY <1>1, BindInitHolds, BindStepKeeps, PTL DEF BindSpec

-----------------------------------------------------------------------------
(* Types: CredentialRotation's, and a callback that has a credential has its tenant. *)

BinderSteps == {"idle", "selected", "claimed", "issued", "stored", "bound", "failed", "rejected"}
BinderRec   == [step : BinderSteps, rec : Pendings \union {None},
                ent : Enterprises \union {None}, got : Tokens]
LeaverRec   == [step : {"idle", "read", "unbound", "revoked", "ended", "gaveup"}, rec : Rows]

BindTypes == /\ Types /\ BindTypeOK
             /\ \A x \in Binders : binder[x].step = "issued" => binder[x].ent \in Enterprises

\* What a thread's steps leave alone.
LEMMA BindFrame ==
    ASSUME BindTypes, Types', UNCHANGED bindVars, gone' \in BOOLEAN, calm' \in BOOLEAN,
           crossed' \in BOOLEAN, late' \subseteq Turns
    PROVE  BindTypes'
BY DEF BindTypes, BindTypeOK, bindVars

LEMMA ReadRowTyped == ASSUME Types, NEW a \in Actors, ReadRow(a) PROVE Types'
<1>. DEFINE m == [mem[a] EXCEPT !.rec = row]
<1>1. m \in Locals /\ "insert" \in Allowed(a) /\ "insert" \notin Aware
  BY DEF Types, ThreadsOK, StoreOK, Locals, Allowed, Places, Aware, Ended, Holding, Exchanging
<1>2. Goto(a, "insert", m)
  BY DEF ReadRow
<1>3. ThreadsOK'
  <2>. HIDE DEF m
  <2>. QED
    BY <1>1, <1>2, GotoKeeps DEF Types
<1>4. UNCHANGED <<row, cred, lock, cached, seed, shutVars, backendVars, other, faults>>
  BY DEF ReadRow
<1>. QED
  BY <1>3, <1>4 DEF Types, StoreOK, WorldOK, shutVars, backendVars

LEMMA ResolvedTyped ==
    ASSUME Types, NEW a \in Actors, NEW o \in Creds, Resolved(a, o) PROVE ThreadsOK'
<1>. DEFINE p == IF a \in Keepers THEN "tick" ELSE "look"
            m == [mem[a] EXCEPT !.obj = o, !.rec = None]
<1>1. m \in Locals /\ m.obj \in Creds
  BY DEF Types, ThreadsOK, Locals, Rows
<1>2. p \in Allowed(a)
  BY RotationAssumption DEF Allowed, Places, Actors, Ended
<1>3. Goto(a, p, m)
  BY DEF Resolved
<1>. HIDE DEF m, p
<1>. QED
  BY <1>1, <1>2, <1>3, GotoKeeps DEF Types

LEMMA InsertTyped == ASSUME Types, NEW a \in Actors, Insert(a) PROVE Types'
<1>1. UNCHANGED <<row, lock, seed, shutVars, backendVars, other, faults>>
  BY DEF Insert
<1>2. CASE Recheck /\ Resolved(a, cached) /\ UNCHANGED <<cached, cred>>
  <2>1. ThreadsOK'
    BY <1>2, ResolvedTyped DEF Recheck, Types, StoreOK
  <2>. QED
    BY <1>1, <1>2, <2>1 DEF Types, StoreOK, WorldOK, shutVars, backendVars
<1>3. CASE Leave(a, IF RequireBinding THEN "failed" ELSE "default") /\ UNCHANGED <<cached, cred>>
  <2>1. ThreadsOK'
    BY <1>3, LeaveKeeps DEF Ended, Types
  <2>. QED
    BY <1>1, <1>3, <2>1 DEF Types, StoreOK, WorldOK, shutVars, backendVars
<1>4. CASE /\ mem[a].rec # None /\ \E o \in Creds : Spare(o)
           /\ LET o == CHOOSE o \in Creds : Spare(o) IN
                /\ cached' = o /\ Resolved(a, o)
                /\ cred' = [cred EXCEPT ![o] = [Unused EXCEPT !.refresh = mem[a].rec.token,
                                                              !.ent = mem[a].rec.ent]]
  <2>1. PICK o \in Creds :
                /\ cached' = o /\ Resolved(a, o)
                /\ cred' = [cred EXCEPT ![o] = [Unused EXCEPT !.refresh = mem[a].rec.token,
                                                              !.ent = mem[a].rec.ent]]
    BY <1>4
  <2>2. mem[a].rec.token \in Tokens /\ mem[a].rec.ent \in Enterprises
    BY <1>4 DEF Types, ThreadsOK, Locals, Rows
  <2>3. [Unused EXCEPT !.refresh = mem[a].rec.token, !.ent = mem[a].rec.ent] \in Fields
    BY <2>2, UnusedTyped DEF Fields, Unused
  <2>4. cred' \in [Creds -> Fields]
    BY <2>1, <2>3 DEF Types, StoreOK
  <2>5. ThreadsOK'
    BY <2>1, ResolvedTyped
  <2>. QED
    BY <1>1, <2>1, <2>4, <2>5 DEF Types, StoreOK, WorldOK, shutVars, backendVars
<1>. QED
  BY <1>2, <1>3, <1>4 DEF Insert

LEMMA KeyedStepTyped == ASSUME Types, NEW a \in Actors, KeyedStep(a) PROVE Types'
<1>1. CASE WrongEnterprise(a) \/ PersistUnbound(a)
  <2>1. ThreadsOK'
    BY <1>1, LeaveKeeps DEF WrongEnterprise, PersistUnbound, Ended, Types
  <2>2. lock' \in [Creds -> Actors \union {None}]
    BY <1>1, ReleaseTyped DEF WrongEnterprise, PersistUnbound
  <2>3. /\ UNCHANGED <<row, cred, seed, shutVars, backendVars, other, faults>>
        /\ cached' \in {cached, None}
    BY <1>1 DEF WrongEnterprise, PersistUnbound
  <2>. QED
    BY <2>1, <2>2, <2>3 DEF Types, StoreOK, WorldOK, shutVars, backendVars
<1>. QED
  BY <1>1, ReadRowTyped, InsertTyped DEF KeyedStep

LEMMA RotatingTyped == ASSUME BindTypes, Rotating PROVE BindTypes'
<1>1. Types'
  BY StepTyped, KeyedStepTyped DEF Rotating, BindTypes, Next
<1>2. /\ UNCHANGED <<bindVars, gone, calm>> /\ late' \subseteq Turns
      /\ crossed' \in BOOLEAN
  BY DEF Rotating, Track, BindTypes, BindTypeOK
<1>. QED
  BY <1>1, <1>2, BindFrame DEF BindTypes, BindTypeOK

\* The process's own state as it was.
LEMMA ProcessTyped ==
    ASSUME Types, UNCHANGED processVars, row' \in Rows, cached' \in Creds \union {None},
           live' \subseteq Tokens, issued' \in Tokens, origin' \in [Tokens -> Enterprises],
           faults' \in 0..MaxFaults
    PROVE  Types'
BY BindingAssumption
DEF Types, ThreadsOK, StoreOK, WorldOK, processVars, threadVars, shutVars

LEMMA UnchangedTyped == ASSUME Types, UNCHANGED vars PROVE Types'
BY DEF vars, Types, ThreadsOK, StoreOK, WorldOK, threadVars, shutVars, backendVars

\* A callback's record, step by step.
LEMMA BinderStepTyped ==
    ASSUME BindTypes, NEW x \in Binders, NEW s \in BinderSteps \ {"issued"},
           BinderAt(x, binder[x].step, s)
    PROVE  /\ binder' \in [Binders -> BinderRec]
           /\ \A y \in Binders : binder'[y].step = "issued" => binder'[y].ent \in Enterprises
<1>1. binder \in [Binders -> BinderRec] /\ binder' = [binder EXCEPT ![x].step = s]
  BY DEF BindTypes, BindTypeOK, BinderRec, BinderSteps, BinderAt
<1>2. [binder[x] EXCEPT !.step = s] \in BinderRec
  BY <1>1 DEF BinderRec
<1>. QED
  BY <1>1, <1>2 DEF BindTypes

LEMMA NoBindTyped ==
    ASSUME NEW s \in BinderSteps \ {"issued"}
    PROVE  [NoBind EXCEPT !.step = s] \in BinderRec /\ NoBind \in BinderRec
BY TokenZero DEF NoBind, BinderRec, BinderSteps

LEMMA CallbackTyped ==
    ASSUME BindTypes, Types', NEW x \in Binders, NEW v \in BinderRec,
           v.step = "issued" => v.ent \in Enterprises,
           binder' = [binder EXCEPT ![x] = v], pend' \in
               [Pendings -> {"none", "open", "consumed", "declined", "purged"}],
           leaver' = leaver, boundTo' \in Enterprises \union {None},
           gone' \in BOOLEAN, calm' \in BOOLEAN, crossed' \in BOOLEAN, late' \subseteq Turns
    PROVE  BindTypes'
<1>1. binder \in [Binders -> BinderRec]
  BY DEF BindTypes, BindTypeOK, BinderRec, BinderSteps
<1>2. binder' \in [Binders -> BinderRec]
  BY <1>1
<1>3. \A y \in Binders : binder'[y].step = "issued" => binder'[y].ent \in Enterprises
  BY <1>1 DEF BindTypes
<1>4. BindTypeOK'
  BY <1>2 DEF BindTypes, BindTypeOK, BinderRec, BinderSteps
<1>. QED
  BY <1>3, <1>4 DEF BindTypes

LEMMA CompleteTyped == ASSUME BindTypes, NEW x \in Binders, CompleteBind(x) PROVE BindTypes'
<1>. DEFINE v == binder'[x]
<1>0. /\ binder \in [Binders -> BinderRec] /\ binder[x] \in BinderRec /\ Types
      /\ pend \in [Pendings -> {"none", "open", "consumed", "declined", "purged"}]
      /\ boundTo \in Enterprises \union {None}
      /\ gone \in BOOLEAN /\ calm \in BOOLEAN /\ crossed \in BOOLEAN /\ late \subseteq Turns
  BY DEF BindTypes, BindTypeOK, BinderRec, BinderSteps
<1>1. CASE \E r \in Pendings : Select(x, r)
  <2>1. PICK r \in Pendings : Select(x, r)
    BY <1>1
  <2>2. Types'
    BY <1>0, <2>1, UnchangedTyped DEF Select
  <2>3. /\ v \in BinderRec /\ v.step # "issued" /\ binder' = [binder EXCEPT ![x] = v]
    BY <1>0, <2>1 DEF Select, BinderAt, BinderRec, BinderSteps
  <2>. QED
    BY <1>0, <2>1, <2>2, <2>3, CallbackTyped DEF Select, ghostVars
<1>2. CASE Claim(x)
  <2>1. Types'
    BY <1>0, <1>2, UnchangedTyped DEF Claim
  <2>2. v \in BinderRec /\ v.step # "issued" /\ binder' = [binder EXCEPT ![x] = v]
    <3>1. [binder[x] EXCEPT !.step = "claimed"] \in BinderRec
      BY <1>0 DEF BinderRec, BinderSteps
    <3>2. [NoBind EXCEPT !.step = "rejected"] \in BinderRec
      BY NoBindTyped DEF BinderSteps
    <3>. QED
      BY <1>0, <1>2, <3>1, <3>2 DEF Claim, NoBind, BinderRec
  <2>3. pend' \in [Pendings -> {"none", "open", "consumed", "declined", "purged"}]
    BY <1>0, <1>2 DEF Claim
  <2>. QED
    BY <1>0, <1>2, <2>1, <2>2, <2>3, CallbackTyped DEF Claim, ghostVars
<1>3. CASE BindFails(x)
  <2>1. Types'
    BY <1>0, <1>3, UnchangedTyped DEF BindFails
  <2>2. v \in BinderRec /\ v.step # "issued" /\ binder' = [binder EXCEPT ![x] = v]
    BY <1>0, <1>3 DEF BindFails, BinderAt, BinderRec, BinderSteps
  <2>. QED
    BY <1>0, <1>3, <2>1, <2>2, CallbackTyped DEF BindFails, ghostVars
<1>4. ASSUME NEW e \in Enterprises, BindWorkspace(x, e) PROVE BindTypes'
  <2>1. issued + 1 \in Tokens
    BY <1>0, <1>4, RotationAssumption DEF BindWorkspace, Types, WorldOK, Tokens
  <2>2. faults' \in 0..MaxFaults
    BY <1>0, <1>4, FaultTyped DEF BindWorkspace, Types, WorldOK
  <2>3. Types'
    BY <1>0, <1>4, <2>1, <2>2, ProcessTyped DEF BindWorkspace, Types, StoreOK, WorldOK
  <2>4. /\ v \in BinderRec /\ (v.step = "issued" => v.ent \in Enterprises)
        /\ binder' = [binder EXCEPT ![x] = v]
    <3>1. CASE binder' = [binder EXCEPT ![x].step = "issued", ![x].ent = e, ![x].got = issued + 1]
      BY <1>0, <2>1, <3>1 DEF BinderRec, BinderSteps
    <3>2. CASE BinderAt(x, "claimed", "failed")
      BY <1>0, <3>2 DEF BinderAt, BinderRec, BinderSteps
    <3>. QED
      BY <1>4, <3>1, <3>2 DEF BindWorkspace
  <2>. QED
    BY <1>0, <1>4, <2>3, <2>4, CallbackTyped DEF BindWorkspace, ghostVars
<1>5. CASE StoreBinding(x) \/ StoreBindingFails(x)
  <2>1. row' \in Rows /\ faults' \in 0..MaxFaults
    <3>1. binder[x].got \in Tokens /\ binder[x].ent \in Enterprises
      BY <1>0, <1>5 DEF BindTypes, BinderRec, StoreBinding, StoreBindingFails
    <3>2. [token |-> binder[x].got, ent |-> binder[x].ent] \in Rows
      BY <3>1 DEF Rows
    <3>. QED
      BY <1>0, <1>5, <3>2, FaultTyped
      DEF StoreBinding, StoreBindingFails, Types, StoreOK, WorldOK
  <2>2. Types'
    BY <1>0, <1>5, <2>1, ProcessTyped
    DEF StoreBinding, StoreBindingFails, Types, StoreOK, WorldOK, backendVars
  <2>3. /\ v \in BinderRec /\ v.step # "issued" /\ binder' = [binder EXCEPT ![x] = v]
    BY <1>0, <1>5, TokenZero DEF StoreBinding, StoreBindingFails, BinderRec, BinderSteps
  <2>4. /\ UNCHANGED <<pend, leaver, boundTo>> /\ crossed' = crossed
        /\ gone' \in BOOLEAN /\ calm' \in BOOLEAN /\ late' \subseteq Turns
    BY <1>0, <1>5 DEF StoreBinding, StoreBindingFails, ghostVars
  <2>. QED
    BY <1>0, <2>2, <2>3, <2>4, CallbackTyped
<1>6. CASE ForgetPrevious(x)
  <2>1. Types'
    BY <1>0, <1>6, ProcessTyped DEF ForgetPrevious, Types, StoreOK, WorldOK, backendVars
  <2>2. /\ v \in BinderRec /\ v.step # "issued" /\ binder' = [binder EXCEPT ![x] = v]
    BY <1>0, <1>6 DEF ForgetPrevious, BinderAt, BinderRec, BinderSteps
  <2>. QED
    BY <1>0, <1>6, <2>1, <2>2, CallbackTyped DEF ForgetPrevious, ghostVars
<1>. QED
  BY <1>1, <1>2, <1>3, <1>4, <1>5, <1>6 DEF CompleteBind

LEMMA TearDownTyped == ASSUME BindTypes, NEW u \in Leavers, TearDown(u) PROVE BindTypes'
<1>0. /\ leaver \in [Leavers -> LeaverRec] /\ leaver[u] \in LeaverRec /\ Types
      /\ UNCHANGED <<pend, binder, boundTo>> /\ crossed' = crossed /\ late' = late
  BY DEF BindTypes, BindTypeOK, LeaverRec, TearDown, ReadBinding, Unbind, UnbindFails,
         RevokeToken, ForgetCached, ghostVars
<1>1. leaver' \in [Leavers -> LeaverRec]
  <2>1. CASE \E s \in {"read", "unbound", "gaveup", "ended"} :
               leaver' = [leaver EXCEPT ![u].step = s]
    BY <1>0, <2>1 DEF LeaverRec
  <2>2. CASE \E v \in LeaverRec : leaver' = [leaver EXCEPT ![u] = v]
    BY <1>0, <2>2
  <2>3. /\ [step |-> "read", rec |-> row] \in LeaverRec
        /\ [step |-> "revoked", rec |-> None] \in LeaverRec
    BY <1>0 DEF LeaverRec, Types, StoreOK, Rows
  <2>. QED
    BY <2>1, <2>2, <2>3 DEF TearDown, ReadBinding, Unbind, UnbindFails, RevokeToken,
                            ForgetCached, LeaverAt
<1>2. Types'
  <2>1. row' \in {row, None} /\ cached' \in {cached, None} /\ live' \subseteq live
        /\ UNCHANGED <<processVars, issued, origin>> /\ faults' \in 0..MaxFaults
    BY <1>0, FaultTyped DEF TearDown, ReadBinding, Unbind, UnbindFails, RevokeToken,
       ForgetCached, backendVars, Types, WorldOK
  <2>. QED
    BY <1>0, <2>1, ProcessTyped DEF Types, StoreOK, WorldOK, Rows
<1>3. gone' \in BOOLEAN /\ calm' \in BOOLEAN
  BY DEF BindTypes, BindTypeOK, TearDown, ReadBinding, Unbind, UnbindFails, RevokeToken,
         ForgetCached, ghostVars
<1>. QED
  BY <1>0, <1>1, <1>2, <1>3 DEF BindTypes, BindTypeOK, LeaverRec

LEMMA RestartAllTyped == ASSUME BindTypes, RestartAll PROVE BindTypes'
<1>1. Types'
  BY RestartTyped DEF RestartAll, BindTypes
<1>2. /\ binder' \in [Binders -> BinderRec]
      /\ \A x \in Binders : binder'[x].step # "issued"
  <2>1. /\ binder' = [y \in Binders |-> binder'[y]]
        /\ \A x \in Binders : binder'[x] \in {NoBind, [NoBind EXCEPT !.step = "failed"]}
    BY DEF RestartAll
  <2>2. {NoBind, [NoBind EXCEPT !.step = "failed"]} \subseteq BinderRec
    BY NoBindTyped DEF BinderSteps
  <2>3. \A v \in {NoBind, [NoBind EXCEPT !.step = "failed"]} : v \in BinderRec /\ v.step # "issued"
    BY <2>2 DEF NoBind
  <2>4. \A x \in Binders : binder'[x] \in BinderRec /\ binder'[x].step # "issued"
    BY <2>1, <2>3
  <2>5. binder' \in [Binders -> BinderRec]
    BY <2>1, <2>4
  <2>. QED
    BY <2>4, <2>5
<1>3. leaver' \in [Leavers -> LeaverRec]
  BY DEF RestartAll, NoLeave, LeaverRec, Rows
<1>4. pend' \in [Pendings -> {"none", "open", "consumed", "declined", "purged"}]
  BY DEF RestartAll, Purge, BindTypes, BindTypeOK
<1>. QED
  BY <1>1, <1>2, <1>3, <1>4
  DEF RestartAll, BindTypes, BindTypeOK, BinderRec, BinderSteps, LeaverRec

LEMMA BindStepTyped == ASSUME BindTypes, [BindNext]_bvars PROVE BindTypes'
<1>1. CASE Disconnect
  <2>1. Types'
    BY <1>1, ProcessTyped DEF Disconnect, BindTypes, Types, StoreOK, WorldOK
  <2>. QED
    BY <1>1, <2>1 DEF Disconnect, BindTypes, BindTypeOK, ghostVars
<1>2. CASE UNCHANGED bvars
  <2>1. Types'
    BY <1>2, UnchangedTyped DEF bvars, BindTypes
  <2>. QED
    BY <1>2, <2>1 DEF bvars, bindVars, BindTypes, BindTypeOK
<1>3. ASSUME NEW r \in Pendings, OpenBind(r) \/ Decline(r) PROVE BindTypes'
  <2>1. Types'
    BY <1>3, UnchangedTyped DEF OpenBind, Decline, BindTypes
  <2>. QED
    BY <1>3, <2>1 DEF OpenBind, Opened, Decline, BindTypes, BindTypeOK, ghostVars
<1>. QED
  BY <1>1, <1>2, <1>3, RotatingTyped, RestartAllTyped, CompleteTyped, TearDownTyped DEF BindNext

LEMMA BindInitTyped == BindInit => BindTypes
<1>. SUFFICES ASSUME BindInit PROVE BindTypes
  OBVIOUS
<1>1. Types
  BY InitTyped DEF BindInit
<1>2. NoBind \in BinderRec /\ NoBind.step = "idle" /\ NoLeave \in LeaverRec
  BY NoBindTyped DEF NoBind, NoLeave, BinderRec, BinderSteps, LeaverRec, Rows
<1>3. boundTo \in Enterprises
  BY DEF BindInit, Init
<1>4. binder \in [Binders -> BinderRec] /\ leaver \in [Leavers -> LeaverRec]
      /\ \A x \in Binders : binder[x].step # "issued"
  BY <1>2 DEF BindInit
<1>. QED
  BY <1>1, <1>3, <1>4 DEF BindInit, BindTypes, BindTypeOK, BinderRec, BinderSteps, LeaverRec

\* The rotation and the binding together keep their types (complete_bind,
\* _forget_binding, and every thread that renews meanwhile).
THEOREM BindingTyped == BindSpec => [](TypeOK /\ BindTypeOK)
<1>1. BindTypes => TypeOK /\ BindTypeOK
  BY TypesTyped DEF BindTypes
<1>. QED
  BY <1>1, BindInitTyped, BindStepTyped, PTL DEF BindSpec

-----------------------------------------------------------------------------
(* What one step of a thread does to its place, to the cache and to the objects. *)

\* A thread that holds an object is past its look-up, and has the lock where it says so.
Seated(a) == /\ mem[a].obj # None => at[a] \in Aware
             /\ at[a] \in Holding => lock[mem[a].obj] = a

\* Where a thread goes.
Shape(a, p, m) ==
    /\ Goto(a, p, m)
    /\ m.obj \in {None, mem[a].obj, cached'} /\ (m.obj # None => p \in Aware)
    /\ m.rec \in {None, mem[a].rec, row}
    /\ p \in Holding => m.obj = mem[a].obj /\ lock'[m.obj] = a
    /\ p = "use" => m.obj = mem[a].obj /\ (cred[m.obj].access # 0 \/ at[a] = "persisted")
    /\ p = "persisted" => row # None \/ cred'[m.obj].unpersisted
Lands(a) == \E p, m : Shape(a, p, m)

LEMMA ShapeBlank ==
    ASSUME NEW a \in Actors, NEW p \in Ended \union {"idle"}, Goto(a, p, Blank) PROVE Lands(a)
<1>1. Blank.obj = None /\ Blank.rec = None
  BY DEF Blank
<1>2. p \notin Holding \union {"use", "persisted"}
  BY DEF Ended, Holding, Exchanging
<1>. QED
  BY <1>1, <1>2 DEF Lands, Shape

LEMMA ShapeLeave == ASSUME NEW a \in Actors, NEW p \in Ended, Leave(a, p) PROVE Lands(a)
BY ShapeBlank DEF Leave

LEMMA ShapeReturn ==
    ASSUME Types, NEW a \in Actors, NEW t, Return(a, t),
           Mine(a).access # 0 \/ at[a] = "persisted"
    PROVE  Lands(a)
<1>1. CASE a \in Keepers
  BY <1>1, ShapeLeave DEF Return, Ended
<1>2. CASE a \notin Keepers
  <2>. DEFINE m == [Blank EXCEPT !.obj = Held(a), !.use = t, !.again = mem[a].again]
  <2>1. m.obj = mem[a].obj /\ m.rec = None /\ Goto(a, "use", m)
    BY <1>2 DEF Return, Blank, Held
  <2>2. "use" \in Aware /\ "use" \notin Holding
    BY DEF Aware, Holding, Exchanging
  <2>. HIDE DEF m
  <2>. QED
    BY <2>1, <2>2 DEF Lands, Shape, Mine
<1>. QED
  BY <1>1, <1>2

\* A thread that goes on with what it has, outside the lock.
LEMMA ShapeKeeps ==
    ASSUME NEW a \in Actors, NEW p \in Aware \ (Holding \union {"use"}), NEW m, Goto(a, p, m),
           m.obj = mem[a].obj, m.rec = mem[a].rec
    PROVE  Lands(a)
BY DEF Lands, Shape, Holding, Exchanging

\* A thread that goes on inside the lock.
LEMMA ShapeInside ==
    ASSUME NEW a \in Actors, NEW p \in Holding, NEW m, Goto(a, p, m),
           m.obj = mem[a].obj, m.rec \in {None, mem[a].rec}, lock'[mem[a].obj] = a,
           p = "persisted" => row # None \/ cred'[m.obj].unpersisted
    PROVE  Lands(a)
BY DEF Lands, Shape, Aware, Holding, Exchanging

LEMMA ShapeAsks ==
    ASSUME Types, NEW a \in Actors, Seated(a),
           \/ Begin(a) \/ Wake(a) \/ Queue(a) \/ Unauthorized(a) \/ RetrySkip(a)
           \/ Look(a) \/ Served(a) \/ Due(a) \/ RetryTake(a) \/ Rewrite(a) \/ TakeLock(a)
    PROVE  Lands(a)
<1>0. /\ mem[a] \in Locals /\ (at[a] \in Aware => mem[a].obj \in Creds)
      /\ lock \in [Creds -> Actors \union {None}]
  BY DEF Types, ThreadsOK, StoreOK
<1>1. ASSUME NEW p \in {"queue", "wait", "due"}, NEW m, Goto(a, p, m),
             m.obj = mem[a].obj, m.rec = mem[a].rec
      PROVE  Lands(a)
  BY <1>1, ShapeKeeps DEF Aware, Holding, Exchanging
<1>2. CASE Begin(a) \/ Wake(a)
  <2>1. at[a] = "idle" /\ FirstLook(a) /\ mem[a].obj = None
    BY <1>2, <1>0 DEF Begin, Wake, Seated, Aware, Holding, Exchanging
  <2>2. CASE Goto(a, "read", mem[a])
    BY <2>1, <2>2 DEF Lands, Shape, Aware, Holding, Exchanging
  <2>3. CASE Resolved(a, cached)
    <3>. DEFINE p == IF a \in Keepers THEN "tick" ELSE "look"
                m == [mem[a] EXCEPT !.obj = cached, !.rec = None]
    <3>1. m.obj = cached' /\ m.rec = None
      BY <1>0, <1>2 DEF Locals, Begin, Wake
    <3>2. p \in Aware /\ p \notin Holding \union {"use", "persisted"} /\ Goto(a, p, m)
      BY <2>3 DEF Aware, Holding, Exchanging, Resolved
    <3>. HIDE DEF m, p
    <3>. QED
      BY <3>1, <3>2 DEF Lands, Shape
  <2>. QED
    BY <2>1, <2>2, <2>3 DEF FirstLook
<1>3. CASE Queue(a)
  <2>. DEFINE m == [mem[a] EXCEPT !.intended = Mine(a).refresh]
  <2>1. m.obj = mem[a].obj /\ m.rec = mem[a].rec /\ Goto(a, "wait", m)
    BY <1>0, <1>3 DEF Locals, Queue
  <2>. HIDE DEF m
  <2>. QED
    BY <1>1, <2>1
<1>4. CASE Unauthorized(a)
  <2>. DEFINE m == [mem[a] EXCEPT !.seen = mem[a].use, !.use = 0, !.again = TRUE]
  <2>1. m.obj = mem[a].obj /\ m.rec = mem[a].rec /\ Goto(a, "queue", m)
    BY <1>0, <1>4 DEF Locals, Unauthorized
  <2>. HIDE DEF m
  <2>. QED
    BY <1>1, <2>1
<1>5. CASE Look(a)
  <2>. DEFINE m == [mem[a] EXCEPT !.seen = Mine(a).access]
  <2>1. m.obj = mem[a].obj /\ m.rec = mem[a].rec
    BY <1>0 DEF Locals
  <2>2. (Return(a, Mine(a).access) /\ Mine(a).access # 0) \/ Goto(a, "queue", m)
    BY <1>5 DEF Look
  <2>. HIDE DEF m
  <2>. QED
    BY <1>1, <2>1, <2>2, ShapeReturn
<1>6. CASE RetrySkip(a) \/ Due(a) \/ Served(a)
  BY <1>1, <1>6, ShapeLeave, ShapeBlank DEF RetrySkip, Due, Served, Ended
<1>7. CASE RetryTake(a)
  <2>. DEFINE m == [mem[a] EXCEPT !.show = Mine(a).refresh]
  <2>1. m.obj = mem[a].obj /\ m.rec = mem[a].rec /\ Goto(a, "retry", m)
    BY <1>0, <1>7 DEF Locals, RetryTake
  <2>2. lock'[mem[a].obj] = a /\ "retry" \in Holding
    BY <1>0, <1>7 DEF RetryTake, Aware, Held, Holding
  <2>. HIDE DEF m
  <2>. QED
    BY <2>1, <2>2, ShapeInside
<1>8. CASE Rewrite(a)
  <2>. DEFINE m == [mem[a] EXCEPT !.show = 0]
  <2>1. m.obj = mem[a].obj /\ m.rec = mem[a].rec /\ Goto(a, "due", m)
    BY <1>0, <1>8 DEF Locals, Rewrite
  <2>. HIDE DEF m
  <2>. QED
    BY <1>1, <2>1
<1>9. CASE TakeLock(a)
  <2>. DEFINE m == [Blank EXCEPT !.obj = Held(a), !.show = Mine(a).refresh,
                                 !.again = mem[a].again]
  <2>1. m.obj = mem[a].obj /\ m.rec = None
    BY DEF Blank, Held
  <2>2. CASE Return(a, Mine(a).access) /\ Overtaken(a)
    BY <2>2, ShapeReturn DEF Overtaken
  <2>3. CASE Goto(a, "post", m) /\ lock' = [lock EXCEPT ![Held(a)] = a]
    <3>1. lock'[mem[a].obj] = a /\ "post" \in Holding
      BY <1>0, <1>9, <2>3 DEF TakeLock, Aware, Held, Holding, Exchanging
    <3>. HIDE DEF m
    <3>. QED
      BY <2>1, <2>3, <3>1, ShapeInside
  <2>. QED
    BY <1>9, <2>2, <2>3 DEF TakeLock
<1>. QED
  BY <1>2, <1>3, <1>4, <1>5, <1>6, <1>7, <1>8, <1>9

LEMMA ShapeExchanges ==
    ASSUME Types, NEW a \in Actors, Seated(a), Exchange(a) \/ KeyedStep(a) PROVE Lands(a)
<1>0. mem[a] \in Locals /\ (at[a] \in Holding => mem[a].obj \in Creds /\ lock[mem[a].obj] = a)
  BY DEF Types, ThreadsOK, Seated, Aware
<1>1. ASSUME NEW p \in Holding, NEW m, Goto(a, p, m), at[a] \in Holding, UNCHANGED lock,
             m.obj = mem[a].obj, m.rec = mem[a].rec,
             p = "persisted" => row # None \/ cred'[m.obj].unpersisted
      PROVE  Lands(a)
  BY <1>0, <1>1, ShapeInside
<1>2. CASE AnswerLost(a) \/ Unreached(a) \/ WrongEnterprise(a) \/ PersistUnbound(a)
  BY <1>2, ShapeLeave DEF AnswerLost, Unreached, WrongEnterprise, PersistUnbound, Ended
<1>3. CASE Rotate(a)
  <2>. DEFINE m == [mem[a] EXCEPT !.got = issued + 1, !.show = 0, !.left = <<>>,
                                  !.alternative = FALSE]
  <2>1. m.obj = mem[a].obj /\ m.rec = mem[a].rec /\ Goto(a, "minted", m)
    BY <1>0, <1>3 DEF Locals, Rotate
  <2>2. "minted" \in Holding /\ at[a] \in Holding /\ UNCHANGED lock
    BY <1>3 DEF Rotate, Holding, Exchanging
  <2>. HIDE DEF m
  <2>. QED
    BY <1>1, <2>1, <2>2
<1>4. CASE Refused(a)
  <2>1. CASE /\ Goto(a, "alternatives", [mem[a] EXCEPT !.alternative = TRUE])
             /\ UNCHANGED lock
    <3>. DEFINE m == [mem[a] EXCEPT !.alternative = TRUE]
    <3>1. m.obj = mem[a].obj /\ m.rec = mem[a].rec /\ Goto(a, "alternatives", m)
      BY <1>0, <2>1 DEF Locals
    <3>2. "alternatives" \in Holding /\ at[a] \in Holding
      BY <1>4 DEF Refused, Holding, Exchanging
    <3>. HIDE DEF m
    <3>. QED
      BY <1>1, <2>1, <3>1, <3>2
  <2>2. CASE /\ Goto(a, "post", [mem[a] EXCEPT !.show = Head(mem[a].left), !.left = Tail(@)])
             /\ UNCHANGED lock
    <3>. DEFINE m == [mem[a] EXCEPT !.show = Head(mem[a].left), !.left = Tail(mem[a].left)]
    <3>1. m.obj = mem[a].obj /\ m.rec = mem[a].rec /\ Goto(a, "post", m)
      BY <1>0, <2>2 DEF Locals
    <3>2. "post" \in Holding /\ at[a] \in Holding
      BY <1>4 DEF Refused, Holding, Exchanging
    <3>. HIDE DEF m
    <3>. QED
      BY <1>1, <2>2, <3>1, <3>2
  <2>3. CASE Leave(a, "failed")
    BY <2>3, ShapeLeave DEF Ended
  <2>. QED
    BY <1>4, <2>1, <2>2, <2>3 DEF Refused
<1>5. CASE Alternatives(a)
  <2>1. CASE Leave(a, "failed")
    BY <2>1, ShapeLeave DEF Ended
  <2>2. CASE ~Leave(a, "failed")
    <3>1. PICK left :
            /\ Goto(a, "post", [mem[a] EXCEPT !.show = Head(left), !.left = Tail(left)])
            /\ UNCHANGED lock
      BY <1>5, <2>2, Zenon DEF Alternatives
    <3>. DEFINE m == [mem[a] EXCEPT !.show = Head(left), !.left = Tail(left)]
    <3>2. m.obj = mem[a].obj /\ m.rec = mem[a].rec /\ Goto(a, "post", m)
      BY <1>0, <3>1 DEF Locals
    <3>3. "post" \in Holding /\ at[a] \in Holding
      BY <1>5 DEF Alternatives, Holding, Exchanging
    <3>. HIDE DEF m
    <3>. QED
      BY <1>1, <3>1, <3>2, <3>3
  <2>. QED
    BY <2>1, <2>2
<1>6. CASE Persist(a) \/ PersistFails(a)
  <2>1. /\ Goto(a, "persisted", mem[a]) /\ at[a] \in Holding /\ UNCHANGED lock
        /\ "persisted" \in Holding
    BY <1>6 DEF Persist, PersistFails, Holding, Exchanging
  <2>2. row # None \/ cred'[mem[a].obj].unpersisted
    <3>1. cred \in [Creds -> Fields] /\ mem[a].obj \in Creds
      BY <1>0, <2>1 DEF Types, StoreOK
    <3>. QED
      BY <1>6, <3>1 DEF Persist, PersistFails, Stored, Held, Fields
  <2>. QED
    BY <1>1, <2>1, <2>2
<1>7. CASE Publish(a)
  BY <1>7, ShapeReturn DEF Publish
<1>8. CASE ReadRow(a)
  <2>. DEFINE m == [mem[a] EXCEPT !.rec = row]
  <2>1. m.obj = mem[a].obj /\ m.rec = row /\ Goto(a, "insert", m)
    BY <1>0, <1>8 DEF Locals, ReadRow
  <2>2. mem[a].obj = None
    BY <1>8 DEF ReadRow, Seated, Aware, Holding, Exchanging
  <2>. HIDE DEF m
  <2>. QED
    BY <2>1, <2>2 DEF Lands, Shape, Holding, Exchanging
<1>9. CASE Insert(a)
  <2>1. CASE Leave(a, IF RequireBinding THEN "failed" ELSE "default")
    BY <2>1, ShapeLeave DEF Ended
  <2>2. CASE Resolved(a, cached')
    <3>. DEFINE p == IF a \in Keepers THEN "tick" ELSE "look"
                m == [mem[a] EXCEPT !.obj = cached', !.rec = None]
    <3>1. m.obj = cached' /\ m.rec = None
      BY <1>0 DEF Locals
    <3>2. p \in Aware /\ p \notin Holding \union {"use", "persisted"} /\ Goto(a, p, m)
      BY <2>2 DEF Aware, Holding, Exchanging, Resolved
    <3>. HIDE DEF m, p
    <3>. QED
      BY <3>1, <3>2 DEF Lands, Shape
  <2>. QED
    BY <1>9, <2>1, <2>2 DEF Insert
<1>. QED
  BY <1>2, <1>3, <1>4, <1>5, <1>6, <1>7, <1>8, <1>9 DEF Exchange, KeyedStep

LEMMA ShapeHolds ==
    ASSUME Types, NEW a \in Actors, Seated(a), Begin(a) \/ Step(a) \/ KeyedStep(a)
    PROVE  Lands(a)
BY ShapeAsks, ShapeExchanges DEF Step

\* Nobody gives back or takes another thread's lock.
LEMMA LockKept ==
    ASSUME Types, NEW a \in Actors, Begin(a) \/ Step(a) \/ KeyedStep(a),
           NEW b \in Actors, b # a, NEW o \in Creds, lock[o] = b
    PROVE  lock'[o] = b
<1>1. lock \in [Creds -> Actors \union {None}] /\ b # None
  BY RotationAssumption DEF Types, StoreOK
<1>2. Release(a) => lock'[o] = b
  BY DEF Release
<1>3. CASE TakeLock(a) \/ RetryTake(a)
  <2>1. UNCHANGED lock \/ (lock' = [lock EXCEPT ![Held(a)] = a] /\ lock[Held(a)] = None)
    BY <1>3 DEF TakeLock, RetryTake, LockFree, CanRetry
  <2>. QED
    BY <1>1, <2>1
<1>4. CASE ~(TakeLock(a) \/ RetryTake(a))
  <2>1. UNCHANGED lock \/ Release(a)
    BY <1>4 DEF Begin, Step, KeyedStep, Exchange, Wake, Queue, Unauthorized, RetrySkip, Look,
       Served, Due, Rewrite, Rotate, AnswerLost, Unreached, Refused, Alternatives, Persist,
       PersistFails, Publish, ReadRow, Insert, WrongEnterprise, PersistUnbound
  <2>. QED
    BY <1>2, <2>1
<1>. QED
  BY <1>3, <1>4

\* What a thread does to the row and the cache.
LEMMA CacheMoves ==
    ASSUME Types, NEW a \in Actors, Begin(a) \/ Step(a) \/ KeyedStep(a)
    PROVE  /\ row' = None <=> row = None
           /\ \/ cached' = cached
              \/ row = None /\ cached' = None
              \/ cached = None /\ mem[a].rec # None /\ cached' \in Creds /\ Spare(cached')
<1>1. CASE Persist(a) \/ (Rewrite(a) /\ Stored(mem[a].show))
  <2>1. \E t \in Tokens : Stored(t)
    BY <1>1 DEF Persist, Types, ThreadsOK, Locals
  <2>2. row # None /\ row' # None
    BY <2>1, StoredTyped DEF Stored
  <2>3. cached' = cached
    BY <1>1 DEF Persist, Rewrite
  <2>. QED
    BY <2>2, <2>3
<1>2. CASE Alternatives(a) \/ PersistUnbound(a)
  BY <1>2 DEF Alternatives, PersistUnbound
<1>3. CASE Insert(a)
  BY <1>3 DEF Insert, Recheck
<1>4. CASE ~(Persist(a) \/ Alternatives(a) \/ PersistUnbound(a) \/ Insert(a)
            \/ (Rewrite(a) /\ Stored(mem[a].show)))
  <2>1. UNCHANGED <<row, cached>>
    BY <1>4 DEF Begin, Step, KeyedStep, Exchange, Wake, Queue, Unauthorized, RetrySkip, Look,
       Served, Due, TakeLock, RetryTake, Rewrite, Rotate, AnswerLost, Unreached, Refused,
       PersistFails, Publish, ReadRow, WrongEnterprise
  <2>. QED
    BY <2>1
<1>. QED
  BY <1>1, <1>2, <1>3, <1>4

-----------------------------------------------------------------------------
(* One credential.  OneCredential is not inductive: it holds because the cache  *)
(* is asked again before an object is built, and the cached object is dropped   *)
(* only with the binding.                                                       *)

CalmInv ==
    calm => /\ \A u \in Leavers : leaver[u].step \notin {"unbound", "revoked"}
            /\ \A x \in Binders : binder[x].step # "stored"
            /\ \A a \in Actors : mem[a].obj \in {None, cached}
            /\ row = None => cached = None /\ \A a \in Actors : mem[a].rec = None

Seats == \A a \in Actors : Seated(a)

LEMMA GotoMoves ==
    ASSUME Types, NEW a \in Actors, NEW p, NEW m, Goto(a, p, m)
    PROVE  /\ at'[a] = p /\ mem'[a] = m
           /\ \A b \in Actors \ {a} : at'[b] = at[b] /\ mem'[b] = mem[b]
BY DEF Types, ThreadsOK, Goto

LEMMA ThreadSeated ==
    ASSUME Types, Seats, NEW a \in Actors, Begin(a) \/ Step(a) \/ KeyedStep(a)
    PROVE  Seats'
<1>1. PICK p, m : Shape(a, p, m)
  BY ShapeHolds DEF Seats, Lands
<1>2. /\ at'[a] = p /\ mem'[a] = m
      /\ \A b \in Actors \ {a} : at'[b] = at[b] /\ mem'[b] = mem[b]
  BY <1>1, GotoMoves DEF Shape
<1>3. Seated(a)'
  BY <1>1, <1>2 DEF Shape, Seated
<1>4. ASSUME NEW b \in Actors, b # a PROVE Seated(b)'
  <2>1. at[b] \in Holding => mem[b].obj \in Creds
    BY DEF Types, ThreadsOK, Aware
  <2>. QED
    BY <1>2, <1>4, <2>1, LockKept DEF Seats, Seated
<1>. QED
  BY <1>3, <1>4 DEF Seats

LEMMA ThreadCalm ==
    ASSUME Types, Seats, CalmInv, UNCHANGED <<bindVars, calm>>,
           NEW a \in Actors, Begin(a) \/ Step(a) \/ KeyedStep(a)
    PROVE  CalmInv'
<1>. SUFFICES ASSUME calm'
              PROVE  /\ \A b \in Actors : mem'[b].obj \in {None, cached'}
                     /\ row' = None => cached' = None /\ \A b \in Actors : mem'[b].rec = None
  BY DEF CalmInv, bindVars
<1>0. /\ \A b \in Actors : mem[b].obj \in {None, cached}
      /\ row = None => cached = None /\ \A b \in Actors : mem[b].rec = None
  BY DEF CalmInv
<1>1. PICK p, m : Shape(a, p, m)
  BY ShapeHolds DEF Seats, Lands
<1>2. /\ mem'[a] = m /\ \A b \in Actors \ {a} : mem'[b] = mem[b]
  BY <1>1, GotoMoves DEF Shape
<1>3. \A b \in Actors : mem[b].obj \in {None, cached'}
  BY <1>0, CacheMoves
<1>4. \A b \in Actors : mem'[b].obj \in {None, cached'}
  BY <1>1, <1>2, <1>3 DEF Shape
<1>5. row' = None => cached' = None /\ \A b \in Actors : mem'[b].rec = None
  BY <1>0, <1>1, <1>2, CacheMoves DEF Shape
<1>. QED
  BY <1>4, <1>5

LEMMA BindCalm ==
    ASSUME BindTypes, Seats, CalmInv, [BindNext]_bvars PROVE Seats' /\ CalmInv'
<1>0. Types
  BY DEF BindTypes
<1>1. CASE Rotating
  <2>1. ASSUME NEW a \in Actors, Begin(a) \/ Step(a) \/ KeyedStep(a) PROVE Seats' /\ CalmInv'
    BY <1>0, <1>1, <2>1, ThreadSeated, ThreadCalm DEF Rotating
  <2>. QED
    BY <1>1, <2>1 DEF Rotating, Threads, Actors
<1>2. CASE RestartAll
  <2>1. /\ cached' = None /\ UNCHANGED row
        /\ \A a \in Actors : at'[a] = "idle" /\ mem'[a].obj = None /\ mem'[a].rec = None
        /\ \A u \in Leavers : leaver'[u].step \in {"idle", "gaveup"}
        /\ \A x \in Binders : binder'[x].step \in {"idle", "failed"}
    BY <1>2, BindingAssumption DEF RestartAll, Restart, Boot, Blank, NoBind, NoLeave
  <2>2. "idle" \notin Holding
    BY DEF Holding, Exchanging
  <2>. QED
    BY <2>1, <2>2 DEF CalmInv, Seats, Seated
<1>3. ASSUME UNCHANGED threadVars, UNCHANGED lock PROVE Seats'
  BY <1>3 DEF threadVars, Seats, Seated
<1>4. CASE Disconnect \/ UNCHANGED bvars \/ \E r \in Pendings : OpenBind(r) \/ Decline(r)
  <2>1. UNCHANGED <<threadVars, lock, row, cached, leaver, binder, calm>>
    BY <1>4 DEF Disconnect, bvars, bindVars, vars, OpenBind, Decline, processVars, ghostVars
  <2>. QED
    BY <1>3, <2>1 DEF CalmInv, threadVars
<1>5. ASSUME NEW x \in Binders, CompleteBind(x) PROVE Seats' /\ CalmInv'
  <2>1. UNCHANGED <<threadVars, lock, leaver>>
    BY <1>5 DEF CompleteBind, Select, Claim, BindFails, BindWorkspace, StoreBinding,
                StoreBindingFails, ForgetPrevious, vars, processVars
  <2>2. CASE StoreBinding(x)
    BY <1>3, <2>1, <2>2 DEF StoreBinding, CalmInv
  <2>3. CASE ForgetPrevious(x)
    BY <1>3, <2>1, <2>3 DEF ForgetPrevious, BinderAt, CalmInv, ghostVars
  <2>4. CASE ~StoreBinding(x) /\ ~ForgetPrevious(x)
    <3>1. UNCHANGED <<row, cached, calm>>
      BY <1>5, <2>4 DEF CompleteBind, Select, Claim, BindFails, BindWorkspace,
                        StoreBindingFails, vars, ghostVars
    <3>2. \A y \in Binders : binder'[y].step = "stored" => binder[y].step = "stored"
      <4>1. binder \in [Binders -> BinderRec]
        BY DEF BindTypes, BindTypeOK, BinderRec, BinderSteps
      <4>2. CASE (\E r \in Pendings : Select(x, r)) \/ BindFails(x)
        BY <4>1, <4>2 DEF Select, BindFails, BinderAt, BinderRec
      <4>3. CASE Claim(x)
        BY <4>1, <4>3 DEF Claim, NoBind, BinderRec
      <4>4. ASSUME NEW e \in Enterprises, BindWorkspace(x, e)
            PROVE  \A y \in Binders : binder'[y].step = "stored" => binder[y].step = "stored"
        <5>1. CASE binder' = [binder EXCEPT ![x].step = "issued", ![x].ent = e,
                                            ![x].got = issued + 1]
          BY <4>1, <5>1 DEF BinderRec
        <5>2. CASE BinderAt(x, "claimed", "failed")
          BY <4>1, <5>2 DEF BinderAt, BinderRec
        <5>. QED
          BY <4>4, <5>1, <5>2 DEF BindWorkspace
      <4>5. CASE StoreBindingFails(x)
        BY <4>1, <4>5 DEF StoreBindingFails, BinderRec
      <4>. QED
        BY <1>5, <2>4, <4>2, <4>3, <4>4, <4>5 DEF CompleteBind
    <3>. QED
      BY <1>3, <2>1, <3>1, <3>2 DEF CalmInv, threadVars
  <2>. QED
    BY <2>2, <2>3, <2>4
<1>6. ASSUME NEW u \in Leavers, TearDown(u) PROVE Seats' /\ CalmInv'
  <2>1. UNCHANGED <<threadVars, lock, binder>>
    BY <1>6 DEF TearDown, ReadBinding, Unbind, UnbindFails, RevokeToken, ForgetCached, processVars
  <2>2. CASE Unbind(u)
    BY <1>3, <2>1, <2>2 DEF Unbind, CalmInv
  <2>3. CASE RevokeToken(u) \/ ForgetCached(u)
    BY <1>3, <2>1, <2>3 DEF RevokeToken, ForgetCached, LeaverAt, CalmInv, ghostVars
  <2>4. CASE ReadBinding(u) \/ UnbindFails(u)
    <3>1. UNCHANGED <<row, cached, calm>>
      BY <2>4 DEF ReadBinding, UnbindFails, ghostVars
    <3>2. \A v \in Leavers : leaver'[v].step \in {"read", "gaveup", leaver[v].step}
      <4>1. leaver \in [Leavers -> LeaverRec]
        BY DEF BindTypes, BindTypeOK, LeaverRec
      <4>. QED
        BY <2>4, <4>1 DEF ReadBinding, UnbindFails, LeaverAt, LeaverRec
    <3>. QED
      BY <1>3, <2>1, <3>1, <3>2 DEF CalmInv, threadVars
  <2>. QED
    BY <1>6, <2>2, <2>3, <2>4 DEF TearDown
<1>. QED
  BY <1>1, <1>2, <1>4, <1>5, <1>6 DEF BindNext

LEMMA InitCalm == BindInit => Seats /\ CalmInv
<1>1. BindInit => /\ cached = None /\ row # None
                  /\ \A a \in Actors : at[a] = "idle" /\ mem[a].obj = None
                  /\ \A u \in Leavers : leaver[u].step = "idle"
                  /\ \A x \in Binders : binder[x].step = "idle"
  BY InitTyped, BindingAssumption, RotationAssumption
  DEF BindInit, Init, Blank, NoBind, NoLeave
<1>2. "idle" \notin Holding
  BY DEF Holding, Exchanging
<1>. QED
  BY <1>1, <1>2 DEF Seats, Seated, CalmInv

\* Threads racing on a cold workspace share one _Credential, and so one renew_lock,
\* for any number of threads, until a bind or a teardown (_credential_for).
THEOREM OneObjectCached == BindSpec => []OneCredential
<1>1. BindInit => BindTypes /\ Seats /\ CalmInv
  BY BindInitTyped, InitCalm
<1>2. BindTypes /\ Seats /\ CalmInv /\ [BindNext]_bvars => BindTypes' /\ Seats' /\ CalmInv'
  BY BindStepTyped, BindCalm
<1>3. CalmInv => OneCredential
  BY DEF CalmInv, OneCredential, Held
<1>. QED
  BY <1>1, <1>2, <1>3, PTL DEF BindSpec

-----------------------------------------------------------------------------
(* A teardown ends the service.  UnbindEndsService is not inductive: a turn that   *)
(* begins after it may find an object built from a row read before it, and what it *)
(* renews there finds no row to be written to.                                     *)

\* An object that a turn begun after a teardown holds or would be given.
Offered(o) == o = cached \/ \E t \in late : mem[t].obj = o

\* What was renewed on it was not stored, and that is known.
Guarded(o) ==
    /\ cred[o].access # 0 => cred[o].unpersisted
    /\ \A a \in Actors : mem[a].obj = o /\ at[a] \in {"persisted", "use"} => cred[o].unpersisted

GoneInv ==
    /\ late # {} => gone
    /\ gone => row = None
    /\ gone => \A o \in Creds : Offered(o) => Guarded(o)

\* What a thread does to an object of a workspace that has no row.
LEMMA ObjectMoves ==
    ASSUME Types, NEW a \in Actors, Begin(a) \/ Step(a) \/ KeyedStep(a), row = None,
           NEW o \in Creds, ~(Spare(o) /\ cached' = o)
    PROVE  \/ cred'[o].access = cred[o].access /\ cred'[o].unpersisted = cred[o].unpersisted
           \/ cred'[o].unpersisted
           \/ /\ o = mem[a].obj /\ at[a] = "persisted"
              /\ cred'[o].unpersisted = cred[o].unpersisted
<1>0. cred \in [Creds -> Fields] /\ cred[o] \in Fields
  BY DEF Types, StoreOK
<1>1. CASE Publish(a)
  BY <1>0, <1>1 DEF Publish, Held, Fields
<1>2. CASE PersistFails(a)
  BY <1>0, <1>2 DEF PersistFails, Held, Fields
<1>3. CASE Insert(a)
  <2>1. \/ UNCHANGED cred
        \/ \E q \in Creds : \E v : Spare(q) /\ cached' = q /\ cred' = [cred EXCEPT ![q] = v]
    BY <1>3 DEF Insert
  <2>. QED
    BY <1>0, <2>1
<1>4. CASE Alternatives(a)
  <2>1. UNCHANGED cred
    BY <1>4 DEF Alternatives
  <2>. QED
    BY <2>1
<1>5. CASE ~(Publish(a) \/ PersistFails(a) \/ Insert(a) \/ Alternatives(a))
  <2>1. UNCHANGED cred
    BY <1>5 DEF Begin, Step, KeyedStep, Exchange, Wake, Queue, Unauthorized, RetrySkip, Look,
       Served, Due, TakeLock, RetryTake, Rewrite, Rotate, AnswerLost, Unreached, Refused,
       Persist, Stored, ReadRow, WrongEnterprise, PersistUnbound
  <2>. QED
    BY <2>1
<1>. QED
  BY <1>1, <1>2, <1>3, <1>4, <1>5

\* An object just built has no access token.
LEMMA BuiltEmpty ==
    ASSUME Types, NEW a \in Actors, Begin(a) \/ Step(a) \/ KeyedStep(a),
           NEW o \in Creds, cached' = o, cached # o
    PROVE  cred'[o].access = 0
<1>1. Insert(a)
  BY RotationAssumption DEF Begin, Step, KeyedStep, Exchange, Wake, Queue, Unauthorized, RetrySkip,
     Look, Served, Due, TakeLock, RetryTake, Rewrite, Rotate, AnswerLost, Unreached, Refused,
     Alternatives, Persist, PersistFails, Publish, ReadRow, WrongEnterprise, PersistUnbound
<1>2. cred' = [cred EXCEPT ![o] = [Unused EXCEPT !.refresh = mem[a].rec.token,
                                                 !.ent = mem[a].rec.ent]]
  BY <1>1 DEF Insert
<1>. QED
  BY <1>2 DEF Types, StoreOK, Unused

LEMMA ThreadGone ==
    ASSUME Types, Seats, GoneInv, Track, UNCHANGED gone,
           NEW a \in Actors, Begin(a) \/ Step(a) \/ KeyedStep(a)
    PROVE  GoneInv'
<1>0. /\ (row' = None <=> row = None)
      /\ late' = {t \in Turns : /\ at'[t] \notin Ended \union {"idle"}
                                /\ (t \in late \/ (at[t] = "idle" /\ gone))}
  BY CacheMoves DEF Track
<1>1. (late' # {} => gone') /\ (gone' => row' = None)
  BY <1>0 DEF GoneInv
<1>. SUFFICES ASSUME gone, NEW o \in Creds, Offered(o)' PROVE Guarded(o)'
  BY <1>1 DEF GoneInv
<1>2. row = None /\ (Offered(o) => Guarded(o)) /\ o # None
  BY RotationAssumption DEF GoneInv
<1>3. PICK p, m : Shape(a, p, m)
  BY ShapeHolds DEF Seats, Lands
<1>4. /\ at'[a] = p /\ mem'[a] = m
      /\ \A b \in Actors \ {a} : at'[b] = at[b] /\ mem'[b] = mem[b]
  BY <1>3, GotoMoves DEF Shape
<1>5. CASE Spare(o) /\ cached' = o
  <2>1. cred'[o].access = 0
    BY <1>5, BuiltEmpty DEF Spare
  <2>2. ASSUME NEW b \in Actors, mem'[b].obj = o, at'[b] \in {"persisted", "use"} PROVE FALSE
    <3>1. mem[b].obj # o
      BY <1>5 DEF Spare, Held
    <3>2. b = a /\ m.obj = o /\ p \in {"persisted", "use"}
      BY <1>4, <2>2, <3>1
    <3>3. m.obj = mem[a].obj
      BY <1>3, <3>2 DEF Shape, Holding, Exchanging
    <3>. QED
      BY <3>1, <3>2, <3>3
  <2>. QED
    BY <2>1, <2>2 DEF Guarded
<1>6. CASE ~(Spare(o) /\ cached' = o)
  <2>1. cached' = o => cached = o
    BY <1>2, <1>6, CacheMoves
  <2>2. Offered(o)
    <3>1. CASE o = cached'
      BY <2>1, <3>1 DEF Offered
    <3>2. ASSUME NEW t \in late', mem'[t].obj = o PROVE Offered(o)
      <4>0. t \in Turns /\ t \in Actors
        BY <1>0, <3>2 DEF Actors
      <4>1. CASE t = a
        <5>1. at[t] = "idle" => mem[t].obj = None
          BY <4>0 DEF Seats, Seated, Aware, Holding, Exchanging
        <5>2. m.obj \in {mem[a].obj, cached'}
          BY <1>2, <1>3, <1>4, <3>2, <4>1 DEF Shape
        <5>3. t \in late \/ at[t] = "idle"
          BY <1>0, <3>2
        <5>. QED
          BY <1>2, <1>4, <2>1, <3>2, <4>1, <5>1, <5>2, <5>3 DEF Offered
      <4>2. CASE t # a
        <5>1. t \in late
          BY <1>0, <1>4, <3>2, <4>0, <4>2
        <5>. QED
          BY <1>4, <3>2, <4>0, <4>2, <5>1 DEF Offered
      <4>. QED
        BY <4>1, <4>2
    <3>. QED
      BY <3>1, <3>2 DEF Offered
  <2>3. Guarded(o)
    BY <1>2, <2>2
  <2>4. \A b \in Actors \ {a} : mem'[b].obj = o /\ at'[b] \in {"persisted", "use"}
                                   => cred[o].unpersisted
    BY <1>4, <2>3 DEF Guarded
  <2>5. CASE cred'[o].unpersisted
    BY <2>5 DEF Guarded
  <2>6. CASE o = mem[a].obj /\ at[a] = "persisted" /\ cred'[o].unpersisted = cred[o].unpersisted
    BY <2>3, <2>6 DEF Guarded
  <2>7. CASE cred'[o].access = cred[o].access /\ cred'[o].unpersisted = cred[o].unpersisted
    <3>1. m.obj = o /\ p \in {"persisted", "use"} => cred'[o].unpersisted
      BY <1>2, <1>3, <2>3, <2>7 DEF Shape, Guarded
    <3>. QED
      BY <1>4, <2>3, <2>4, <2>7, <3>1 DEF Guarded
  <2>. QED
    BY <1>2, <1>6, <2>5, <2>6, <2>7, ObjectMoves
<1>. QED
  BY <1>5, <1>6

\* The objects and the threads as they were, the cache as it was or empty.
LEMMA StillGone ==
    ASSUME GoneInv, UNCHANGED <<cred, threadVars>>, cached' \in {cached, None},
           late' = late \/ late' = {}, gone' => row' = None, late' # {} => gone',
           gone' => gone \/ (late' = {} /\ cached' = None)
    PROVE  GoneInv'
<1>1. \A o \in Creds : Guarded(o) => Guarded(o)'
  BY DEF Guarded, threadVars
<1>2. \A o \in Creds : Offered(o)' => Offered(o)
  BY RotationAssumption DEF Offered, threadVars
<1>3. late' = {} /\ cached' = None => \A o \in Creds : ~Offered(o)'
  BY RotationAssumption DEF Offered
<1>. QED
  BY <1>1, <1>2, <1>3 DEF GoneInv

LEMMA BindGone == ASSUME BindTypes, Seats, GoneInv, [BindNext]_bvars PROVE GoneInv'
<1>0. Types
  BY DEF BindTypes
<1>1. CASE Rotating
  <2>1. ASSUME NEW a \in Actors, Begin(a) \/ Step(a) \/ KeyedStep(a) PROVE GoneInv'
    BY <1>0, <1>1, <2>1, ThreadGone DEF Rotating
  <2>. QED
    BY <1>1, <2>1 DEF Rotating, Threads, Actors
<1>2. CASE RestartAll
  <2>1. /\ cached' = None /\ late' = {} /\ UNCHANGED <<row, gone>>
    BY <1>2, BindingAssumption DEF RestartAll, Restart, Boot
  <2>. QED
    BY <2>1, RotationAssumption DEF GoneInv, Offered
<1>3. CASE ~Rotating /\ ~RestartAll
  <2>1. UNCHANGED <<cred, threadVars>> /\ cached' \in {cached, None}
    BY <1>3 DEF BindNext, Disconnect, bvars, vars, OpenBind, Decline, CompleteBind, Select, Claim,
       BindFails, BindWorkspace, StoreBinding, StoreBindingFails, ForgetPrevious, TearDown,
       ReadBinding, Unbind, UnbindFails, RevokeToken, ForgetCached, processVars
  <2>2. CASE \E x \in Binders : StoreBinding(x)
    BY <2>1, <2>2, StillGone DEF StoreBinding
  <2>3. CASE \E u \in Leavers : ForgetCached(u)
    BY <2>1, <2>3, StillGone DEF ForgetCached, GoneInv
  <2>4. CASE ~(\E x \in Binders : StoreBinding(x)) /\ ~(\E u \in Leavers : ForgetCached(u))
    <3>1. UNCHANGED <<late, gone>> /\ row' \in {row, None}
      BY <1>3, <2>4 DEF BindNext, Disconnect, bvars, vars, OpenBind, Decline, CompleteBind, Select,
         Claim, BindFails, BindWorkspace, StoreBindingFails, ForgetPrevious, TearDown,
         ReadBinding, Unbind, UnbindFails, RevokeToken, ghostVars
    <3>. QED
      BY <2>1, <3>1, StillGone DEF GoneInv
  <2>. QED
    BY <2>2, <2>3, <2>4
<1>. QED
  BY <1>1, <1>2, <1>3

\* A turn that begins once a workspace has been torn down is served only on a token whose
\* write failed, for any number of threads, teardowns and callbacks (_forget_binding,
\* _credential_for, the UPDATE-only put_refresh_token).
THEOREM TeardownEndsService == BindSpec => []UnbindEndsService
<1>1. BindInit => BindTypes /\ Seats /\ CalmInv /\ GoneInv
  <2>1. BindInit => GoneInv
    BY DEF BindInit, GoneInv
  <2>. QED
    BY <2>1, BindInitTyped, InitCalm
<1>2. BindTypes /\ Seats /\ CalmInv /\ GoneInv /\ [BindNext]_bvars
        => BindTypes' /\ Seats' /\ CalmInv' /\ GoneInv'
  BY BindStepTyped, BindCalm, BindGone
<1>3. BindTypes /\ GoneInv => UnbindEndsService
  <2>. SUFFICES ASSUME BindTypes, GoneInv, NEW t \in late, at[t] = "use"
                PROVE  Mine(t).unpersisted
    BY DEF UnbindEndsService
  <2>1. t \in Actors
    BY DEF BindTypes, BindTypeOK, Actors
  <2>2. mem[t].obj \in Creds
    BY <2>1 DEF BindTypes, Types, ThreadsOK, Aware
  <2>3. Guarded(mem[t].obj)
    BY <2>2 DEF GoneInv, Offered
  <2>. QED
    BY <2>1, <2>3 DEF Guarded, Mine
<1>. QED
  BY <1>1, <1>2, <1>3, PTL DEF BindSpec

-----------------------------------------------------------------------------
(* A binding is adopted with its credential.  AdoptsBinding is about the token a  *)
(* thread has just been given; why it acts for its object's enterprise goes back  *)
(* through what it presented, where that was read, and who put it there.          *)

\* Token t was issued, to act for enterprise e.
Known(t, e) == t <= issued /\ origin[t] = e

\* Token t, if it would still be accepted, acts for e.
Usable(t, e) == t <= issued /\ (t \in live => origin[t] = e)

\* What thread a has read, presents or was given is for its object's enterprise, and
\* a refused token that leads to another is the object's own.
FitThread(a) ==
    /\ mem[a].rec # None => Known(mem[a].rec.token, mem[a].rec.ent)
    /\ mem[a].left = <<>> /\ mem[a].show <= issued
    /\ at[a] \in {"minted", "persisted"} => Known(mem[a].got, Mine(a).ent)
    /\ at[a] = "post" => Usable(mem[a].show, Mine(a).ent)
    /\ at[a] = "post" /\ ~mem[a].alternative => mem[a].show = Mine(a).refresh
    /\ at[a] = "alternatives" => mem[a].alternative /\ Mine(a).refresh \notin live

Fitting ==
    /\ seed = 0 /\ live \subseteq 1..issued
    /\ row # None => Known(row.token, row.ent)
    /\ \A x \in Binders : binder[x].step = "issued" => Known(binder[x].got, binder[x].ent)
    /\ \A o \in Creds : Usable(cred[o].refresh, cred[o].ent)
    /\ \A a \in Actors : FitThread(a)

FitInv == crossed \/ Fitting

\* The backend forgets tokens and issues others; what it has issued stays as it was.
Grows == /\ issued' >= issued /\ live' \subseteq 1..issued'
         /\ \A t \in Tokens : t <= issued => /\ origin'[t] = origin[t]
                                             /\ t \in live' => t \in live

LEMMA KnownStays ==
    ASSUME Types, issued' \in Tokens, Grows, NEW t \in Tokens, NEW e
    PROVE  /\ Known(t, e) => t <= issued' /\ origin'[t] = e
           /\ Usable(t, e) => t <= issued' /\ (t \in live' => origin'[t] = e)
           /\ t <= issued /\ t \notin live => t \notin live'
<1>1. issued \in Nat /\ issued' \in Nat /\ t \in Nat
  BY RotationAssumption DEF Types, WorldOK, Tokens
<1>. QED
  BY <1>1 DEF Grows, Known, Usable

LEMMA SameGrows == ASSUME Types, live \subseteq 1..issued, UNCHANGED <<issued, origin>>,
                          live' \subseteq live
                   PROVE  Grows
<1>1. issued \in Nat
  BY RotationAssumption DEF Types, WorldOK, Tokens
<1>2. issued' = issued /\ origin' = origin
  OBVIOUS
<1>3. live' \subseteq 1..issued' /\ issued' >= issued
  BY <1>1, <1>2
<1>4. \A t \in Tokens : origin'[t] = origin[t] /\ (t \in live' => t \in live)
  BY <1>2
<1>. QED
  BY <1>3, <1>4 DEF Grows

\* One token is issued, whether or not another is spent.
LEMMA IssueGrows ==
    ASSUME Types, live \subseteq 1..issued, issued' = issued + 1,
           live' \subseteq live \union {issued + 1},
           NEW e, origin' = [origin EXCEPT ![issued + 1] = e]
    PROVE  Grows
<1>1. issued \in Nat /\ \A t \in Tokens : t \in Nat
  BY RotationAssumption DEF Types, WorldOK, Tokens
<1>2. \A t \in Tokens : t <= issued => origin'[t] = origin[t] /\ t # issued + 1
  BY <1>1 DEF Types, WorldOK
<1>. QED
  BY <1>1, <1>2 DEF Grows

\* A thread that stays where it is, with its object as it was.
LEMMA ThreadStaysFit ==
    ASSUME Types, Types', Grows, NEW b \in Actors, FitThread(b),
           at'[b] = at[b], mem'[b] = mem[b],
           at[b] \in Exchanging => /\ Usable(Mine(b).refresh, Mine(b).ent)
                                   /\ Mine(b)'.ent = Mine(b).ent
                                   /\ Mine(b)'.refresh = Mine(b).refresh
    PROVE  FitThread(b)'
<1>0. /\ mem[b] \in Locals /\ issued' \in Tokens /\ issued \in Nat /\ issued' \in Nat
      /\ \A t \in Tokens : t \in Nat
  BY RotationAssumption DEF Types, ThreadsOK, WorldOK, Tokens
<1>1. mem[b].show \in Tokens /\ mem[b].got \in Tokens /\ mem[b].rec \in Rows
  BY <1>0 DEF Locals
<1>2. (mem[b].rec # None => Known(mem[b].rec.token, mem[b].rec.ent)')
  BY <1>0, <1>1, KnownStays DEF FitThread, Known, Rows
<1>3. mem[b].left = <<>> /\ mem[b].show <= issued'
  <2>1. mem[b].left = <<>> /\ mem[b].show <= issued
    BY DEF FitThread
  <2>2. issued' >= issued /\ mem[b].show \in Nat
    BY <1>0, <1>1 DEF Grows
  <2>. QED
    BY <1>0, <2>1, <2>2
<1>4. at[b] \in {"minted", "persisted"} => Known(mem[b].got, Mine(b).ent)'
  BY <1>0, <1>1, KnownStays DEF FitThread, Known, Exchanging
<1>5. at[b] = "post" => Usable(mem[b].show, Mine(b).ent)'
  BY <1>0, <1>1, KnownStays DEF FitThread, Usable, Exchanging
<1>6. at[b] = "post" /\ ~mem[b].alternative => mem[b].show = Mine(b)'.refresh
  BY DEF FitThread, Exchanging
<1>7. at[b] = "alternatives" => mem[b].alternative /\ Mine(b)'.refresh \notin live'
  <2>1. CASE at[b] = "alternatives"
    <3>1. mem[b].obj \in Creds /\ Mine(b) \in Fields
      BY <2>1 DEF Types, ThreadsOK, StoreOK, Aware, Holding, Exchanging, Mine
    <3>2. Mine(b).refresh \in Tokens
      BY <3>1 DEF Fields
    <3>. QED
      BY <1>0, <2>1, <3>2, KnownStays DEF FitThread, Exchanging, Usable
  <2>. QED
    BY <2>1
<1>. QED
  BY <1>2, <1>3, <1>4, <1>5, <1>6, <1>7 DEF FitThread

\* Each object's token is usable where a thread has changed it.
LEMMA ObjectFits ==
    ASSUME Types, Seats, Fitting, NEW a \in Actors, Begin(a) \/ Step(a) \/ KeyedStep(a),
           NEW o \in Creds
    PROVE  \/ cred'[o].ent = cred[o].ent /\ cred'[o].refresh = cred[o].refresh
           \/ /\ Spare(o) \/ (at[a] \in Holding /\ o = mem[a].obj)
              /\ UNCHANGED <<live, issued, origin>>
              /\ Usable(cred'[o].refresh, cred'[o].ent)
<1>0. cred \in [Creds -> Fields] /\ cred[o] \in Fields /\ mem[a] \in Locals /\ FitThread(a)
      /\ Usable(cred[o].refresh, cred[o].ent)
  BY DEF Types, StoreOK, ThreadsOK, Fitting
<1>1. CASE Publish(a)
  <2>1. UNCHANGED <<live, issued, origin>> /\ at[a] \in Holding
        /\ (o = mem[a].obj => Usable(mem[a].got, cred[o].ent))
    BY <1>0, <1>1 DEF Publish, backendVars, FitThread, Known, Usable, Mine, Holding, Exchanging
  <2>2. CASE o = mem[a].obj
    <3>1. cred'[o].refresh = mem[a].got /\ cred'[o].ent = cred[o].ent
      BY <1>0, <1>1, <2>2 DEF Publish, Held, Fields
    <3>. QED
      BY <2>1, <2>2, <3>1
  <2>3. CASE o # mem[a].obj
    BY <1>0, <1>1, <2>3 DEF Publish, Held
  <2>. QED
    BY <2>2, <2>3
<1>2. CASE Insert(a)
  <2>1. CASE UNCHANGED cred
    BY <2>1
  <2>2. CASE /\ mem[a].rec # None
             /\ \E q \in Creds : /\ Spare(q)
                                 /\ cred' = [cred EXCEPT ![q] =
                                        [Unused EXCEPT !.refresh = mem[a].rec.token,
                                                       !.ent = mem[a].rec.ent]]
    <3>1. PICK q \in Creds : /\ Spare(q)
                             /\ cred' = [cred EXCEPT ![q] =
                                        [Unused EXCEPT !.refresh = mem[a].rec.token,
                                                       !.ent = mem[a].rec.ent]]
      BY <2>2
    <3>2. o = q => cred'[o].refresh = mem[a].rec.token /\ cred'[o].ent = mem[a].rec.ent
      BY <1>0, <3>1 DEF Unused
    <3>3. o # q => cred'[o] = cred[o]
      BY <1>0, <3>1
    <3>4. UNCHANGED <<live, issued, origin>>
      BY <1>2 DEF Insert, backendVars
    <3>. QED
      BY <1>0, <2>2, <3>1, <3>2, <3>3, <3>4 DEF FitThread, Known, Usable
  <2>. QED
    BY <1>2, <2>1, <2>2 DEF Insert
<1>3. CASE Alternatives(a)
  <2>1. \/ UNCHANGED cred
        \/ row # None /\ cred' = [cred EXCEPT ![Held(a)].ent = row.ent]
    BY <1>3 DEF Alternatives, Adopted
  <2>2. UNCHANGED <<live, issued, origin>> /\ at[a] = "alternatives" /\ at[a] \in Holding
    BY <1>3 DEF Alternatives, backendVars, Holding, Exchanging
  <2>3. CASE row # None /\ cred' = [cred EXCEPT ![Held(a)].ent = row.ent] /\ o = mem[a].obj
    <3>1. cred'[o].refresh = cred[o].refresh /\ cred'[o].ent = row.ent
      BY <1>0, <2>3 DEF Held, Fields
    <3>2. Mine(a).refresh \notin live
      BY <1>0, <2>2 DEF FitThread
    <3>. QED
      BY <1>0, <2>2, <2>3, <3>1, <3>2 DEF Usable, Mine
  <2>4. CASE cred' = [cred EXCEPT ![Held(a)].ent = row.ent] /\ o # mem[a].obj
    BY <1>0, <2>4 DEF Held
  <2>. QED
    BY <2>1, <2>3, <2>4
<1>4. CASE Persist(a) \/ PersistFails(a) \/ Rewrite(a)
  <2>1. UNCHANGED cred \/ \E v : cred' = [cred EXCEPT ![Held(a)].unpersisted = v]
    BY <1>4 DEF Persist, PersistFails, Rewrite
  <2>. QED
    BY <1>0, <2>1 DEF Fields
<1>5. CASE ~(Publish(a) \/ Insert(a) \/ Alternatives(a) \/ Persist(a) \/ PersistFails(a)
             \/ Rewrite(a))
  <2>1. UNCHANGED cred
    BY <1>5 DEF Begin, Step, KeyedStep, Exchange, Wake, Queue, Unauthorized, RetrySkip, Look,
       Served, Due, TakeLock, RetryTake, Rotate, AnswerLost, Unreached, Refused,
       ReadRow, WrongEnterprise, PersistUnbound
  <2>. QED
    BY <2>1
<1>. QED
  BY <1>1, <1>2, <1>3, <1>4, <1>5

\* What a thread has read of a row.
LEMMA RecordFits ==
    ASSUME Types, Types', Seats, Fitting, Grows, NEW a \in Actors,
           Begin(a) \/ Step(a) \/ KeyedStep(a), mem'[a].rec # None
    PROVE  Known(mem[a].rec.token, mem[a].rec.ent)'
<1>1. PICK p, m : Shape(a, p, m)
  BY ShapeHolds DEF Seats, Lands
<1>2. mem'[a].rec \in {mem[a].rec, row}
  BY <1>1, GotoMoves DEF Shape
<1>3. mem[a].rec \in Rows /\ row \in Rows /\ issued' \in Tokens
  BY DEF Types, ThreadsOK, StoreOK, WorldOK, Locals
<1>4. Known(mem'[a].rec.token, mem'[a].rec.ent) /\ mem'[a].rec.token \in Tokens
  BY <1>2, <1>3 DEF Fitting, FitThread, Rows
<1>. QED
  BY <1>3, <1>4, KnownStays DEF Known

\* A thread that goes on outside the exchange.
Aside(a) == at'[a] \notin Exchanging /\ mem'[a].left = <<>> /\ mem'[a].show <= issued

LEMMA AsideFits ==
    ASSUME Types, Types', Seats, Fitting, Grows, NEW a \in Actors,
           Begin(a) \/ Step(a) \/ KeyedStep(a), Aside(a)
    PROVE  FitThread(a)'
<1>1. mem'[a].show <= issued'
  <2>1. issued \in Nat /\ issued' \in Nat /\ mem'[a].show \in Nat
    BY RotationAssumption DEF Types, WorldOK, Tokens, ThreadsOK, Locals
  <2>. QED
    BY <2>1 DEF Aside, Grows
<1>. QED
  BY <1>1, RecordFits DEF Aside, FitThread, Exchanging

\* Zero is a token number within the bound.
LEMMA ZeroIssued == ASSUME Types PROVE 0 <= issued /\ issued \in Nat
BY RotationAssumption DEF Types, WorldOK, Tokens

LEMMA BlankAside ==
    ASSUME Types, NEW a \in Actors, NEW p \in Ended \union {"idle"}, Goto(a, p, Blank)
    PROVE  Aside(a)
<1>1. Blank.left = <<>> /\ Blank.show = 0
  BY DEF Blank
<1>2. p \notin Exchanging
  BY DEF Ended, Exchanging
<1>. QED
  BY <1>1, <1>2, GotoMoves, ZeroIssued DEF Aside

LEMMA LeaveAside == ASSUME Types, NEW a \in Actors, NEW p \in Ended, Leave(a, p) PROVE Aside(a)
BY BlankAside DEF Leave

LEMMA ReturnAside == ASSUME Types, NEW a \in Actors, NEW t, Return(a, t) PROVE Aside(a)
<1>1. CASE a \in Keepers
  BY <1>1, LeaveAside DEF Return, Ended
<1>2. CASE a \notin Keepers
  <2>. DEFINE m == [Blank EXCEPT !.obj = Held(a), !.use = t, !.again = mem[a].again]
  <2>1. m.left = <<>> /\ m.show = 0 /\ Goto(a, "use", m)
    BY <1>2 DEF Return, Blank
  <2>. HIDE DEF m
  <2>. QED
    BY <2>1, GotoMoves, ZeroIssued DEF Aside, Exchanging
<1>. QED
  BY <1>1, <1>2

\* A thread that keeps what it had, or presents nothing.
LEMMA KeepsAside ==
    ASSUME Types, Fitting, NEW a \in Actors,
           NEW p \in {"read", "insert", "look", "tick", "due", "queue", "wait", "retry"},
           NEW m, Goto(a, p, m), m.left = mem[a].left, m.show \in {0, mem[a].show, Mine(a).refresh},
           m.show = Mine(a).refresh => mem[a].obj \in Creds \/ m.show = mem[a].show
    PROVE  Aside(a)
<1>1. mem[a].left = <<>> /\ mem[a].show <= issued
  BY DEF Fitting, FitThread
<1>2. mem[a].obj \in Creds => Mine(a).refresh <= issued
  BY DEF Fitting, Usable, Mine
<1>3. p \notin Exchanging
  BY DEF Exchanging
<1>. QED
  BY <1>1, <1>2, <1>3, GotoMoves, ZeroIssued DEF Aside

LEMMA ResolvedAside ==
    ASSUME Types, Fitting, NEW a \in Actors, NEW o, Resolved(a, o) PROVE Aside(a)
<1>. DEFINE p == IF a \in Keepers THEN "tick" ELSE "look"
            m == [mem[a] EXCEPT !.obj = o, !.rec = None]
<1>1. m.left = mem[a].left /\ m.show = mem[a].show /\ Goto(a, p, m)
  BY DEF Types, ThreadsOK, Locals, Resolved
<1>2. p \in {"look", "tick"}
  OBVIOUS
<1>. HIDE DEF m, p
<1>. QED
  BY <1>1, <1>2, KeepsAside

LEMMA OutsideAside ==
    ASSUME Types, Fitting, NEW a \in Actors,
           \/ Begin(a) \/ Wake(a) \/ Queue(a) \/ Unauthorized(a) \/ RetrySkip(a) \/ Look(a)
           \/ Served(a) \/ Due(a) \/ RetryTake(a) \/ Rewrite(a) \/ ReadRow(a) \/ Insert(a)
    PROVE  Aside(a)
<1>0. mem[a] \in Locals /\ (at[a] \in Aware => mem[a].obj \in Creds)
  BY DEF Types, ThreadsOK
<1>1. CASE Begin(a) \/ Wake(a)
  BY <1>1, ResolvedAside, KeepsAside DEF Begin, Wake, FirstLook
<1>2. CASE Queue(a)
  <2>. DEFINE m == [mem[a] EXCEPT !.intended = Mine(a).refresh]
  <2>1. m.left = mem[a].left /\ m.show = mem[a].show /\ Goto(a, "wait", m)
    BY <1>0, <1>2 DEF Locals, Queue
  <2>. HIDE DEF m
  <2>. QED
    BY <2>1, KeepsAside
<1>3. CASE Unauthorized(a)
  <2>. DEFINE m == [mem[a] EXCEPT !.seen = mem[a].use, !.use = 0, !.again = TRUE]
  <2>1. m.left = mem[a].left /\ m.show = mem[a].show /\ Goto(a, "queue", m)
    BY <1>0, <1>3 DEF Locals, Unauthorized
  <2>. HIDE DEF m
  <2>. QED
    BY <2>1, KeepsAside
<1>4. CASE Look(a)
  <2>. DEFINE m == [mem[a] EXCEPT !.seen = Mine(a).access]
  <2>1. m.left = mem[a].left /\ m.show = mem[a].show
    BY <1>0 DEF Locals
  <2>2. Return(a, Mine(a).access) \/ Goto(a, "queue", m)
    BY <1>4 DEF Look
  <2>. HIDE DEF m
  <2>. QED
    BY <2>1, <2>2, KeepsAside, ReturnAside
<1>5. CASE RetrySkip(a) \/ Due(a)
  BY <1>5, KeepsAside, LeaveAside DEF RetrySkip, Due, Ended
<1>6. CASE Served(a)
  BY <1>6, BlankAside DEF Served, Ended
<1>7. CASE RetryTake(a)
  <2>. DEFINE m == [mem[a] EXCEPT !.show = Mine(a).refresh]
  <2>1. m.left = mem[a].left /\ m.show = Mine(a).refresh /\ Goto(a, "retry", m)
    BY <1>0, <1>7 DEF Locals, RetryTake
  <2>2. mem[a].obj \in Creds
    BY <1>0, <1>7 DEF RetryTake, Aware
  <2>. HIDE DEF m
  <2>. QED
    BY <2>1, <2>2, KeepsAside
<1>8. CASE Rewrite(a)
  <2>. DEFINE m == [mem[a] EXCEPT !.show = 0]
  <2>1. m.left = mem[a].left /\ m.show = 0 /\ Goto(a, "due", m)
    BY <1>0, <1>8 DEF Locals, Rewrite
  <2>2. mem[a].obj \in Creds
    BY <1>0, <1>8 DEF Rewrite, Aware, Holding
  <2>. HIDE DEF m
  <2>. QED
    BY <2>1, <2>2, KeepsAside
<1>9. CASE ReadRow(a)
  <2>. DEFINE m == [mem[a] EXCEPT !.rec = row]
  <2>1. m.left = mem[a].left /\ m.show = mem[a].show /\ Goto(a, "insert", m)
    BY <1>0, <1>9 DEF Locals, ReadRow
  <2>. HIDE DEF m
  <2>. QED
    BY <2>1, KeepsAside
<1>10. CASE Insert(a)
  <2>1. \/ Leave(a, IF RequireBinding THEN "failed" ELSE "default")
        \/ Resolved(a, cached')
    BY <1>10 DEF Insert
  <2>. QED
    BY <2>1, ResolvedAside, LeaveAside DEF Ended
<1>. QED
  BY <1>1, <1>2, <1>3, <1>4, <1>5, <1>6, <1>7, <1>8, <1>9, <1>10

\* What is left to show of a thread inside the exchange.
LEMMA InsideFits ==
    ASSUME Types, Types', Seats, Fitting, Grows, NEW a \in Actors,
           Begin(a) \/ Step(a) \/ KeyedStep(a), NEW p \in Exchanging, NEW m, Goto(a, p, m),
           m.left = <<>>, m.show <= issued, m.obj = mem[a].obj,
           p \in {"minted", "persisted"} =>
               m.got <= issued' /\ origin'[m.got] = cred'[mem[a].obj].ent,
           p = "post" => /\ m.show \in live' => origin'[m.show] = cred'[mem[a].obj].ent
                         /\ ~m.alternative => m.show = cred'[mem[a].obj].refresh,
           p = "alternatives" => m.alternative /\ cred'[mem[a].obj].refresh \notin live'
    PROVE  FitThread(a)'
<1>1. at'[a] = p /\ mem'[a] = m
  BY GotoMoves
<1>2. m.show <= issued'
  <2>1. issued \in Nat /\ issued' \in Nat /\ mem'[a].show \in Nat
    BY RotationAssumption DEF Types, WorldOK, Tokens, ThreadsOK, Locals
  <2>. QED
    BY <1>1, <2>1 DEF Grows
<1>3. (at[a] \in {"minted", "persisted"} => Known(mem[a].got, Mine(a).ent))'
  BY <1>1 DEF Known, Mine
<1>4. (at[a] = "post" => Usable(mem[a].show, Mine(a).ent))'
  BY <1>1, <1>2 DEF Usable, Mine
<1>5. (at[a] = "post" /\ ~mem[a].alternative => mem[a].show = Mine(a).refresh)'
  BY <1>1 DEF Mine
<1>6. (at[a] = "alternatives" => mem[a].alternative /\ Mine(a).refresh \notin live)'
  BY <1>1 DEF Mine
<1>7. (mem[a].rec # None => Known(mem[a].rec.token, mem[a].rec.ent))'
  BY RecordFits
<1>8. (mem[a].left = <<>> /\ mem[a].show <= issued)'
  BY <1>1, <1>2
<1>. QED
  BY <1>3, <1>4, <1>5, <1>6, <1>7, <1>8 DEF FitThread

LEMMA TakeLockFits ==
    ASSUME Types, Types', Seats, Fitting, Grows, NEW a \in Actors, TakeLock(a), Step(a)
    PROVE  FitThread(a)'
<1>1. CASE Return(a, Mine(a).access)
  BY <1>1, ReturnAside, AsideFits
<1>2. CASE Goto(a, "post", [Blank EXCEPT !.obj = Held(a), !.show = Mine(a).refresh,
                                          !.again = mem[a].again])
  <2>. DEFINE m == [Blank EXCEPT !.obj = Held(a), !.show = Mine(a).refresh, !.again = mem[a].again]
  <2>1. /\ m.left = <<>> /\ m.show = Mine(a).refresh /\ m.obj = mem[a].obj /\ ~m.alternative
        /\ Goto(a, "post", m)
    BY <1>2 DEF Blank, Held
  <2>2. mem[a].obj \in Creds
    BY DEF TakeLock, Types, ThreadsOK, Aware
  <2>3. UNCHANGED <<cred, live, issued, origin>>
    BY DEF TakeLock, backendVars
  <2>4. Usable(Mine(a).refresh, Mine(a).ent)
    BY <2>2 DEF Fitting, Mine
  <2>5. "post" \in Exchanging /\ "post" \notin {"minted", "persisted", "alternatives"}
    BY DEF Exchanging
  <2>. HIDE DEF m
  <2>. QED
    BY <2>1, <2>3, <2>4, <2>5, InsideFits DEF Usable, Mine
<1>. QED
  BY <1>1, <1>2 DEF TakeLock

LEMMA RotateFits ==
    ASSUME Types, Types', Seats, Fitting, Grows, NEW a \in Actors, Rotate(a), Step(a)
    PROVE  FitThread(a)'
<1>. DEFINE m == [mem[a] EXCEPT !.got = issued + 1, !.show = 0, !.left = <<>>,
                                !.alternative = FALSE]
<1>1. /\ m.left = <<>> /\ m.show = 0 /\ m.obj = mem[a].obj /\ m.got = issued + 1
      /\ Goto(a, "minted", m)
  BY DEF Rotate, Types, ThreadsOK, Locals
<1>2. cred' = cred /\ issued' = issued + 1 /\ issued + 1 \in Tokens
  BY DEF Rotate, Spend, Types, WorldOK
<1>3. origin'[issued + 1] = origin[mem[a].show]
  BY <1>2 DEF Rotate, Spend, Types, WorldOK
<1>4. origin[mem[a].show] = Mine(a).ent
  BY DEF Rotate, Spend, Fitting, FitThread, Usable
<1>5. m.got <= issued' /\ 0 <= issued
  BY <1>1, <1>2, ZeroIssued
<1>6. "minted" \in Exchanging /\ "minted" \notin {"post", "alternatives"}
  BY DEF Exchanging
<1>. HIDE DEF m
<1>. QED
  BY <1>1, <1>2, <1>3, <1>4, <1>5, <1>6, InsideFits DEF Mine

LEMMA RefusedFits ==
    ASSUME Types, Types', Seats, Fitting, Grows, NEW a \in Actors, Refused(a), Step(a)
    PROVE  FitThread(a)'
<1>0. mem[a].left = <<>> /\ at[a] = "post" /\ mem[a].show <= issued
  BY DEF Fitting, FitThread, Refused
<1>1. CASE Leave(a, "failed")
  BY <1>1, LeaveAside, AsideFits DEF Ended
<1>2. CASE ~mem[a].alternative /\ Goto(a, "alternatives", [mem[a] EXCEPT !.alternative = TRUE])
  <2>. DEFINE m == [mem[a] EXCEPT !.alternative = TRUE]
  <2>1. /\ m.left = <<>> /\ m.show = mem[a].show /\ m.obj = mem[a].obj /\ m.alternative
        /\ Goto(a, "alternatives", m)
    BY <1>0, <1>2 DEF Types, ThreadsOK, Locals
  <2>2. cred' = cred /\ live' = live
    BY DEF Refused, backendVars
  <2>3. Mine(a).refresh \notin live
    BY <1>0, <1>2 DEF Refused, Fitting, FitThread
  <2>4. "alternatives" \in Exchanging /\ "alternatives" \notin {"minted", "persisted", "post"}
    BY DEF Exchanging
  <2>. HIDE DEF m
  <2>. QED
    BY <1>0, <2>1, <2>2, <2>3, <2>4, InsideFits DEF Mine
<1>. QED
  BY <1>0, <1>1, <1>2 DEF Refused

LEMMA AlternativesFits ==
    ASSUME Types, Types', Seats, Fitting, Grows, NEW a \in Actors, Alternatives(a), Step(a)
    PROVE  FitThread(a)'
<1>0. seed = 0 /\ at[a] = "alternatives" /\ UNCHANGED <<live, issued, origin>>
  BY DEF Fitting, Alternatives, backendVars
<1>1. CASE Leave(a, "failed")
  BY <1>1, LeaveAside, AsideFits DEF Ended
<1>2. ASSUME ~Leave(a, "failed") PROVE FitThread(a)'
  <2>1. PICK readable \in {TRUE, FALSE} :
          LET stored == IF readable /\ row # None THEN row.token ELSE 0
              left   == Candidates(a, stored) IN
          /\ cred' = IF readable /\ row # None /\ Keyed
                     THEN [cred EXCEPT ![Held(a)].ent = Adopted(a, row.ent)] ELSE cred
          /\ left # <<>>
          /\ Goto(a, "post", [mem[a] EXCEPT !.show = Head(left), !.left = Tail(left)])
    BY <1>2 DEF Alternatives
  <2>. DEFINE stored == IF readable /\ row # None THEN row.token ELSE 0
              left   == Candidates(a, stored)
              m      == [mem[a] EXCEPT !.show = Head(left), !.left = Tail(left)]
  <2>2. left = <<stored>> /\ stored # 0
    <3>1. seed \in {0, Mine(a).refresh, stored}
      BY <1>0
    <3>2. left = Unless(stored, {0, Mine(a).refresh}) \o <<>>
      BY <3>1 DEF Candidates, Unless
    <3>3. Unless(stored, {0, Mine(a).refresh}) \in {<<>>, <<stored>>}
      BY DEF Unless
    <3>4. <<>> \o <<>> = <<>> /\ <<stored>> \o <<>> = <<stored>>
      OBVIOUS
    <3>5. left # <<>>
      BY <2>1
    <3>6. stored = 0 => Unless(stored, {0, Mine(a).refresh}) = <<>>
      BY DEF Unless
    <3>. HIDE DEF stored, left
    <3>. QED
      BY <3>2, <3>3, <3>4, <3>5, <3>6
  <2>3. readable /\ row # None /\ stored = row.token
    BY <2>2
  <2>4. Known(stored, row.ent)
    BY <2>3 DEF Fitting
  <2>5. Head(left) = stored /\ Tail(left) = <<>>
    <3>. HIDE DEF stored, left
    <3>. QED
      BY <2>2
  <2>6. /\ m.left = <<>> /\ m.show = stored /\ m.obj = mem[a].obj /\ m.alternative
        /\ Goto(a, "post", m)
    <3>1. mem[a] \in Locals /\ mem[a].alternative
      BY <1>0 DEF Types, ThreadsOK, Fitting, FitThread
    <3>2. Goto(a, "post", m)
      BY <2>1
    <3>. HIDE DEF left, stored
    <3>. QED
      BY <2>5, <3>1, <3>2 DEF Locals
  <2>7. cred'[mem[a].obj].ent = row.ent
    <3>1. mem[a].obj \in Creds /\ cred \in [Creds -> Fields]
      BY <1>0 DEF Types, ThreadsOK, StoreOK, Aware, Holding, Exchanging
    <3>2. cred' = [cred EXCEPT ![mem[a].obj].ent = row.ent]
      BY <2>1, <2>3, BindingAssumption DEF Held, Adopted
    <3>. QED
      BY <3>1, <3>2 DEF Fields
  <2>8. "post" \in Exchanging /\ "post" \notin {"minted", "persisted", "alternatives"}
    BY DEF Exchanging
  <2>. HIDE DEF m, stored, left
  <2>. QED
    BY <1>0, <2>4, <2>6, <2>7, <2>8, InsideFits DEF Known
<1>. QED
  BY <1>1, <1>2

LEMMA PersistFits ==
    ASSUME Types, Types', Seats, Fitting, Grows, NEW a \in Actors,
           Persist(a) \/ PersistFails(a), Step(a)
    PROVE  FitThread(a)'
<1>1. /\ at[a] = "minted" /\ UNCHANGED <<live, issued, origin>> /\ Goto(a, "persisted", mem[a])
      /\ \E v : cred' = [cred EXCEPT ![Held(a)].unpersisted = v]
  BY DEF Persist, PersistFails, backendVars
<1>2. mem[a].left = <<>> /\ mem[a].show <= issued /\ Known(mem[a].got, Mine(a).ent)
  BY <1>1 DEF Fitting, FitThread
<1>3. cred'[mem[a].obj].ent = Mine(a).ent
  <2>1. mem[a].obj \in Creds /\ cred \in [Creds -> Fields]
    BY <1>1 DEF Types, ThreadsOK, StoreOK, Aware, Holding, Exchanging
  <2>. QED
    BY <1>1, <2>1 DEF Held, Mine, Fields
<1>4. "persisted" \in Exchanging /\ "persisted" \notin {"post", "alternatives"}
  BY DEF Exchanging
<1>. QED
  BY <1>1, <1>2, <1>3, <1>4, InsideFits DEF Known

LEMMA ThreadGrows ==
    ASSUME Types, Fitting, NEW a \in Actors, Begin(a) \/ Step(a) \/ KeyedStep(a)
    PROVE  Grows /\ seed' = seed
<1>0. live \subseteq 1..issued
  BY DEF Fitting
<1>1. CASE Rotate(a)
  <2>1. \E e : origin' = [origin EXCEPT ![issued + 1] = e]
    BY <1>1 DEF Rotate, Spend
  <2>2. live' \subseteq live \union {issued + 1} /\ issued' = issued + 1 /\ seed' = seed
    BY <1>1 DEF Rotate, Spend
  <2>. QED
    BY <1>0, <2>1, <2>2, IssueGrows
<1>2. CASE ~Rotate(a)
  <2>1. UNCHANGED <<live, issued, origin, seed>>
    BY <1>2 DEF Begin, Step, KeyedStep, Exchange, Wake, Queue, Unauthorized, RetrySkip, Look,
       Served, Due, TakeLock, RetryTake, Rewrite, AnswerLost, Unreached, Refused, Alternatives,
       Persist, PersistFails, Publish, ReadRow, Insert, WrongEnterprise, PersistUnbound,
       backendVars
  <2>. QED
    BY <1>0, <2>1, SameGrows
<1>. QED
  BY <1>1, <1>2

LEMMA StepFits ==
    ASSUME Types, Types', Seats, Fitting, NEW a \in Actors, Begin(a) \/ Step(a) \/ KeyedStep(a)
    PROVE  FitThread(a)'
<1>0. Grows
  BY ThreadGrows
<1>1. CASE AnswerLost(a) \/ Unreached(a) \/ WrongEnterprise(a) \/ PersistUnbound(a)
  <2>1. Aside(a)
    BY <1>1, LeaveAside DEF AnswerLost, Unreached, WrongEnterprise, PersistUnbound, Ended
  <2>. QED
    BY <1>0, <2>1, AsideFits
<1>2. CASE Publish(a)
  <2>1. Aside(a)
    BY <1>2, ReturnAside DEF Publish
  <2>. QED
    BY <1>0, <2>1, AsideFits
<1>3. CASE \/ Begin(a) \/ Wake(a) \/ Queue(a) \/ Unauthorized(a) \/ RetrySkip(a) \/ Look(a)
           \/ Served(a) \/ Due(a) \/ RetryTake(a) \/ Rewrite(a) \/ ReadRow(a) \/ Insert(a)
  <2>1. Aside(a)
    BY <1>3, OutsideAside
  <2>. QED
    BY <1>0, <2>1, AsideFits
<1>4. CASE TakeLock(a) \/ Rotate(a) \/ Refused(a) \/ Alternatives(a) \/ Persist(a)
           \/ PersistFails(a)
  <2>1. Step(a)
    BY <1>4 DEF Step, Exchange
  <2>. QED
    BY <1>0, <1>4, <2>1, TakeLockFits, RotateFits, RefusedFits, AlternativesFits, PersistFits
<1>. QED
  BY <1>1, <1>2, <1>3, <1>4 DEF Step, KeyedStep, Exchange

\* What a thread writes to the row has been issued.
LEMMA WriteIssued ==
    ASSUME Types, Fitting, NEW a \in Actors, Begin(a) \/ Step(a) \/ KeyedStep(a), row' # None
    PROVE  row'.token <= issued
<1>1. CASE Persist(a) \/ Rewrite(a)
  <2>1. mem[a].show <= issued /\ (Persist(a) => mem[a].got <= issued)
    BY DEF Fitting, FitThread, Known, Persist
  <2>2. UNCHANGED row \/ \E t : t <= issued /\ row # None /\ row' = [row EXCEPT !.token = t]
    BY <1>1, <2>1 DEF Persist, Rewrite, Stored
  <2>3. row # None => row.token <= issued /\ row \in [token : Tokens, ent : Enterprises]
    BY DEF Fitting, Known, Types, StoreOK, Rows
  <2>. QED
    BY <2>2, <2>3
<1>2. CASE ~(Persist(a) \/ Rewrite(a))
  <2>1. UNCHANGED row
    BY <1>2 DEF Begin, Step, KeyedStep, Exchange, Wake, Queue, Unauthorized, RetrySkip, Look,
       Served, Due, TakeLock, RetryTake, Rotate, AnswerLost, Unreached, Refused, Alternatives,
       PersistFails, Publish, ReadRow, Insert, WrongEnterprise, PersistUnbound
  <2>. QED
    BY <2>1 DEF Fitting, Known
<1>. QED
  BY <1>1, <1>2

LEMMA BinderTokens ==
    ASSUME BindTypes, NEW x \in Binders
    PROVE  binder[x].got \in Tokens /\ (binder[x].step = "issued" => binder[x].ent \in Enterprises)
<1>1. binder[x] \in BinderRec
  BY DEF BindTypes, BindTypeOK, BinderRec, BinderSteps
<1>. QED
  BY <1>1 DEF BinderRec, BindTypes

LEMMA ThreadFitting ==
    ASSUME BindTypes, Types', Seats, Fitting, UNCHANGED binder, Fits(row'),
           NEW a \in Actors, Begin(a) \/ Step(a) \/ KeyedStep(a)
    PROVE  Fitting'
<1>0. Types /\ Grows /\ seed' = 0 /\ live' \subseteq 1..issued' /\ issued' \in Tokens
      /\ issued \in Nat /\ issued' \in Nat
  BY ThreadGrows, ZeroIssued, RotationAssumption
  DEF BindTypes, Fitting, Grows, Types, WorldOK, Tokens
<1>1. (row # None => Known(row.token, row.ent))'
  <2>1. row' # None => row'.token \in Nat /\ row'.token <= issued
    BY <1>0, WriteIssued DEF Types, StoreOK, Rows, Tokens
  <2>2. row' # None => row'.token <= issued'
    BY <1>0, <2>1 DEF Grows
  <2>. QED
    BY <2>2 DEF Fits, Known
<1>2. (\A x \in Binders : binder[x].step = "issued" => Known(binder[x].got, binder[x].ent))'
  BY <1>0, BinderTokens, KnownStays DEF Fitting, Known
<1>3. (\A o \in Creds : Usable(cred[o].refresh, cred[o].ent))'
  <2>. SUFFICES ASSUME NEW o \in Creds PROVE Usable(cred[o].refresh, cred[o].ent)'
    OBVIOUS
  <2>1. CASE cred'[o].ent = cred[o].ent /\ cred'[o].refresh = cred[o].refresh
    <3>1. Usable(cred[o].refresh, cred[o].ent) /\ cred[o].refresh \in Tokens
      BY <1>0 DEF Fitting, Types, StoreOK, Fields
    <3>. QED
      BY <1>0, <2>1, <3>1, KnownStays DEF Usable
  <2>2. CASE UNCHANGED <<live, issued, origin>> /\ Usable(cred'[o].refresh, cred'[o].ent)
    BY <2>2 DEF Usable
  <2>. QED
    BY <1>0, <2>1, <2>2, ObjectFits
<1>4. (\A b \in Actors : FitThread(b))'
  <2>. SUFFICES ASSUME NEW b \in Actors PROVE FitThread(b)'
    OBVIOUS
  <2>1. CASE b = a
    BY <1>0, <2>1, StepFits
  <2>2. CASE b # a
    <3>1. at'[b] = at[b] /\ mem'[b] = mem[b]
      <4>1. PICK p, m : Shape(a, p, m)
        BY <1>0, ShapeHolds DEF Seats, Lands
      <4>. QED
        BY <1>0, <2>2, <4>1, GotoMoves DEF Shape
    <3>2. ASSUME at[b] \in Exchanging
          PROVE  /\ Mine(b)'.ent = Mine(b).ent /\ Mine(b)'.refresh = Mine(b).refresh
                 /\ mem[b].obj \in Creds
      <4>1. mem[b].obj \in Creds /\ lock[mem[b].obj] = b
        BY <1>0, <3>2 DEF Types, ThreadsOK, Seats, Seated, Aware, Holding
      <4>2. ~Spare(mem[b].obj)
        BY DEF Spare, Held
      <4>3. at[a] \in Holding => mem[b].obj # mem[a].obj
        BY <2>2, <4>1 DEF Seats, Seated
      <4>. QED
        BY <1>0, <3>1, <4>1, <4>2, <4>3, ObjectFits DEF Mine
    <3>3. FitThread(b)
      BY DEF Fitting
    <3>4. at[b] \in Exchanging => Usable(Mine(b).refresh, Mine(b).ent)
      BY <3>2 DEF Fitting, Mine
    <3>. QED
      BY <1>0, <3>1, <3>2, <3>3, <3>4, ThreadStaysFit
  <2>. QED
    BY <2>1, <2>2
<1>. QED
  BY <1>0, <1>1, <1>2, <1>3, <1>4 DEF Fitting

\* The process as it was, while the backend or the store moves.
LEMMA RestFits ==
    ASSUME BindTypes, Types', Fitting, Grows, UNCHANGED processVars,
           (row # None => Known(row.token, row.ent))',
           (\A x \in Binders : binder[x].step = "issued" => Known(binder[x].got, binder[x].ent))'
    PROVE  Fitting'
<1>0. Types /\ UNCHANGED <<cred, at, mem, seed>> /\ issued' \in Tokens
  BY DEF BindTypes, Types, WorldOK, processVars, threadVars
<1>1. (\A o \in Creds : Usable(cred[o].refresh, cred[o].ent))'
  <2>. SUFFICES ASSUME NEW o \in Creds PROVE Usable(cred[o].refresh, cred[o].ent)'
    OBVIOUS
  <2>1. Usable(cred[o].refresh, cred[o].ent) /\ cred[o].refresh \in Tokens
    BY <1>0 DEF Fitting, Types, StoreOK, Fields
  <2>. QED
    BY <1>0, <2>1, KnownStays DEF Usable
<1>2. (\A b \in Actors : FitThread(b))'
  <2>. SUFFICES ASSUME NEW b \in Actors PROVE FitThread(b)'
    OBVIOUS
  <2>1. FitThread(b) /\ (at[b] \in Exchanging => mem[b].obj \in Creds)
    BY <1>0 DEF Fitting, Types, ThreadsOK, Aware, Holding
  <2>2. at[b] \in Exchanging => Usable(Mine(b).refresh, Mine(b).ent)
    BY <2>1 DEF Fitting, Mine
  <2>3. Mine(b)' = Mine(b)
    BY <1>0 DEF Mine
  <2>. QED
    BY <1>0, <2>1, <2>2, <2>3, ThreadStaysFit
<1>. QED
  BY <1>0, <1>1, <1>2 DEF Fitting, Grows

\* The callbacks' credentials, where the backend and they are as they were.
LEMMA BindersFit ==
    ASSUME BindTypes, Types', Fitting, Grows,
           \A x \in Binders : binder'[x].step = "issued" => binder'[x] = binder[x]
    PROVE  (\A x \in Binders : binder[x].step = "issued" => Known(binder[x].got, binder[x].ent))'
<1>1. Types /\ issued' \in Tokens
  BY DEF BindTypes, Types, WorldOK
<1>. QED
  BY <1>1, BinderTokens, KnownStays DEF Fitting, Known

LEMMA RowFits ==
    ASSUME BindTypes, Types', Fitting, Grows, row' \in {row, None}
    PROVE  (row # None => Known(row.token, row.ent))'
<1>1. Types /\ issued' \in Tokens /\ (row # None => row.token \in Tokens)
  BY DEF BindTypes, Types, WorldOK, StoreOK, Rows
<1>. QED
  BY <1>1, KnownStays DEF Fitting, Known

LEMMA BindWorkspaceFits ==
    ASSUME BindTypes, Types', Fitting, NEW x \in Binders, NEW e \in Enterprises,
           BindWorkspace(x, e)
    PROVE  Fitting'
<1>0. Types /\ binder \in [Binders -> BinderRec] /\ issued \in Nat /\ issued + 1 \in Tokens
  BY ZeroIssued DEF BindTypes, BindTypeOK, BinderRec, BinderSteps, BindWorkspace, Types, WorldOK
<1>1. /\ issued' = issued + 1 /\ live' = live \union {issued + 1} /\ row' = row
      /\ origin' = [origin EXCEPT ![issued + 1] = e] /\ UNCHANGED processVars
  BY DEF BindWorkspace
<1>2. Grows
  BY <1>0, <1>1, IssueGrows DEF Fitting
<1>3. origin'[issued + 1] = e
  BY <1>0, <1>1 DEF Types, WorldOK
<1>4. ASSUME NEW y \in Binders, binder'[y].step = "issued"
      PROVE  Known(binder[y].got, binder[y].ent)'
  <2>1. CASE binder'[y] = binder[y]
    <3>1. binder[y].got \in Tokens /\ Known(binder[y].got, binder[y].ent)
      BY <1>4, <2>1, BinderTokens DEF Fitting
    <3>2. issued' \in Tokens
      BY <1>0, <1>1
    <3>. QED
      BY <1>0, <1>2, <2>1, <3>1, <3>2, KnownStays DEF Known
  <2>2. CASE binder'[y].got = issued + 1 /\ binder'[y].ent = e
    BY <1>0, <1>1, <1>3, <2>2 DEF Known
  <2>3. \/ binder'[y] = binder[y]
        \/ binder'[y].got = issued + 1 /\ binder'[y].ent = e
    <3>1. CASE binder' = [binder EXCEPT ![x].step = "issued", ![x].ent = e, ![x].got = issued + 1]
      BY <1>0, <3>1 DEF BinderRec
    <3>2. CASE BinderAt(x, "claimed", "failed")
      BY <1>0, <1>4, <3>2 DEF BinderAt, BinderRec
    <3>. QED
      BY <3>1, <3>2 DEF BindWorkspace
  <2>. QED
    BY <2>1, <2>2, <2>3
<1>. QED
  BY <1>1, <1>2, <1>4, RowFits, RestFits

LEMMA CompleteFits ==
    ASSUME BindTypes, Types', Fitting, NEW x \in Binders, CompleteBind(x)
    PROVE  Fitting'
<1>0. Types /\ binder \in [Binders -> BinderRec] /\ live \subseteq 1..issued
  BY DEF BindTypes, BindTypeOK, BinderRec, BinderSteps, Fitting
<1>1. ASSUME ~\E e \in Enterprises : BindWorkspace(x, e) PROVE Fitting'
  <2>1. UNCHANGED <<live, issued, origin, processVars>>
    BY <1>1 DEF CompleteBind, Select, Claim, BindFails, StoreBinding, StoreBindingFails,
                ForgetPrevious, vars, backendVars, processVars, threadVars, shutVars
  <2>2. Grows
    BY <1>0, <2>1, SameGrows
  <2>3. \A y \in Binders : binder'[y].step = "issued" => binder'[y] = binder[y]
    <3>1. CASE (\E r \in Pendings : Select(x, r)) \/ BindFails(x) \/ ForgetPrevious(x)
      BY <1>0, <3>1 DEF Select, BindFails, ForgetPrevious, BinderAt, BinderRec
    <3>2. CASE Claim(x)
      BY <1>0, <3>2 DEF Claim, NoBind, BinderRec
    <3>3. CASE StoreBinding(x) \/ StoreBindingFails(x)
      BY <1>0, <3>3 DEF StoreBinding, StoreBindingFails, BinderRec
    <3>. QED
      BY <1>1, <3>1, <3>2, <3>3 DEF CompleteBind
  <2>4. (row # None => Known(row.token, row.ent))'
    <3>1. CASE StoreBinding(x)
      <4>1. /\ row'.token = binder[x].got /\ row'.ent = binder[x].ent
            /\ Known(binder[x].got, binder[x].ent)
        BY <3>1 DEF StoreBinding, Fitting
      <4>. QED
        BY <2>1, <4>1 DEF Known
    <3>2. CASE ~StoreBinding(x)
      <4>1. row' = row
        BY <1>1, <3>2 DEF CompleteBind, Select, Claim, BindFails, StoreBindingFails,
                          ForgetPrevious, vars
      <4>. QED
        BY <2>2, <4>1, RowFits
    <3>. QED
      BY <3>1, <3>2
  <2>. QED
    BY <2>1, <2>2, <2>3, <2>4, BindersFit, RestFits
<1>. QED
  BY <1>1, BindWorkspaceFits

LEMMA RestartFits == ASSUME BindTypes, Fitting, RestartAll PROVE Fitting'
<1>0. 0 <= issued /\ 0 \notin live /\ Types
  BY ZeroIssued DEF Fitting, BindTypes
<1>1. UNCHANGED <<row, seed, live, issued, origin>>
  BY DEF RestartAll, Restart, backendVars
<1>2. /\ \A o \in Creds : cred'[o].refresh = 0
      /\ \A a \in Actors : at'[a] = "idle" /\ mem'[a] = Blank
      /\ \A x \in Binders : binder'[x].step # "issued"
  BY BindingAssumption DEF RestartAll, Restart, Boot, Unused, NoBind
<1>3. Blank.rec = None /\ Blank.left = <<>> /\ Blank.show = 0
  BY DEF Blank
<1>4. (\A a \in Actors : FitThread(a))'
  BY <1>0, <1>1, <1>2, <1>3 DEF FitThread
<1>. QED
  BY <1>0, <1>1, <1>2, <1>4 DEF Fitting, Known, Usable

LEMMA BindFitting == ASSUME BindTypes, Types', Seats, FitInv, [BindNext]_bvars PROVE FitInv'
<1>. SUFFICES ASSUME Fitting, ~crossed' PROVE Fitting'
  <2>1. crossed => crossed'
    BY DEF BindNext, Rotating, Track, RestartAll, Disconnect, OpenBind, Decline,
       CompleteBind, Select, Claim, BindFails, BindWorkspace, StoreBinding, StoreBindingFails,
       ForgetPrevious, TearDown, ReadBinding, Unbind, UnbindFails, RevokeToken, ForgetCached,
       ghostVars, bvars
  <2>. QED
    BY <2>1 DEF FitInv
<1>0. Types /\ live \subseteq 1..issued /\ issued \in Nat
  BY ZeroIssued DEF BindTypes, Fitting
<1>1. CASE Rotating
  <2>1. Fits(row') /\ UNCHANGED binder
    BY <1>1 DEF Rotating, Track, bindVars
  <2>2. PICK a \in Actors : Begin(a) \/ Step(a) \/ KeyedStep(a)
    BY <1>1 DEF Rotating, Threads, Actors
  <2>. QED
    BY <2>1, <2>2, ThreadFitting
<1>2. CASE \/ Disconnect \/ UNCHANGED bvars \/ (\E r \in Pendings : OpenBind(r) \/ Decline(r))
           \/ (\E u \in Leavers : TearDown(u))
  <2>1. /\ UNCHANGED <<issued, origin, processVars, binder>> /\ row' \in {row, None}
        /\ live' \subseteq live
    BY <1>2 DEF Disconnect, bvars, bindVars, vars, OpenBind, Decline, TearDown, ReadBinding,
       Unbind, UnbindFails, RevokeToken, ForgetCached, processVars, backendVars, threadVars,
       shutVars
  <2>2. Grows
    BY <1>0, <2>1, SameGrows
  <2>. QED
    BY <2>1, <2>2, RowFits, BindersFit, RestFits
<1>3. ASSUME NEW x \in Binders, CompleteBind(x) PROVE Fitting'
  BY <1>3, CompleteFits
<1>. QED
  BY <1>1, <1>2, <1>3, RestartFits DEF BindNext

LEMMA InitFits == BindInit => FitInv
<1>. SUFFICES ASSUME BindInit PROVE Fitting
  BY DEF FitInv
<1>1. Types
  BY InitTyped DEF BindInit
<1>2. /\ seed = 0 /\ live = {1} /\ issued = 1
      /\ row # None => Known(row.token, row.ent)
      /\ \A o \in Creds : cred[o].refresh = 0
  BY BindingAssumption, TokenZero DEF BindInit, Init, Unused, Known
<1>3. /\ \A a \in Actors : at[a] = "idle" /\ mem[a] = Blank
      /\ \A x \in Binders : binder[x].step # "issued"
  BY DEF BindInit, Init, NoBind
<1>4. Blank.rec = None /\ Blank.left = <<>> /\ Blank.show = 0
  BY DEF Blank
<1>. QED
  BY <1>2, <1>3, <1>4 DEF Fitting, FitThread, Usable

\* A workspace bound anew is not refused its own credential, for any number of threads,
\* callbacks and teardowns, unless a rotation has been written across a binding
\* (_stored_refresh_token adopts the binding; _assert_expected_enterprise checks it).
THEOREM BindingAdopted == BindSpec => []AdoptsBinding
<1>1. BindInit => BindTypes /\ Seats /\ CalmInv /\ FitInv
  BY BindInitTyped, InitCalm, InitFits
<1>2. BindTypes /\ Seats /\ CalmInv /\ FitInv /\ [BindNext]_bvars
        => BindTypes' /\ Seats' /\ CalmInv' /\ FitInv'
  <2>. SUFFICES ASSUME BindTypes, Seats, CalmInv, FitInv, [BindNext]_bvars
                PROVE  BindTypes' /\ Seats' /\ CalmInv' /\ FitInv'
    OBVIOUS
  <2>1. BindTypes'
    BY BindStepTyped
  <2>2. Types'
    BY <2>1 DEF BindTypes
  <2>. QED
    BY <2>1, <2>2, BindCalm, BindFitting
<1>3. FitInv => AdoptsBinding
  BY DEF FitInv, Fitting, FitThread, Known, AdoptsBinding, Expected
<1>. QED
  BY <1>1, <1>2, <1>3, PTL DEF BindSpec

=================================================================================
