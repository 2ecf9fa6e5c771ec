--------------------------- MODULE WorkspaceBinding ---------------------------
(***************************************************************************)
(* A Slack workspace's binding to a FaultMaven enterprise, made by install *)
(* callbacks (web.py, pending_binds.py, binding.py), ended by uninstall    *)
(* events (listeners/lifecycle.py), and used and rotated all the while by  *)
(* the threads of CredentialRotation.                                      *)
(***************************************************************************)
EXTENDS CredentialRotation

CONSTANTS
    Binders,    \* callback requests: an admin back from FaultMaven's consent
    Leavers,    \* app_uninstalled and tokens_revoked events
    Pendings    \* pending binds, one per completed Slack install

ASSUME BindingAssumption == Keyed /\ None \notin Pendings

VARIABLES
    pend,       \* the pending binds' rows
    binder,     \* complete_bind and its caller: step, record, tenant, token issued
    leaver,     \* _forget_binding: step, and the row it read
    boundTo,    \* backend: the enterprise the workspace is bound in
    gone,       \* a teardown has finished and no bind has followed it
    late,       \* turns that began after that
    calm,       \* nothing has been bound or torn down since this process began
    crossed     \* a rotation has been written over another binding's row

bindVars == <<pend, binder, leaver, boundTo>>
bvars    == <<vars, bindVars, gone, late, calm, crossed>>

NoBind  == [step |-> "idle", rec |-> None, ent |-> None, got |-> 0]
NoLeave == [step |-> "idle", rec |-> None]

BindTypeOK ==
    /\ pend \in [Pendings -> {"none", "open", "consumed", "declined", "purged"}]
    /\ binder \in [Binders -> [step : {"idle", "selected", "claimed", "issued", "stored",
                                       "bound", "failed", "rejected"},
                               rec : Pendings \union {None},
                               ent : Enterprises \union {None}, got : Tokens]]
    /\ leaver \in [Leavers -> [step : {"idle", "read", "unbound", "revoked", "ended", "gaveup"},
                               rec : Rows]]
    /\ boundTo \in Enterprises \union {None}
    /\ gone \in BOOLEAN /\ late \subseteq Turns /\ calm \in BOOLEAN /\ crossed \in BOOLEAN

BindInit ==
    /\ Init
    /\ pend = [r \in Pendings |-> "none"]
    /\ binder = [x \in Binders |-> NoBind] /\ leaver = [u \in Leavers |-> NoLeave]
    /\ boundTo = row.ent
    /\ gone = FALSE /\ late = {} /\ calm = TRUE /\ crossed = FALSE

processVars == <<cred, lock, threadVars, seed, shutVars, other>>
ghostVars   == <<gone, late, calm, crossed>>

BinderAt(x, from, to) == binder[x].step = from /\ binder' = [binder EXCEPT ![x].step = to]

-----------------------------------------------------------------------------
(* The install page opens a pending bind; the callback claims it. *)

Opened(r) == pend[r] = "none" /\ pend' = [pend EXCEPT ![r] = "open"]

\* The install of a Slack admin; any other installer is offered no link.
OpenBind(r) ==
    /\ Opened(r)
    /\ UNCHANGED <<vars, binder, leaver, boundTo, ghostVars>>

\* consume: the row named by both halves is read, and then claimed.  A row past its
\* TTL is refused like one that is spent.
Select(x, r) ==
    /\ binder[x].step = "idle" /\ pend[r] # "none"
    /\ \/ /\ pend[r] = "open"
          /\ binder' = [binder EXCEPT ![x].rec = r, ![x].step = "selected"]
       \/ BinderAt(x, "idle", "rejected")
    /\ UNCHANGED <<vars, pend, leaver, boundTo, ghostVars>>

\* Another callback for the same record, without a code: the admin declined.
Decline(r) ==
    /\ pend[r] = "open"
    /\ pend' = [pend EXCEPT ![r] = "declined"]
    /\ UNCHANGED <<vars, binder, leaver, boundTo, ghostVars>>

RowCountIgnored(r) == TRUE                               \* (mutant)
Claimable(r)       == pend[r] = "open"

Claim(x) ==
    LET r == binder[x].rec IN
    /\ binder[x].step = "selected"
    /\ pend' = [pend EXCEPT ![r] = IF @ = "open" THEN "consumed" ELSE @]
    /\ binder' = [binder EXCEPT ![x] = IF Claimable(r) THEN [@ EXCEPT !.step = "claimed"]
                                       ELSE [NoBind EXCEPT !.step = "rejected"]]
    /\ UNCHANGED <<vars, leaver, boundTo, ghostVars>>

-----------------------------------------------------------------------------
(* complete_bind; its revocation of the admin's own tokens touches nothing here. *)

\* The admin declined; the code's exchange or the bind was refused (403, 409
\* where it is bound elsewhere, 5xx) or never got there; no access token came.
BindFails(x) ==
    /\ BinderAt(x, "claimed", "failed")
    /\ UNCHANGED <<vars, pend, leaver, boundTo, ghostVars>>

\* exchange_authorization_code gives the tokens of an admin of enterprise e.  Then
\* bind_workspace: at the backend the workspace's account is found or created and
\* its credential issued, once; here the answer arrives, or that credential is lost.
BindWorkspace(x, e) ==
    /\ binder[x].step = "claimed"
    /\ boundTo \in {None, e} /\ issued < MaxIssued
    /\ boundTo' = e
    /\ issued' = issued + 1 /\ live' = live \union {issued + 1}
    /\ origin' = [origin EXCEPT ![issued + 1] = e]
    /\ \/ UNCHANGED faults
          /\ binder' = [binder EXCEPT ![x].step = "issued", ![x].ent = e, ![x].got = issued + 1]
       \/ Fault /\ BinderAt(x, "claimed", "failed")
    /\ UNCHANGED <<row, cached, processVars, pend, leaver, ghostVars>>

\* WorkspaceCredentialStore.bind: DELETE and INSERT in one transaction.
StoreBinding(x) ==
    /\ binder[x].step = "issued"
    /\ binder' = [binder EXCEPT ![x].step = "stored", ![x].ent = None, ![x].got = 0]
    /\ row' = [token |-> binder[x].got, ent |-> binder[x].ent]
    /\ gone' = FALSE /\ late' = {} /\ calm' = FALSE
    /\ UNCHANGED <<cached, processVars, backendVars, faults, pend, leaver, boundTo, crossed>>

StoreBindingFails(x) ==
    /\ binder[x].step = "issued" /\ Fault
    /\ binder' = [binder EXCEPT ![x].step = "failed", ![x].ent = None, ![x].got = 0]
    /\ UNCHANGED <<row, cached, processVars, backendVars, pend, leaver, boundTo, ghostVars>>

ForgetPrevious(x) ==
    /\ BinderAt(x, "stored", "bound")
    /\ cached' = None
    /\ UNCHANGED <<row, processVars, backendVars, faults, pend, leaver, boundTo, ghostVars>>

-----------------------------------------------------------------------------
(* _forget_binding: read, unbind, revoke, forget. *)

LeaverAt(u, from, to) == leaver[u].step = from /\ leaver' = [leaver EXCEPT ![u].step = to]

ReadBinding(u) ==
    /\ leaver[u].step = "idle"
    /\ \/ leaver' = [leaver EXCEPT ![u] = [step |-> "read", rec |-> row]] /\ UNCHANGED faults
       \/ LeaverAt(u, "idle", "read") /\ Fault
    /\ UNCHANGED <<row, cached, processVars, backendVars, pend, binder, boundTo, ghostVars>>

Unbind(u) ==
    /\ LeaverAt(u, "read", "unbound")
    /\ row' = None /\ calm' = FALSE
    /\ UNCHANGED <<cached, processVars, backendVars, faults, pend, binder, boundTo,
                   gone, late, crossed>>

UnbindFails(u) ==
    /\ LeaverAt(u, "read", "gaveup") /\ Fault
    /\ UNCHANGED <<row, cached, processVars, backendVars, pend, binder, boundTo, ghostVars>>

RevokeToken(u) ==
    /\ leaver[u].step = "unbound"
    /\ leaver' = [leaver EXCEPT ![u] = [step |-> "revoked", rec |-> None]]
    /\ \/ /\ leaver[u].rec # None /\ UNCHANGED faults
          /\ live' = live \ {leaver[u].rec.token}
       \/ leaver[u].rec = None /\ UNCHANGED <<live, faults>>
       \/ Fault /\ UNCHANGED live
    /\ UNCHANGED <<row, cached, processVars, issued, origin, pend, binder, boundTo, ghostVars>>

ForgetCached(u) ==
    /\ LeaverAt(u, "revoked", "ended")
    /\ cached' = None
    /\ gone' = (row = None)
    /\ UNCHANGED <<row, processVars, backendVars, faults, pend, binder, boundTo, late,
                   calm, crossed>>

-----------------------------------------------------------------------------
\* An administrator disconnects the workspace in FaultMaven, with or without
\* revoking its account's credentials.
Disconnect ==
    /\ boundTo # None /\ boundTo' = None
    /\ live' \in {live, {}}
    /\ UNCHANGED <<row, cached, processVars, issued, origin, faults, pend, binder,
                   leaver, ghostVars>>

\* A stored token acts for the enterprise stored beside it.
Fits(r) == r # None => origin'[r.token] = r.ent

\* Which turns begin after a teardown; whether a write has missed its binding.
Track ==
    /\ crossed' = (crossed \/ ~Fits(row'))
    /\ late' = {t \in Turns : /\ at'[t] \notin Ended \union {"idle"}
                           /\ (t \in late \/ (at[t] = "idle" /\ gone))}

\* Shutdown, the clock and other processes' renewals are CredentialRotation's: a turn
\* whose access token has run out renews as one whose token is refused.
Rotating ==
    /\ Threads \/ (\E a \in Actors : KeyedStep(a))
    /\ Track
    /\ UNCHANGED <<bindVars, gone, calm>>

\* purge_expired: a process that starts deletes what is past its TTL, spent or not.
Purge == \E old \in SUBSET {r \in Pendings : pend[r] # "none"} :
    pend' = [r \in Pendings |-> IF r \in old THEN "purged" ELSE pend[r]]

RestartAll ==
    /\ Restart /\ Purge
    /\ binder' = [x \in Binders |-> IF binder[x].step = "idle" THEN NoBind
                                    ELSE [NoBind EXCEPT !.step = "failed"]]
    /\ leaver' = [u \in Leavers |-> IF leaver[u].step = "idle" THEN NoLeave
                                    ELSE [NoLeave EXCEPT !.step = "gaveup"]]
    /\ late' = {} /\ calm' = TRUE
    /\ UNCHANGED <<boundTo, gone, crossed>>

CompleteBind(x) ==
    \/ \E r \in Pendings : Select(x, r)
    \/ Claim(x) \/ BindFails(x) \/ (\E e \in Enterprises : BindWorkspace(x, e))
    \/ StoreBinding(x) \/ StoreBindingFails(x) \/ ForgetPrevious(x)

TearDown(u) ==
    ReadBinding(u) \/ Unbind(u) \/ UnbindFails(u) \/ RevokeToken(u) \/ ForgetCached(u)

BindNext ==
    \/ Rotating \/ RestartAll \/ Disconnect
    \/ \E r \in Pendings : OpenBind(r) \/ Decline(r)
    \/ \E x \in Binders : CompleteBind(x)
    \/ \E u \in Leavers : TearDown(u)

BindSpec == BindInit /\ [][BindNext]_bvars

-----------------------------------------------------------------------------
(* Properties. *)

\* A pending bind is spent once: of callbacks racing on it (a reload, a second
\* tab), one gets past consume, and a link the admin has declined binds nothing.
SpentOnce ==
    \A x, y \in Binders :
        binder[x].step \notin {"idle", "selected", "rejected"} /\ binder[x].rec # None =>
            /\ pend[binder[x].rec] = "consumed"
            /\ binder[y].rec = binder[x].rec /\ x # y => binder[y].step = "selected"

\* Threads racing on a cold workspace share one _Credential, and so one
\* renew_lock (_credential_for re-checks the cache under its lock).
OneCredential ==
    calm => \A a, b \in Actors : Held(a) # None /\ Held(b) # None => Held(a) = Held(b)

\* A turn that begins once a workspace has been torn down is served only where
\* the store could not be written to say so (the UPDATE-only put_refresh_token).
UnbindEndsService ==
    \A t \in late : at[t] = "use" => Mine(t).unpersisted

\* A workspace bound anew is not refused its own credential: a cached _Credential
\* adopts the stored binding with the stored token (_stored_refresh_token), so the
\* enterprise check fails only on a row a rotation has been written across.
AdoptsBinding ==
    \A a \in Actors : at[a] = "minted" /\ ~Expected(a) => crossed

\* The renew_lock is said to keep an older token's write from landing after a newer
\* one's; so the row's token would always act for the row's enterprise.
StoredTokenFits == row # None => origin[row.token] = row.ent

=============================================================================
