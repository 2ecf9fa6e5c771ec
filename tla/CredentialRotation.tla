-------------------------- MODULE CredentialRotation --------------------------
(***************************************************************************)
(* One principal's refresh credential: the renewals that rotate it, the    *)
(* store that keeps it, and everyone who may present it                    *)
(* (faultmaven/client.py, credentials.py, workspace_credentials.py).       *)
(*                                                                         *)
(* A refresh token is spent by being presented: the backend answers with   *)
(* its successor.  Turns renew when their access token has run out or is   *)
(* refused, the keepalive thread renews when the refresh token nears its   *)
(* end, another process (a replica, scripts/preflight.py) renews from the  *)
(* store, and shutdown closes the HTTP client and the store under them.    *)
(*                                                                         *)
(* The principal is a Slack workspace with a row in the binding store      *)
(* (Keyed), cached in the process as a _Credential object, or the          *)
(* process-wide default, which is one object for good.                     *)
(***************************************************************************)
EXTENDS Naturals, Sequences

CONSTANTS
    Turns, Keepers,     \* threads that send requests; the keepalive thread
    Creds,              \* _Credential objects
    Enterprises,        \* tenants a token can act for
    Keyed,              \* a workspace, or the process-wide default
    RequireBinding,     \* FAULTMAVEN_REQUIRE_WORKSPACE_BINDING
    None,               \* no row, no object, no holder
    MaxIssued,          \* bound: refresh tokens the backend ever issues
    MaxFaults           \* bound: failures and other processes' renewals

Actors == Turns \union Keepers
Tokens == 0..MaxIssued          \* in the order they are issued; 0 is no token

ASSUME RotationAssumption ==
    /\ Keyed \in BOOLEAN /\ RequireBinding \in BOOLEAN
    /\ MaxIssued \in Nat \ {0} /\ MaxFaults \in Nat
    /\ Turns \intersect Keepers = {} /\ Creds # {} /\ Enterprises # {}
    /\ None \notin Actors \union Creds \union Enterprises
    /\ None \notin [token : Nat, ent : Enterprises]
    /\ Keyed \/ \E o \in Creds : Creds = {o}

VARIABLES
    row,        \* the store: a record of token and enterprise, or None
    cred,       \* the fields of each _Credential
    lock,       \* renew_lock of each: who holds it
    cached,     \* _workspaces: the workspace's object (the default's, if not Keyed)
    at, mem,    \* where each thread is, and its locals
    seed,       \* bootstrap_refresh_token: the configured token
    closing,    \* shutdown: running, stopping, waiting, spent, closed or cut
    drain,      \* the objects close() waits for
    live,       \* backend: the refresh tokens it would accept
    issued,     \* backend: how many it has issued
    origin,     \* backend: the enterprise each acts for
    other,      \* a token another process has been given and not stored yet
    faults

threadVars  == <<at, mem>>
shutVars    == <<closing, drain>>
backendVars == <<live, issued, origin>>
vars == <<row, cred, lock, cached, threadVars, seed, shutVars, backendVars, other, faults>>

Blank == [obj |-> None, rec |-> None, seen |-> 0, intended |-> 0, show |-> 0,
          alternative |-> FALSE, left |-> <<>>, got |-> 0, use |-> 0, again |-> FALSE]
Unused == [refresh |-> 0, ent |-> None, access |-> 0, fresh |-> FALSE, unpersisted |-> FALSE]

Rows == [token : Tokens, ent : Enterprises] \union {None}
Exchanging == {"post", "alternatives", "minted", "persisted"}   \* inside _exchange, or about to be
Holding    == Exchanging \union {"retry"}                       \* with renew_lock held
Ended      == {"done", "failed", "default"}

TypeOK ==
    /\ row \in Rows
    /\ cred \in [Creds -> [refresh : Tokens, ent : Enterprises \union {None}, access : Tokens,
                           fresh : BOOLEAN, unpersisted : BOOLEAN]]
    /\ lock \in [Creds -> Actors \union {None}]
    /\ cached \in Creds \union {None}
    /\ at \in [Actors -> {"idle", "read", "insert", "look", "tick", "due", "queue", "wait", "use"}
                         \union Holding \union Ended]
    /\ \A t \in Turns : at[t] \notin {"tick", "due", "retry"}
    /\ \A k \in Keepers : at[k] \notin {"look", "use"} \union Ended
    /\ mem \in [Actors -> [obj : Creds \union {None}, rec : Rows, seen : Tokens,
                           intended : Tokens, show : Tokens, alternative : BOOLEAN,
                           left : Seq(Tokens), got : Tokens, use : Tokens, again : BOOLEAN]]
    /\ seed \in Tokens
    /\ closing \in {"running", "stopping", "waiting", "spent", "closed", "cut"}
    /\ drain \subseteq Creds
    /\ live \subseteq Tokens /\ issued \in Tokens
    /\ origin \in [Tokens -> Enterprises]
    /\ other \in Tokens
    /\ faults \in 0..MaxFaults

Init ==
    /\ \E e \in Enterprises :
        /\ row = [token |-> 1, ent |-> e]
        /\ origin = [t \in Tokens |-> e]
        /\ \/ Keyed /\ cached = None /\ seed = 0 /\ cred = [o \in Creds |-> Unused]
           \/ /\ ~Keyed /\ cached \in Creds /\ seed = 1
              /\ cred = [o \in Creds |-> [Unused EXCEPT !.refresh = 1]]
    /\ lock = [o \in Creds |-> None]
    /\ at = [a \in Actors |-> "idle"] /\ mem = [a \in Actors |-> Blank]
    /\ closing = "running" /\ drain = {}
    /\ live = {1} /\ issued = 1
    /\ other = 0 /\ faults = 0

Stopped   == closing # "running"
HttpOpen  == closing \notin {"closed", "cut"}
\* The default's store is closed with the client; a workspace's is not.
StoreOpen == Keyed \/ HttpOpen

Held(a)   == mem[a].obj
Mine(a)   == cred[mem[a].obj]
Goto(a, p, m) == at' = [at EXCEPT ![a] = p] /\ mem' = [mem EXCEPT ![a] = m]
\* A thread's request ends here: a turn's for good, the keepalive's until its next tick.
LeaveForGood(a, p) == Goto(a, p, Blank)     \* the tick's exception ends the loop (mutant)
Leave(a, p)   == Goto(a, IF a \in Keepers THEN "idle" ELSE p, Blank)
\* _renew returns access token t, or raises.
Return(a, t)  == IF a \in Keepers THEN Leave(a, "done")
                 ELSE Goto(a, "use", [Blank EXCEPT !.obj = Held(a), !.use = t,
                                                   !.again = mem[a].again])
ReleaseReturning(a) ==      \* an exception skips the release (mutant)
    lock' = [o \in Creds |-> IF lock[o] = a /\ at[a] \in {"persisted", "retry"} THEN None
                             ELSE lock[o]]
Release(a) == lock' = [o \in Creds |-> IF lock[o] = a THEN None ELSE lock[o]]
Fault      == faults < MaxFaults /\ faults' = faults + 1
\* A request that ends while close() waits has used up the wait's budget.
Waited     == closing' = IF closing = "waiting" THEN "spent" ELSE closing

\* Neither the cache nor a thread holds the object: the next miss builds there.
Spare(o) == cached # o /\ \A a \in Actors : Held(a) # o

-----------------------------------------------------------------------------
(* _credential_for: from the cache, or from the store outside the cache's lock. *)

Resolved(a, o) == Goto(a, IF a \in Keepers THEN "tick" ELSE "look",
                       [mem[a] EXCEPT !.obj = o, !.rec = None])

FirstLook(a) ==
    \/ cached # None /\ Resolved(a, cached)
    \/ cached = None /\ Goto(a, "read", mem[a])

Begin(t) ==
    /\ at[t] = "idle" /\ ~Stopped
    /\ FirstLook(t)
    /\ UNCHANGED <<row, cred, lock, cached, seed, shutVars, backendVars, other, faults>>

\* _live_credentials: what is bound, and what is cached.
Wake(k) ==
    /\ at[k] = "idle" /\ ~Stopped
    /\ row # None \/ cached # None
    /\ FirstLook(k)
    /\ UNCHANGED <<row, cred, lock, cached, seed, shutVars, backendVars, other, faults>>

ReadRow(a) ==
    /\ at[a] = "read"
    /\ Goto(a, "insert", [mem[a] EXCEPT !.rec = row])
    /\ UNCHANGED <<row, cred, lock, cached, seed, shutVars, backendVars, other, faults>>

Unchecked == FALSE                      \* the second look forgotten (mutant)
Recheck   == cached # None

Insert(a) ==
    /\ at[a] = "insert"
    /\ \/ Recheck /\ Resolved(a, cached) /\ UNCHANGED <<cached, cred>>
       \/ /\ ~Recheck /\ mem[a].rec = None
          /\ Leave(a, IF RequireBinding THEN "failed" ELSE "default")
          /\ UNCHANGED <<cached, cred>>
       \/ /\ ~Recheck /\ mem[a].rec # None
          /\ \E o \in Creds : Spare(o)
          /\ LET o == CHOOSE o \in Creds : Spare(o) IN
                /\ cached' = o /\ Resolved(a, o)
                /\ cred' = [cred EXCEPT ![o] = [Unused EXCEPT !.refresh = mem[a].rec.token,
                                                              !.ent = mem[a].rec.ent]]
    /\ UNCHANGED <<row, lock, seed, shutVars, backendVars, other, faults>>

-----------------------------------------------------------------------------
(* _access_token_via_refresh_grant, and _renew up to the exchange. *)

Look(a) ==
    /\ at[a] = "look"
    /\ IF Mine(a).access # 0 /\ Mine(a).fresh
       THEN Return(a, Mine(a).access)
       ELSE Goto(a, "queue", [mem[a] EXCEPT !.seen = Mine(a).access])
    /\ UNCHANGED <<row, cred, lock, cached, seed, shutVars, backendVars, other, faults>>

\* intended is read before the lock is asked for.
Queue(a) ==
    /\ at[a] = "queue"
    /\ Goto(a, "wait", [mem[a] EXCEPT !.intended = Mine(a).refresh])
    /\ UNCHANGED <<row, cred, lock, cached, seed, shutVars, backendVars, other, faults>>

\* Somebody renewed while this thread queued: their token serves both.
Overtaken(a) ==
    \/ Mine(a).refresh # mem[a].intended /\ Mine(a).access # 0
    \/ a \in Turns /\ Mine(a).access \notin {0, mem[a].seen} /\ Mine(a).fresh

LockIgnored(a) == TRUE                  \* no single flight (mutant)
LockFree(a)    == lock[Held(a)] = None

TakeLock(a) ==
    /\ at[a] = "wait" /\ LockFree(a)
    /\ IF Overtaken(a)
       THEN Return(a, Mine(a).access) /\ UNCHANGED lock
       ELSE /\ lock' = [lock EXCEPT ![Held(a)] = a]
            /\ Goto(a, "post", [Blank EXCEPT !.obj = Held(a), !.show = Mine(a).refresh,
                                              !.again = mem[a].again])
    /\ UNCHANGED <<row, cred, cached, seed, shutVars, backendVars, other, faults>>

-----------------------------------------------------------------------------
(* _exchange_refresh_token, with renew_lock held across the request. *)

\* The backend spends token t and issues its successor.
Spend(t) ==
    /\ t \in live /\ issued < MaxIssued
    /\ issued' = issued + 1
    /\ live' = (live \ {t}) \union {issued + 1}
    /\ origin' = [origin EXCEPT ![issued + 1] = origin[t]]

RotatePublishing(a) ==                  \* published before it is stored (mutant)
    /\ at[a] = "post" /\ HttpOpen
    /\ Spend(mem[a].show)
    /\ Goto(a, "minted", [mem[a] EXCEPT !.got = issued + 1])
    /\ cred' = [cred EXCEPT ![Held(a)].access = issued + 1, ![Held(a)].fresh = TRUE]
    /\ UNCHANGED <<row, lock, cached, seed, shutVars, other, faults>>

Rotate(a) ==
    /\ at[a] = "post" /\ HttpOpen
    /\ Spend(mem[a].show)
    /\ Goto(a, "minted", [mem[a] EXCEPT !.got = issued + 1, !.show = 0, !.left = <<>>,
                                        !.alternative = FALSE])
    /\ UNCHANGED <<row, cred, lock, cached, seed, shutVars, other, faults>>

\* The successor is lost on the way, or the answer cannot be read.
AnswerLost(a) ==
    /\ at[a] = "minted"
    /\ Leave(a, "failed") /\ Release(a) /\ Fault /\ Waited
    /\ UNCHANGED <<row, cred, cached, seed, drain, backendVars, other>>

\* The request never reached the backend, or it failed before spending the
\* token.  Past the bound on tokens the backend answers no more.
Unreached(a) ==
    /\ at[a] = "post"
    /\ Leave(a, "failed") /\ Release(a) /\ Waited
    /\ IF HttpOpen /\ issued < MaxIssued THEN Fault ELSE UNCHANGED faults
    /\ UNCHANGED <<row, cred, cached, seed, drain, backendVars, other>>

\* 400 or 401: the token is not live.  The first refusal looks for another.
Refused(a) ==
    /\ at[a] = "post" /\ HttpOpen /\ mem[a].show \notin live
    /\ Waited
    /\ \/ /\ ~mem[a].alternative
          /\ Goto(a, "alternatives", [mem[a] EXCEPT !.alternative = TRUE])
          /\ UNCHANGED lock
       \/ /\ mem[a].alternative /\ mem[a].left # <<>>
          /\ Goto(a, "post", [mem[a] EXCEPT !.show = Head(mem[a].left), !.left = Tail(@)])
          /\ UNCHANGED lock
       \/ /\ mem[a].alternative /\ mem[a].left = <<>>
          /\ Leave(a, "failed") /\ Release(a)
    /\ UNCHANGED <<row, cred, cached, seed, drain, backendVars, other, faults>>

\* _alternative_credentials: the store's token (reconciling the binding on the
\* way, _stored_refresh_token), then the configured seed.
Unless(t, spent)     == IF t \in spent THEN <<>> ELSE <<t>>
Candidates(a, stored) ==
    Unless(stored, {0, Mine(a).refresh}) \o Unless(seed, {0, Mine(a).refresh, stored})

Unadopted(a, e) == Mine(a).ent          \* the cached binding fought for (mutant)
Adopted(a, e)   == e

Alternatives(a) ==
    /\ at[a] = "alternatives"
    /\ \E readable \in {TRUE, FALSE} :
        LET stored == IF readable /\ row # None THEN row.token ELSE 0
            left   == Candidates(a, stored) IN
        /\ IF readable THEN StoreOpen /\ UNCHANGED faults
           ELSE IF StoreOpen THEN Fault ELSE UNCHANGED faults
        /\ cached' = IF readable /\ row = None THEN None ELSE cached
        /\ cred' = IF readable /\ row # None /\ Keyed
                   THEN [cred EXCEPT ![Held(a)].ent = Adopted(a, row.ent)] ELSE cred
        /\ IF left = <<>>
           THEN Leave(a, "failed") /\ Release(a)
           ELSE /\ Goto(a, "post", [mem[a] EXCEPT !.show = Head(left), !.left = Tail(left)])
                /\ UNCHANGED lock
    /\ UNCHANGED <<row, seed, shutVars, backendVars, other>>

-----------------------------------------------------------------------------
(* The answer: checked, stored, and only then used. *)

\* _assert_expected_enterprise: a workspace's token must act for its enterprise.
Expected(a) == Keyed => origin[mem[a].got] = Mine(a).ent

WrongEnterprise(a) ==
    /\ at[a] = "minted" /\ ~Expected(a)
    /\ Leave(a, "failed") /\ Release(a)
    /\ UNCHANGED <<row, cred, cached, seed, shutVars, backendVars, other, faults>>

\* _persist: an UPDATE of the row, which must be there.
StoredUncommitted(t) == row # None /\ StoreOpen /\ UNCHANGED row      \* (mutant)
StoredReviving(t) ==                    \* an upsert, not an UPDATE (mutant)
    /\ StoreOpen
    /\ row' = IF row = None THEN [token |-> t, ent |-> origin[t]] ELSE [row EXCEPT !.token = t]
Stored(t) == row # None /\ StoreOpen /\ row' = [row EXCEPT !.token = t]

Persist(a) ==
    /\ at[a] = "minted" /\ Expected(a)
    /\ Stored(mem[a].got)
    /\ cred' = [cred EXCEPT ![Held(a)].unpersisted = FALSE]
    /\ Goto(a, "persisted", mem[a])
    /\ UNCHANGED <<lock, cached, seed, shutVars, backendVars, other, faults>>

\* The row is gone: the workspace was unbound while this process held it.
PersistUnbound(a) ==
    /\ at[a] = "minted" /\ Expected(a) /\ row = None
    /\ cached' = None
    /\ Leave(a, "failed") /\ Release(a)
    /\ UNCHANGED <<row, cred, seed, shutVars, backendVars, other, faults>>

\* The write failed: the token is kept, and written again later.
PersistFailsUnmarked(a) ==              \* unpersisted left FALSE (mutant)
    /\ at[a] = "minted" /\ Expected(a) /\ Fault
    /\ Goto(a, "persisted", mem[a])
    /\ UNCHANGED <<row, cred, lock, cached, seed, shutVars, backendVars, other>>

PersistFails(a) ==
    /\ at[a] = "minted" /\ Expected(a)
    /\ IF StoreOpen THEN Fault ELSE UNCHANGED faults
    /\ cred' = [cred EXCEPT ![Held(a)].unpersisted = TRUE]
    /\ Goto(a, "persisted", mem[a])
    /\ UNCHANGED <<row, lock, cached, seed, shutVars, backendVars, other>>

\* Under token_lock; then _renew returns and releases renew_lock.
Publish(a) ==
    /\ at[a] = "persisted"
    /\ cred' = [cred EXCEPT ![Held(a)].refresh = mem[a].got, ![Held(a)].access = mem[a].got,
                            ![Held(a)].fresh = TRUE]
    /\ Return(a, mem[a].got) /\ Release(a) /\ Waited
    /\ UNCHANGED <<row, cached, seed, drain, backendVars, other, faults>>

-----------------------------------------------------------------------------
(* The request the token was for, with one re-authentication on a 401. *)

Served(a) ==
    /\ at[a] = "use"
    /\ Goto(a, "done", Blank)
    /\ UNCHANGED <<row, cred, lock, cached, seed, shutVars, backendVars, other, faults>>

Unauthorized(a) ==
    /\ at[a] = "use" /\ ~mem[a].again /\ Fault
    /\ Goto(a, "queue", [mem[a] EXCEPT !.seen = mem[a].use, !.use = 0, !.again = TRUE])
    /\ UNCHANGED <<row, cred, lock, cached, seed, shutVars, backendVars, other>>

-----------------------------------------------------------------------------
(* _keepalive_loop: the pending write first, then the renewal that slides the *)
(* refresh window.                                                            *)

\* _retry_pending_persist takes the lock only if it is free.
CanRetryHeld(k) == Mine(k).unpersisted      \* acquire's answer ignored (mutant)
CanRetry(k) == Mine(k).unpersisted /\ lock[Held(k)] = None

RetryTake(k) ==
    /\ at[k] = "tick" /\ CanRetry(k)
    /\ lock' = [lock EXCEPT ![Held(k)] = k]
    /\ Goto(k, "retry", [mem[k] EXCEPT !.show = Mine(k).refresh])
    /\ UNCHANGED <<row, cred, cached, seed, shutVars, backendVars, other, faults>>

RetrySkip(k) ==
    /\ at[k] = "tick" /\ ~CanRetry(k)
    /\ Goto(k, "due", mem[k])
    /\ UNCHANGED <<row, cred, lock, cached, seed, shutVars, backendVars, other, faults>>

Rewrite(k) ==
    /\ at[k] = "retry"
    /\ \/ /\ Stored(mem[k].show) /\ UNCHANGED faults
          /\ cred' = [cred EXCEPT ![Held(k)].unpersisted = FALSE]
       \/ /\ IF StoreOpen /\ row # None THEN Fault ELSE UNCHANGED faults
          /\ UNCHANGED <<row, cred>>
    /\ Goto(k, "due", [mem[k] EXCEPT !.show = 0]) /\ Release(k)
    /\ UNCHANGED <<cached, seed, shutVars, backendVars, other>>

\* _refresh_credential_is_due reads a clock; a stopping process renews nothing.
Due(k) ==
    /\ at[k] = "due"
    /\ \/ Leave(k, "done")
       \/ ~Stopped /\ Goto(k, "queue", mem[k])
    /\ UNCHANGED <<row, cred, lock, cached, seed, shutVars, backendVars, other, faults>>

-----------------------------------------------------------------------------
(* Clocks, other processes, restarts. *)

Expire(o) ==
    /\ cred[o].fresh /\ ~Spare(o)
    /\ cred' = [cred EXCEPT ![o].fresh = FALSE]
    /\ UNCHANGED <<row, lock, cached, threadVars, seed, shutVars, backendVars, other, faults>>

\* Another process presents the stored token, and stores what it is given or dies.
OtherRenews ==
    /\ other = 0 /\ row # None /\ Fault
    /\ Spend(row.token)
    /\ other' = issued + 1
    /\ UNCHANGED <<row, cred, lock, cached, threadVars, seed, shutVars>>

OtherStores ==
    /\ other # 0
    /\ row' = IF row = None THEN None ELSE [row EXCEPT !.token = other]
    /\ other' = 0
    /\ UNCHANGED <<cred, lock, cached, threadVars, seed, shutVars, backendVars, faults>>

OtherDies ==
    /\ other # 0 /\ Fault
    /\ other' = 0
    /\ UNCHANGED <<row, cred, lock, cached, threadVars, seed, shutVars, backendVars>>

\* The process dies, or is replaced, and boots from what outlives it: the store,
\* or the configured token where the store has none.
Boot ==
    /\ cred' = [o \in Creds |-> IF Keyed THEN Unused
                                ELSE [Unused EXCEPT !.refresh = row.token]]
    /\ cached' = IF Keyed THEN None ELSE cached
    /\ lock' = [o \in Creds |-> None]
    /\ at' = [a \in Actors |-> "idle"] /\ mem' = [a \in Actors |-> Blank]
    /\ closing' = "running" /\ drain' = {}

Restart ==
    /\ Boot /\ Fault
    /\ UNCHANGED <<row, seed, backendVars, other>>

\* Nobody holds a live token: the lockout an operator has to end.
Reachable == {row.token : r \in {row} \ {None}} \union {seed, other}
             \union {cred[o].refresh : o \in Creds} \union {mem[a].got : a \in Actors}
LockedOut == live \intersect Reachable = {}

\* The documented recovery of the default: provision a new seed, and restart.
Reprovision ==
    /\ ~Keyed /\ LockedOut /\ issued < MaxIssued
    /\ issued' = issued + 1 /\ live' = {issued + 1} /\ seed' = issued + 1
    /\ Boot
    /\ UNCHANGED <<row, origin, other, faults>>

-----------------------------------------------------------------------------
(* Shutdown: begin_shutdown, then close, which waits for every renew_lock. *)

BeginShutdown ==
    /\ closing = "running" /\ closing' = "stopping"
    /\ UNCHANGED <<row, cred, lock, cached, threadVars, seed, drain, backendVars, other, faults>>

CloseWaits ==
    /\ closing = "stopping" /\ closing' = "waiting"
    /\ drain' = {cached} \ {None}
    /\ UNCHANGED <<row, cred, lock, cached, threadVars, seed, backendVars, other, faults>>

DrainedAtOnce == TRUE                       \* (mutant)
Drained       == \A o \in drain : lock[o] = None

\* All waited for are idle: the HTTP client and the store are closed with their
\* locks held.  Else the wait's budget, one request's timeout, runs out first.
Close ==
    /\ closing \in {"waiting", "spent"}
    /\ \/ Drained /\ closing' = "closed"
       \/ closing = "spent" /\ ~Drained /\ closing' = "cut"
    /\ UNCHANGED <<row, cred, lock, cached, threadVars, seed, drain, backendVars, other, faults>>

-----------------------------------------------------------------------------
Exchange(a) ==
    \/ Rotate(a) \/ AnswerLost(a) \/ Unreached(a) \/ Refused(a) \/ Alternatives(a)
    \/ Persist(a) \/ PersistFails(a) \/ Publish(a)

\* What only a workspace's credential meets: a cold cache, a row unbound or bound anew.
KeyedStep(a) == ReadRow(a) \/ Insert(a) \/ WrongEnterprise(a) \/ PersistUnbound(a)

Step(a) ==
    \/ Queue(a) \/ TakeLock(a) \/ Exchange(a)
    \/ a \in Turns /\ (Look(a) \/ Served(a) \/ Unauthorized(a))
    \/ a \in Keepers /\ (Wake(a) \/ RetryTake(a) \/ RetrySkip(a) \/ Rewrite(a) \/ Due(a))

Threads == (\E t \in Turns : Begin(t)) \/ (\E a \in Actors : Step(a))
Other   == OtherRenews \/ OtherStores \/ OtherDies

\* The default's; WorkspaceBinding adds KeyedStep and what binds and unbinds.
Next ==
    \/ Threads \/ Other
    \/ \E o \in Creds : Expire(o)
    \/ BeginShutdown \/ CloseWaits \/ Close
    \/ Restart \/ Reprovision

Spec == Init /\ [][Next]_vars

\* Every thread's step is taken and the keepalive keeps ticking; a turn that waits
\* for a renew_lock that keeps coming free gets it: the keepalive, the only thread
\* that comes back for it, sleeps an hour between (_KEEPALIVE_INTERVAL_SECONDS).
Fairness ==
    /\ \A t \in Turns : WF_vars(Step(t)) /\ SF_vars(TakeLock(t))
    /\ \A k \in Keepers : WF_vars(Step(k))

FairSpec == Spec /\ Fairness

-----------------------------------------------------------------------------
(* Properties of the process-wide default. *)

\* One renewal at a time: a thread presents a spent token only when the process
\* has lost the live one, never while an object holds it or another thread has
\* just been given it (the renew_lock across the exchange, intended).
PresentsLive ==
    \A a \in Actors : at[a] = "post" /\ mem[a].show \notin live =>
        /\ \A o \in Creds : cred[o].refresh \notin live
        /\ \A b \in Actors : mem[b].got \notin live

\* No write puts an older token over a newer one: a renewal's, the keepalive's
\* late retry (#96) and another process's land in the order of issue.
StoreAdvances ==
    [][row # None /\ row' # None /\ row'.token # row.token => row'.token > row.token]_vars

\* Persist before use: a request rides on an access token only once the refresh
\* token that came with it, or a later one, is stored or known to be unstored.
UsedMeansStored ==
    \A t \in Turns : at[t] = "use" =>
        row.token >= mem[t].use \/ \E o \in Creds : cred[o].unpersisted

\* close() outlasts the renewal it finds: unless a second request was made under
\* the lock while it waited, nothing closes between a rotation and its write.
CloseOutlastsRenewal ==
    closing = "closed" =>
        \A a \in Actors : at[a] \notin {"alternatives", "minted", "persisted"}

\* A write that failed is made good while the keepalive runs.
StoreCatchesUp ==
    \A o \in Creds :
        (row.token < cred[o].refresh) ~> (row.token >= cred[o].refresh \/ Stopped)

\* No thread waits for a renewal for ever, whatever its holder met.
TurnsEnd == \A t \in Turns : (at[t] # "idle") ~> (at[t] \in Ended \union {"idle"})

\* Where the live token is, and so who can renew.
Where ==
    IF other # 0 /\ other \in live THEN "elsewhere"
    ELSE IF row.token \in live THEN "stored"
    ELSE IF seed \in live THEN "seed"
    ELSE IF \E a \in Actors : at[a] = "minted" /\ mem[a].got \in live THEN "inflight"
    ELSE IF live \intersect Reachable # {} THEN "memory"
    ELSE "lost"

Custody == INSTANCE TokenCustody WITH where <- Where, harm <- faults, cut <- closing = "cut"

\* Rotation keeps custody of the live token: what is stored stays recoverable, and
\* the live token leaves safe hands only by a failure (persist before use, the
\* store's token as the first alternative, the seed as the second).
ImplementsTokenCustody == Custody!Spec

=============================================================================
