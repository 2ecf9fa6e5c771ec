------------------------------ MODULE Redelivery ------------------------------
(***************************************************************************)
(* Slack delivers an interaction more than once: the in-memory Dedup that  *)
(* drops what it remembers, and the Idempotency-Key that makes what gets   *)
(* past it, in this process or the next, the same turn to the backend      *)
(* (Dedup, _turn_key in listeners/_turn.py, and the listeners).            *)
(*                                                                         *)
(* One thread; of a turn, only its bytes and its receipt (the rest is      *)
(* ThreadTurns').  Nothing here forgets a mapping once written.            *)
(***************************************************************************)
EXTENDS FiniteSets, Naturals, Sequences

CONSTANTS
    Events,         \* messages, clicks and shortcuts
    Stamps,         \* Slack's identities (ts, action_ts, trigger_id, view id); None is none
    Bare,           \* events that say nothing, or have a discussion before them
    Kinds,          \* the surfaces in play
    Workers,        \* handlers of deliveries
    None,           \* no identity (a shortcut's only), no event, no row
    MaxSeen,        \* Dedup's maxsize
    MaxDeliveries,  \* bound: deliveries
    MaxRestarts     \* bound: restarts of the process

AllKinds == {"mention", "reply", "panel", "shortcut", "click", "box"}

ASSUME RedeliveryAssumption ==
    /\ Kinds \subseteq AllKinds /\ Bare \subseteq Events
    /\ MaxSeen \in Nat \ {0} /\ MaxDeliveries \in Nat /\ MaxRestarts \in Nat
    /\ None \notin Events

VARIABLES
    kind, stamp,    \* what each event is
    row,            \* the thread's row: None, "mapped" or "seeded"
    busy,           \* the thread's gate
    seen,           \* each surface's Dedup, oldest key first
    job,            \* each handler: its step, its event, its turn's key and bytes
    running,        \* backend: turns under way
    receipts,       \* backend: committed turns, by key
    deliveries, restarts,
    delivered, since    \* since this process began: events delivered; keys after each

event == <<kind, stamp>>
vars == <<event, row, busy, seen, job, running, receipts, deliveries, restarts,
          delivered, since>>

\* The surfaces with a Dedup.  The assistant's, the shortcut's and each of events.py's
\* two are their own; clicks and data boxes have none.
Deduped == {"mention", "reply", "panel", "shortcut"}

Idle == [at |-> "idle", event |-> None, key |-> None, bytes |-> None]

-----------------------------------------------------------------------------
(* _turn_key. *)

\* Slack's messages share one clock; clicks another, and so on.
Source(e) == IF kind[e] \in {"mention", "reply", "panel"} THEN "message" ELSE kind[e]

NamespaceOfAll(e) == "msg"                       \* one namespace for all (mutant)
Namespace(e) ==
    CASE Source(e) = "message" -> "msg"
      [] kind[e] = "click"    -> "click"
      [] kind[e] = "shortcut" -> "shortcut"
      [] kind[e] = "box"      -> "view"

\* Without an identity the key is a random one.
turn_key(e) == IF stamp[e] = None THEN <<"one-off", deliveries>>
               ELSE <<Namespace(e), stamp[e]>>

Init ==
    /\ kind \in [Events -> Kinds]
    /\ stamp \in [Events -> Stamps]
    /\ \A e, f \in Events :
           /\ stamp[e] = None => kind[e] = "shortcut"
           /\ e # f /\ stamp[e] # None /\ stamp[e] = stamp[f] => Source(e) # Source(f)
    /\ row \in {None, "seeded"}
    /\ busy = FALSE /\ seen = [s \in Deduped |-> <<>>]
    /\ job = [w \in Workers |-> Idle]
    /\ running = {} /\ receipts = {}
    /\ deliveries = 0 /\ restarts = 0
    /\ delivered = {} /\ since = [e \in Events |-> {}]

-----------------------------------------------------------------------------
(* Dedup.is_duplicate: atomic, and least recently used out first. *)

Known(s, k) == k # None /\ \E i \in DOMAIN seen[s] : seen[s][i] = k

Bounded(s) == IF Len(s) > MaxSeen THEN Tail(s) ELSE s

RecordedFirst(s, k) ==                           \* never moved to the end (mutant)
    IF k = None \/ Known(s, k) THEN seen[s] ELSE Bounded(Append(seen[s], k))
Without(s, k) ==
    LET at == CHOOSE i \in DOMAIN seen[s] : seen[s][i] = k IN
    [i \in 1 .. Len(seen[s]) - 1 |-> seen[s][IF i < at THEN i ELSE i + 1]]
Recorded(s, k) ==
    IF k = None THEN seen[s]
    ELSE IF Known(s, k) THEN Append(Without(s, k), k)
    ELSE Bounded(Append(seen[s], k))

\* The rest of the process remembers nothing of the delivery.
Noted(e) ==
    /\ delivered' = delivered \union {e}
    /\ since' = [f \in Events |->
                    IF f = e THEN {}
                    ELSE IF kind[f] = kind[e] THEN since[f] \union ({stamp[e]} \ {None})
                    ELSE since[f]]

Set(w, j) == job' = [job EXCEPT ![w] = j]
Accept(w, e) == Set(w, [at |-> "accepted", event |-> e, key |-> turn_key(e), bytes |-> None])

-----------------------------------------------------------------------------
(* A delivery, up to the turn. *)

\* A reply on an unmapped, busy thread is marked skipped there and then.
Deliver(w, e) ==
    /\ job[w] = Idle /\ deliveries < MaxDeliveries
    /\ deliveries' = deliveries + 1
    /\ kind[e] \in {"click", "box"} => row # None
    /\ IF kind[e] \in Deduped
       THEN /\ seen' = [seen EXCEPT ![kind[e]] = Recorded(kind[e], stamp[e])]
            /\ Noted(e)
            /\ IF Known(kind[e], stamp[e]) \/ (kind[e] = "reply" /\ row = None /\ busy)
               THEN UNCHANGED job
               ELSE Accept(w, e)
       ELSE /\ Accept(w, e)
            /\ UNCHANGED <<seen, delivered, since>>
    /\ UNCHANGED <<event, row, busy, running, receipts, restarts>>

\* run_gated: the key is spent by now, whichever way the gate answers.
EnterGate(w) ==
    /\ job[w].at = "accepted"
    /\ busy' = TRUE
    /\ Set(w, IF busy THEN Idle ELSE [job[w] EXCEPT !.at = "begin"])
    /\ UNCHANGED <<event, row, seen, running, receipts, deliveries, restarts,
                   delivered, since>>

\* The work: is the row seeded?  A bare mention's text and the catch-up turn on that.
\* Then run_turn maps the thread; a reply on a thread that is not ours ends here.
Bytes(e) == <<e, e \in Bare /\ kind[e] \in {"mention", "reply"} /\ row # "seeded">>

Prepare(w) ==
    LET e == job[w].event IN
    /\ job[w].at = "begin"
    /\ IF kind[e] = "reply" /\ row = None
       THEN Set(w, Idle) /\ busy' = FALSE /\ UNCHANGED row
       ELSE /\ Set(w, [job[w] EXCEPT !.at = "ask",
                                     !.bytes = Bytes(e)])
            /\ row' = IF row = None THEN "mapped" ELSE row
            /\ UNCHANGED busy
    /\ UNCHANGED <<event, seen, running, receipts, deliveries, restarts,
                   delivered, since>>

-----------------------------------------------------------------------------
(* The turn (submit_turn), and the backend's receipts. *)

Stands(w, t) == t.key = job[w].key

\* Assumed of the backend: it keeps claims and receipts, so that no attempt starts
\* under a key with one running or committed.
Run(w) ==
    /\ job[w].at = "ask"
    /\ ~\E t \in running \union receipts : Stands(w, t)
    /\ running' = running \union {[key |-> job[w].key, bytes |-> job[w].bytes]}
    /\ UNCHANGED <<event, row, busy, seen, job, receipts, deliveries, restarts,
                   delivered, since>>

RunCommits(t) ==
    /\ t \in running
    /\ running' = running \ {t} /\ receipts' = receipts \union {t}
    /\ UNCHANGED <<event, row, busy, seen, job, deliveries, restarts, delivered, since>>

\* The run fails, and with it the attempt of a worker still asking.
RunFails(t) ==
    /\ t \in running
    /\ running' = running \ {t}
    /\ UNCHANGED <<event, row, busy, seen, job, receipts, deliveries, restarts,
                   delivered, since>>

\* The turn's answer, or its replay: the row is seeded, and the reply posted.
Answered(w) ==
    /\ job[w].at = "ask"
    /\ \E t \in receipts : Stands(w, t) /\ t.bytes = job[w].bytes
    /\ row' = "seeded"
    /\ busy' = FALSE /\ Set(w, Idle)
    /\ UNCHANGED <<event, seen, running, receipts, deliveries, restarts,
                   delivered, since>>

\* Any other answer, or none within the client's bound.  One is IDEMPOTENCY_KEY_REUSE:
\* the key's turn had other bytes.
Refused(w) ==
    /\ job[w].at = "ask"
    /\ busy' = FALSE /\ Set(w, Idle)
    /\ UNCHANGED <<event, row, seen, running, receipts, deliveries, restarts,
                   delivered, since>>

\* The process dies: its Dedups, its gate and its workers with it.
Restart ==
    /\ restarts < MaxRestarts /\ restarts' = restarts + 1
    /\ busy' = FALSE /\ seen' = [s \in Deduped |-> <<>>]
    /\ job' = [w \in Workers |-> Idle]
    /\ delivered' = {} /\ since' = [e \in Events |-> {}]
    /\ UNCHANGED <<event, row, running, receipts, deliveries>>

Worker(w) == EnterGate(w) \/ Prepare(w) \/ Run(w) \/ Answered(w) \/ Refused(w)

Next ==
    \/ \E w \in Workers, e \in Events : Deliver(w, e)
    \/ \E w \in Workers : Worker(w)
    \/ \E t \in running : RunCommits(t) \/ RunFails(t)
    \/ Restart

Spec == Init /\ [][Next]_vars

-----------------------------------------------------------------------------
(* Properties. *)

\* However often an event is delivered, to this process or the next, its key stands
\* for its turn and no other event's, and that turn commits once (_turn_key: "a
\* redelivered event ... is the same turn to the backend too"; "the namespace keeps
\* them apart").
KeyNamesOneTurn ==
    /\ \A e \in Events : stamp[e] # None => Cardinality({t \in receipts : t.bytes[1] = e}) <= 1
    /\ \A w \in Workers, t \in receipts :
           job[w].key # None /\ Stands(w, t) => t.bytes[1] = job[w].event

\* A retry of what this process took up is dropped, unless a whole Dedup of other
\* events has come since ("so a recently-seen retry can't slip through right after an
\* overflow").
RecentDropped ==
    [][\A w \in Workers, e \in Events :
           /\ job[w] = Idle /\ job'[w].event = e
           /\ kind[e] \in Deduped /\ stamp[e] # None /\ e \in delivered
           => Cardinality(since[e]) >= MaxSeen]_vars

\* The key of a redelivered event is never refused: it is re-sent "only with the bytes
\* it was first sent with" (IdempotencyKeyReuseError).
KeyNeverRefused ==
    \A w \in Workers, t \in receipts :
        job[w].at = "ask" /\ Stands(w, t) => t.bytes = job[w].bytes

=============================================================================
