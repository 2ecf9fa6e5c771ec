------------------------------ MODULE TurnTiming ------------------------------
(***************************************************************************)
(* How long one attempt of a turn may take, sized from the bound the       *)
(* backend publishes, and how long the shutdown drain waits for one        *)
(* (turn_timing, _published_bound in faultmaven/client.py;                 *)
(* shutdown_runtime in app.py).                                            *)
(*                                                                         *)
(* A tick is _TIMING_RETRY_SECONDS; a probe, cut at five seconds, is over  *)
(* within one.                                                             *)
(***************************************************************************)
EXTENDS Naturals

CONSTANTS
    Turns,
    Bounds,     \* the values turnResponseBoundSeconds takes
    Margin,     \* TURN_NETWORK_MARGIN_SECONDS
    Fallback,   \* FALLBACK_ATTEMPT_SECONDS, the configured timeout
    Ttl, Retry, \* _TIMING_TTL_SECONDS, _TIMING_RETRY_SECONDS
    None

ASSUME TimingAssumption ==
    /\ Bounds \subseteq Nat \ {0} /\ Margin \in Nat /\ Fallback \in Nat
    /\ Ttl \in Nat /\ Retry \in Nat \ {0} /\ Retry <= Ttl
    /\ None \notin Turns

VARIABLES
    published,  \* backend: the bound in force
    moved,      \* ticks since it last moved, up to Ttl
    known,      \* it has been read since it moved
    bound,      \* _bound: the last one read, 0 before any
    timing,     \* _timing: did the last probe succeed, and how long ago (to Ttl)
    holder,     \* _timing_lock
    longest,    \* _longest_attempt
    at, attempt, seen,      \* each turn: where it is, its attempt, longest as it read it
    raced,      \* two turns have written longest from one reading
    stopping, drain         \* shutdown has begun; what drain_turns waits, 0 until then

backend == <<published, moved, known>>
cache   == <<bound, timing, holder>>
turns   == <<at, attempt, seen>>
ending  == <<stopping, drain>>
vars == <<backend, cache, longest, turns, raced, ending>>

Larger(a, b) == IF a >= b THEN a ELSE b
Capped(n)    == IF n < Ttl THEN n + 1 ELSE Ttl

Attempts == {b + Margin : b \in Bounds} \union {Fallback}

TypeOK ==
    /\ published \in Bounds /\ moved \in 0..Ttl /\ known \in BOOLEAN
    /\ bound \in Bounds \union {0}
    /\ timing \in [ok : BOOLEAN, age : 0..Ttl] \union {None}
    /\ holder \in Turns \union {None}
    /\ longest \in Attempts
    /\ at \in [Turns -> {"idle", "probing", "sized", "read", "token", "send", "flight", "done"}]
    /\ attempt \in [Turns -> Attempts \union {0}] /\ seen \in [Turns -> Attempts \union {0}]
    /\ raced \in BOOLEAN
    /\ stopping \in BOOLEAN /\ drain \in Attempts \union {0}

Init ==
    /\ published \in Bounds /\ moved = 0 /\ known = FALSE
    /\ bound = 0 /\ timing = None /\ holder = None
    /\ longest = Fallback
    /\ at = [t \in Turns |-> "idle"]
    /\ attempt = [t \in Turns |-> 0] /\ seen = [t \in Turns |-> 0]
    /\ raced = FALSE /\ stopping = FALSE /\ drain = 0

-----------------------------------------------------------------------------
(* turn_timing. *)

AttemptFor(b) == IF b = 0 THEN Fallback ELSE b + Margin

Sized(t, b) ==
    /\ at' = [at EXCEPT ![t] = "sized"]
    /\ attempt' = [attempt EXCEPT ![t] = AttemptFor(b)]

FreshWithinTtl == timing # None /\ timing.age < Ttl          \* one interval for both (mutant)
Fresh == timing # None /\ timing.age < (IF timing.ok THEN Ttl ELSE Retry)

\* _published_bound, with _timing_lock held: the cached answer, or a probe.
Begin(t) ==
    /\ at[t] = "idle" /\ ~stopping /\ holder = None
    /\ \/ Fresh /\ Sized(t, bound) /\ UNCHANGED holder
       \/ /\ ~Fresh /\ holder' = t
          /\ at' = [at EXCEPT ![t] = "probing"] /\ UNCHANGED attempt
    /\ UNCHANGED <<backend, bound, timing, longest, seen, raced, ending>>

ProbeAnswers(t) ==
    /\ at[t] = "probing"
    /\ bound' = published /\ known' = TRUE
    /\ timing' = [ok |-> TRUE, age |-> 0] /\ holder' = None
    /\ Sized(t, published)
    /\ UNCHANGED <<published, moved, longest, seen, raced, ending>>

ProbeFailsClearing(t) ==                 \* the bound forgotten (mutant)
    /\ at[t] = "probing"
    /\ bound' = 0
    /\ timing' = [ok |-> FALSE, age |-> 0] /\ holder' = None
    /\ Sized(t, 0)
    /\ UNCHANGED <<published, moved, known, longest, seen, raced, ending>>

\* No answer, no 2xx, or no usable number: the last good bound stands.
ProbeFails(t) ==
    /\ at[t] = "probing"
    /\ timing' = [ok |-> FALSE, age |-> 0] /\ holder' = None
    /\ Sized(t, bound)
    /\ UNCHANGED <<published, moved, known, bound, longest, seen, raced, ending>>

\* _longest_attempt = max(_longest_attempt, attempt): read and written outside
\* the lock.
ReadLongest(t) ==
    /\ at[t] = "sized"
    /\ at' = [at EXCEPT ![t] = "read"]
    /\ seen' = [seen EXCEPT ![t] = longest]
    /\ UNCHANGED <<backend, cache, longest, attempt, raced, ending>>

WriteLongest(t) ==
    /\ at[t] = "read"
    /\ at' = [at EXCEPT ![t] = "token"]
    /\ longest' = Larger(seen[t], attempt[t])
    /\ raced' = (raced \/ seen[t] # longest)
    /\ seen' = [seen EXCEPT ![t] = 0]
    /\ UNCHANGED <<backend, cache, attempt, ending>>

-----------------------------------------------------------------------------
(* The rest of the turn: a token, a last look at the shutdown, the attempt. *)

RefuseUnchecked == FALSE                 \* the last look forgotten (mutant)
RefuseIfStopping == stopping

Check(t) ==
    /\ at[t] = "token"
    /\ at' = [at EXCEPT ![t] = IF RefuseIfStopping THEN "done" ELSE "send"]
    /\ UNCHANGED <<backend, cache, longest, attempt, seen, raced, ending>>

Send(t) ==
    /\ at[t] = "send"
    /\ at' = [at EXCEPT ![t] = "flight"]
    /\ UNCHANGED <<backend, cache, longest, attempt, seen, raced, ending>>

Finish(t) ==
    /\ at[t] = "flight"
    /\ at' = [at EXCEPT ![t] = "idle"] /\ attempt' = [attempt EXCEPT ![t] = 0]
    /\ UNCHANGED <<backend, cache, longest, seen, raced, ending>>

-----------------------------------------------------------------------------
Tick ==
    /\ holder = None
    /\ moved' = Capped(moved)
    /\ timing' = IF timing = None THEN None ELSE [timing EXCEPT !.age = Capped(@)]
    /\ UNCHANGED <<published, known, bound, holder, longest, turns, raced, ending>>

\* An operator switches the chat provider.
Move(b) ==
    /\ b # published
    /\ published' = b /\ moved' = 0 /\ known' = FALSE
    /\ UNCHANGED <<cache, longest, turns, raced, ending>>

BeginShutdown ==
    /\ ~stopping /\ stopping' = TRUE
    /\ UNCHANGED <<backend, cache, longest, turns, raced, drain>>

\* drain_turns is given the longest attempt so far, and some headroom.
Drain ==
    /\ stopping /\ drain = 0 /\ drain' = longest
    /\ UNCHANGED <<backend, cache, longest, turns, raced, stopping>>

Turn(t) ==
    \/ Begin(t) \/ ProbeAnswers(t) \/ ProbeFails(t) \/ ReadLongest(t) \/ WriteLongest(t)
    \/ Check(t) \/ Send(t) \/ Finish(t)

Next ==
    \/ \E t \in Turns : Turn(t)
    \/ Tick \/ BeginShutdown \/ Drain
    \/ \E b \in Bounds : Move(b)

Spec == Init /\ [][Next]_vars

-----------------------------------------------------------------------------
(* Properties. *)

\* A turn is sized to the bound in force once that bound has been read, however
\* many probes fail after, and unread it stays for one interval at most: that
\* of an answer, or the shorter one of a failure.
SizedToBound ==
    [][\A t \in Turns : at'[t] = "sized" /\ at[t] # "sized" =>
          \/ attempt'[t] = published + Margin
          \/ ~known /\ (moved < Ttl \/ (~timing'.ok /\ timing'.age < Retry))]_vars

\* The drain outlasts every attempt in flight, unless two turns wrote the longest
\* attempt from one reading: none is sent that was sized after the drain was.
DrainOutlasts ==
    \A t \in Turns : drain # 0 /\ at[t] \in {"send", "flight"} => attempt[t] <= drain \/ raced

=============================================================================
