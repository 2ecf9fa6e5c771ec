----------------------------- MODULE TurnRecovery -----------------------------
(***************************************************************************)
(* One logical turn, sent under one idempotency key: submit_turn and its   *)
(* recovery loop (faultmaven/client.py) against a backend that runs,       *)
(* commits, replays or refuses the turn, and a network that loses answers. *)
(*                                                                         *)
(* Time is counted in ticks, spent by the client's own steps: an answer is *)
(* read some ticks after its post, at most what the attempt has left.      *)
(* Token work takes ticks too, and is never cut short.  A post reaches the *)
(* backend during its attempt or not at all.                               *)
(***************************************************************************)
EXTENDS Naturals, ErrorAdvice

CONSTANTS
    Attempt, Bound,             \* one attempt's cap and the recovery bound
    BackoffFirst, BackoffMax,   \* _RECOVERY_BACKOFF_FIRST_SECONDS, _MAX_
    PollMin, PollMax,           \* _IN_PROGRESS_POLL_MIN_SECONDS, _MAX_
    LastAsk,                    \* _LAST_ASK_SECONDS
    LlmResends,                 \* _LLM_TIMEOUT_RESENDS
    RetryAfters,                \* the Retry-After values answers carry
    None,                       \* no Retry-After; no run; nothing pending
    ClaimStores,                \* does the backend keep claims on keys: the cases
    Polls                       \* does it answer some turns with a 202 to poll?

\* Answers the backend gives before it looks the key up, or instead of it, and
\* what a run can end with.
Outright   == {"rateLimited", "cap", "unauthorized", "coded5xx", "uncoded5xx", "rejected"}
OfTheCase  == {"terminal", "deleting", "gone"}
Failures   == {"llm504", "request504", "other504", "coded5xx", "uncoded5xx", "rejected"}
Responses  == {"ok", "replayLost", "inProgress", "conflict"}
              \union Outright \union OfTheCase \union Failures

ASSUME RecoveryAssumption ==
    /\ Attempt \in Nat /\ Bound \in Nat /\ LlmResends \in Nat
    /\ BackoffFirst \in Nat \ {0} /\ BackoffMax \in Nat /\ BackoffFirst <= BackoffMax
    /\ PollMin \in Nat \ {0} /\ PollMax \in Nat /\ PollMin <= PollMax
    /\ LastAsk \in Nat
    /\ RetryAfters \subseteq Nat \union {None}
    /\ None \notin Nat \union {"kept", "lost", "unknown", "nothing"}
    /\ None \notin Responses \union {"reply", "resend", "noresend"}
    /\ ClaimStores \subseteq BOOLEAN /\ Polls \in BOOLEAN

VARIABLES
    pc,         \* where submit_turn is
    left,       \* deadline - clock
    alloc,      \* attempt_deadline - clock, while an attempt is in flight
    pending,    \* what is raised if the loop ends now
    maybe,      \* maybe_committed
    backoff, conflicts, llm, fresh, lastAsk, wait,      \* the loop's other locals
    reauthed,   \* this attempt has re-authenticated
    polled,     \* this attempt is polling a 202's Location
    answer,     \* how submit_turn ended: "reply", or the class it raised
    advice,     \* what the surface made of it: "reply", "resend" or "noresend"
    stopping,   \* _stopping
    overtime,   \* ticks spent on attempts since begin_shutdown
    claims,     \* backend: the deployment keeps claims
    run,        \* backend: the run answering the current post
    strays,     \* backend: runs of posts the client has given up on
    commits, receipt,   \* backend: how often the turn committed; what its key keeps
    arrived, resp       \* the current post reached the backend; its answer

loopVars   == <<pending, maybe, backoff, conflicts, llm, fresh, lastAsk>>
timeVars   == <<left, alloc, overtime>>
flightVars == <<reauthed, polled, arrived, resp>>
endVars    == <<answer, advice>>
backVars   == <<claims, run, strays, commits, receipt>>
vars == <<pc, loopVars, wait, timeVars, flightVars, endVars, stopping, backVars>>

\* A run knows its key, and whether the case has moved on under it (OCC).
Runs == [keyed : BOOLEAN, doomed : BOOLEAN]

Smaller(a, b) == IF a <= b THEN a ELSE b
Larger(a, b)  == IF a >= b THEN a ELSE b

TypeOK ==
    /\ pc \in {"start", "token", "send", "flight", "retry", "sleep", "done"}
    /\ left \in 0..Bound /\ alloc \in 0..Attempt
    /\ pending \in {None, "unknown", "nothing"}
    /\ maybe \in BOOLEAN /\ fresh \in BOOLEAN /\ lastAsk \in BOOLEAN
    /\ backoff \in BackoffFirst..BackoffMax
    /\ conflicts \in 0..1 /\ llm \in 0..LlmResends
    /\ wait \in Nat
    /\ reauthed \in BOOLEAN /\ polled \in BOOLEAN /\ arrived \in BOOLEAN
    /\ resp \in {None} \union Responses
    /\ answer \in {None, "reply"} \union Errors
    /\ advice \in {None, "reply", "resend", "noresend"}
    /\ stopping \in BOOLEAN /\ overtime \in 0..Bound
    /\ claims \in BOOLEAN
    /\ run \in {None} \union Runs /\ strays \subseteq Runs
    /\ commits \in Nat /\ receipt \in {None, "kept", "lost"}

Init ==
    /\ pc = "start" /\ left = Bound /\ alloc = 0
    /\ pending = None /\ maybe = FALSE /\ fresh = FALSE /\ lastAsk = FALSE
    /\ backoff = BackoffFirst /\ conflicts = 0 /\ llm = 0 /\ wait = 0
    /\ reauthed = FALSE /\ polled = FALSE /\ arrived = FALSE /\ resp = None
    /\ answer = None /\ advice = None
    /\ stopping = FALSE /\ overtime = 0
    /\ claims \in ClaimStores
    /\ run = None /\ strays = {} /\ commits = 0 /\ receipt = None

-----------------------------------------------------------------------------
(* Helpers. *)

\* submit_turn returns or raises, and the surface words what it was told.
End(how) ==
    /\ pc' = "done" /\ answer' = how
    /\ advice' = IF how = "reply" THEN "reply"
                 ELSE IF turn_error_text(how, stopping) THEN "resend" ELSE "noresend"
    /\ UNCHANGED <<loopVars, wait>>

\* The attempt takes t ticks.
Spend(t) ==
    /\ left' = left - t
    /\ alloc' = alloc - t
    /\ overtime' = IF stopping THEN overtime + t ELSE overtime

Again == pc' = "retry" /\ UNCHANGED endVars

\* The wait after a failure with no interval of its own.
_next_backoff_unbounded(b) == 2 * b               \* without the cap (mutant)
_next_backoff(b) == Smaller(2 * b, BackoffMax)
AfterBackoff == wait' = backoff /\ backoff' = _next_backoff(backoff)

_in_progress_poll_seconds(retryAfter) ==
    IF retryAfter = None THEN PollMin ELSE Smaller(Larger(retryAfter, PollMin), PollMax)

\* Retry-After, clamped to a poll interval, or the backoff without one.
Paced(retryAfter) ==
    IF retryAfter = None THEN AfterBackoff
    ELSE wait' = _in_progress_poll_seconds(retryAfter) /\ UNCHANGED backoff

\* The attempt may have committed the turn.
InDoubt == pending' = "unknown" /\ maybe' = TRUE

\* Getting a token failed: a credential refused, a workspace unbound, or anything
\* else, as a plain FaultMavenError.  None of these is caught in submit_turn.
NoToken == \E how \in {"plain"} \union NoAccess : End(how)

Live == {r \in strays \union ({run} \ {None}) : ~r.doomed}

-----------------------------------------------------------------------------
(* submit_turn up to the first attempt, and each attempt's post. *)

Begin ==
    /\ pc = "start"
    /\ UNCHANGED <<timeVars, flightVars, stopping, backVars>>
    /\ \/ stopping /\ End("notStarted")
       \/ ~stopping /\ pc' = "token" /\ UNCHANGED <<loopVars, wait, endVars>>

\* _current_token, behind the second _refuse_if_stopping.
AcquireToken ==
    /\ pc = "token"
    /\ \E t \in 0..left : left' = left - t
    /\ UNCHANGED <<alloc, overtime, flightVars, stopping, backVars>>
    /\ \/ NoToken
       \/ stopping /\ End("notStarted")
       \/ ~stopping /\ pc' = "send" /\ UNCHANGED <<loopVars, wait, endVars>>

\* Every post of the turn carries its key, the re-post after a 401 too.
Bare(repost)  == ~repost                          \* bare after a 401 (mutant)
Keyed(repost) == TRUE

\* A post with so much of its attempt left; with none, _attempt_timeout raises
\* the unknown outcome instead.
Post(room, repost) ==
    IF room > 0
    THEN /\ pc' = "flight" /\ alloc' = room
         /\ arrived' = FALSE /\ resp' = None /\ polled' = FALSE /\ reauthed' = repost
         /\ strays' = strays \union ({run} \ {None}) /\ run' = None
         /\ UNCHANGED <<pending, maybe, backoff, wait>>
    ELSE /\ Again /\ alloc' = 0
         /\ InDoubt /\ AfterBackoff
         /\ UNCHANGED <<flightVars, strays, run>>

\* The top of the loop: an attempt gets what is left of the bound, less the time
\* an expired token takes to renew, which may also fail.
Send ==
    /\ pc = "send"
    /\ \E t \in 0..left :
           /\ left' = left - t
           /\ LET cap == Smaller(Attempt, left)
              IN  Post(IF t < cap THEN cap - t ELSE 0, FALSE)
    /\ fresh' = FALSE
    /\ UNCHANGED <<conflicts, llm, lastAsk, overtime, endVars, stopping,
                   claims, commits, receipt>>

RenewalFails ==
    /\ pc = "send"
    /\ NoToken
    /\ UNCHANGED <<timeVars, flightVars, stopping, backVars>>

\* 401: re-authenticate once, and post again, or poll again, in what is left.
Reauth ==
    /\ pc = "flight" /\ resp = "unauthorized" /\ ~reauthed
    /\ \E t \in 0..left :
           /\ left' = left - t
           /\ LET room == IF t < alloc THEN alloc - t ELSE 0
              IN  IF polled /\ room > 0
                  THEN /\ alloc' = room /\ resp' = None /\ reauthed' = TRUE
                       /\ UNCHANGED <<pc, polled, arrived, run, strays, pending,
                                      maybe, backoff, wait>>
                  ELSE Post(room, TRUE)
    /\ UNCHANGED <<fresh, conflicts, llm, lastAsk, overtime, endVars, stopping,
                   claims, commits, receipt>>

ReauthFails ==
    /\ pc = "flight" /\ resp = "unauthorized" /\ ~reauthed
    /\ NoToken
    /\ UNCHANGED <<timeVars, flightVars, stopping, backVars>>

-----------------------------------------------------------------------------
(* The backend, as the client's comments describe it. *)

\* The post arrives: the key's receipt or claim answers it, or the turn is run.
Arrive ==
    /\ pc = "flight" /\ ~arrived
    /\ arrived' = TRUE
    /\ LET keyed == Keyed(reauthed)
       IN  \/ /\ keyed /\ receipt # None
              /\ resp' = IF receipt = "kept" THEN "ok" ELSE "replayLost"
              /\ UNCHANGED <<run, polled, reauthed>>
           \/ /\ keyed /\ receipt = None /\ claims
              /\ \E r \in strays : r.keyed
              /\ resp' = "inProgress" /\ UNCHANGED <<run, polled, reauthed>>
           \/ /\ keyed => receipt = None /\ ~(claims /\ \E r \in strays : r.keyed)
              /\ run' = [keyed |-> keyed, doomed |-> FALSE]
              /\ \/ UNCHANGED <<polled, reauthed>>
                 \/ Polls /\ polled' = TRUE /\ reauthed' = FALSE
              /\ UNCHANGED resp
    /\ UNCHANGED <<pc, loopVars, wait, timeVars, endVars, stopping, claims, strays,
                   commits, receipt>>

\* Refused before the key is looked at, by the backend or a proxy before it; a
\* poll's GET can be refused as well, though its 404 says nothing of the case.
Refuse ==
    /\ pc = "flight" /\ resp = None
    /\ \/ ~arrived /\ resp' \in Outright \union {"gone"}
       \/ polled /\ resp' \in Outright
    /\ arrived' = TRUE
    /\ UNCHANGED <<pc, loopVars, wait, timeVars, reauthed, polled, endVars, stopping,
                   backVars>>

\* Refused by the case: only where no receipt answers first and no run of the
\* turn can still commit (a running attempt holds the case's lease).
RefuseByCase ==
    /\ pc = "flight" /\ ~arrived
    /\ receipt = None /\ Live = {}
    /\ arrived' = TRUE /\ resp' \in OfTheCase
    /\ UNCHANGED <<pc, loopVars, wait, timeVars, reauthed, polled, endVars, stopping,
                   backVars>>

\* A run commits if the case has not moved since it began: the others are doomed.
Doom(runs) == {[r EXCEPT !.doomed = TRUE] : r \in runs}

Commit(r) == /\ ~r.doomed
             /\ commits' = commits + 1
             /\ receipt' = IF r.keyed THEN "kept" ELSE receipt
             /\ strays' = Doom(strays)
             /\ UNCHANGED <<pc, loopVars, wait, timeVars, reauthed, polled, arrived,
                            endVars, stopping, claims>>

RunCommits ==
    /\ run # None /\ Commit(run)
    /\ run' = None
    /\ resp' = IF resp = None THEN "ok" ELSE resp

StrayCommits ==
    /\ \E r \in strays : Commit(r)
    /\ run' = IF run = None THEN None ELSE [run EXCEPT !.doomed = TRUE]
    /\ UNCHANGED resp

RunFails ==
    /\ \/ /\ run # None
          /\ run' = None /\ UNCHANGED strays
          /\ IF resp = None
             THEN resp' \in Failures \union (IF run.doomed THEN {"conflict"} ELSE {})
             ELSE UNCHANGED resp
       \/ \E s \in strays : strays' = strays \ {s} /\ UNCHANGED <<run, resp>>
    /\ UNCHANGED <<pc, loopVars, wait, timeVars, reauthed, polled, arrived, endVars,
                   stopping, claims, commits, receipt>>

\* Another surface's turn commits on the case.
OtherTurn ==
    /\ Live # {}
    /\ run' = IF run = None THEN None ELSE [run EXCEPT !.doomed = TRUE]
    /\ strays' = Doom(strays)
    /\ UNCHANGED <<pc, loopVars, wait, timeVars, flightVars, endVars, stopping, claims,
                   commits, receipt>>

ForgetReply ==
    /\ receipt = "kept" /\ receipt' = "lost"
    /\ UNCHANGED <<pc, loopVars, wait, timeVars, flightVars, endVars, stopping, claims,
                   run, strays, commits>>

BeginShutdown ==
    /\ ~stopping /\ stopping' = TRUE
    /\ UNCHANGED <<pc, loopVars, wait, timeVars, flightVars, endVars, backVars>>

-----------------------------------------------------------------------------
(* How an attempt ends.  Each step takes some of the attempt's time. *)

\* The client times out, the connection drops after the body was sent, the 202
\* poll runs out of time, or a gateway answers an unlabelled 502 or 504.
Unanswered ==
    /\ pc = "flight"
    /\ \E t \in 0..alloc : Spend(t)
    /\ Again /\ InDoubt /\ AfterBackoff
    /\ UNCHANGED <<conflicts, llm, fresh, lastAsk, flightVars, stopping, backVars>>

\* The request never reached the backend: the real answer, unless in doubt.
NeverReachedRetried ==                            \* asked again regardless (mutant)
    /\ pc = "flight" /\ (~arrived \/ polled)
    /\ \E t \in 0..alloc : Spend(t)
    /\ Again /\ AfterBackoff
    /\ UNCHANGED <<pending, maybe, conflicts, llm, fresh, lastAsk>>
    /\ UNCHANGED <<flightVars, stopping, backVars>>
NeverReached ==
    /\ pc = "flight" /\ (~arrived \/ polled)
    /\ \E t \in 0..alloc : Spend(t)
    /\ \/ ~maybe /\ End("unreached")
       \/ /\ maybe /\ Again /\ AfterBackoff
          /\ UNCHANGED <<pending, maybe, conflicts, llm, fresh, lastAsk>>
    /\ UNCHANGED <<flightVars, stopping, backVars>>

Reading(responses) ==
    /\ pc = "flight" /\ resp \in responses
    /\ \E t \in 0..alloc : Spend(t)
    /\ UNCHANGED <<flightVars, stopping, backVars>>

\* 2xx, this run's answer or a receipt's; a 202 that names no Location.
Answered == Reading({"ok"}) /\ End("reply")

NoLocation ==
    /\ pc = "flight" /\ polled /\ ~reauthed /\ resp = None
    /\ End("plain")
    /\ UNCHANGED <<timeVars, flightVars, stopping, backVars>>

\* A labelled 504 commits nothing and clears the doubt; only LLM_TIMEOUT is run
\* again, a bounded number of times.
LlmTimeout ==
    /\ Reading({"llm504"})
    /\ IF llm = LlmResends THEN End("nothing")
       ELSE /\ Again /\ llm' = llm + 1 /\ fresh' = TRUE
            /\ pending' = "nothing" /\ maybe' = FALSE
            /\ \E ra \in RetryAfters : Paced(ra)
            /\ UNCHANGED <<conflicts, lastAsk>>

RanOutOfTime == Reading({"request504", "other504"})
                /\ End(IF resp = "request504" THEN "narrow" ELSE "nothing")

\* 409 TURN_IN_PROGRESS: an earlier attempt holds the key's claim.
InProgress ==
    /\ Reading({"inProgress"})
    /\ Again /\ InDoubt
    /\ \E ra \in RetryAfters : wait' = _in_progress_poll_seconds(ra)
    /\ UNCHANGED <<backoff, conflicts, llm, fresh, lastAsk>>

\* 409 CASE_VERSION_CONFLICT: while in doubt, asked again at once, and only once.
VersionConflict ==
    /\ Reading({"conflict"})
    /\ IF maybe /\ conflicts = 0
       THEN /\ Again /\ conflicts' = 1 /\ wait' = 0
            /\ UNCHANGED <<pending, maybe, backoff, llm, fresh, lastAsk>>
       ELSE End("conflict")

\* 429: while in doubt its interval is waited as stated, or ends the turn when no
\* ask can be admitted within the bound.
Limited ==
    /\ Reading({"rateLimited", "cap"})
    /\ \/ ~maybe /\ End(resp)
       \/ /\ maybe
          /\ \E ra \in RetryAfters :
                 \/ /\ ra = None /\ Again /\ AfterBackoff
                    /\ UNCHANGED <<pending, maybe, conflicts, llm, fresh, lastAsk>>
                 \/ /\ ra # None /\ ra >= left'
                    /\ End(IF resp = "cap" THEN "capped" ELSE "unchecked")
                 \/ /\ ra # None /\ ra < left'
                    /\ Again /\ wait' = Larger(ra, PollMin)
                    /\ UNCHANGED loopVars

\* An uncoded 5xx says nothing of an earlier attempt.
Overloaded ==
    /\ Reading({"uncoded5xx"})
    /\ \/ ~maybe /\ End("uncoded5xx")
       \/ /\ maybe /\ Again
          /\ \E ra \in RetryAfters : Paced(ra)
          /\ UNCHANGED <<pending, maybe, conflicts, llm, fresh, lastAsk>>

\* _is_definitive: what is raised as itself even in doubt.  A 401 gets here once
\* re-authenticating has not helped, or cannot.
_is_definitive(response) ==
    response \in {"replayLost", "unauthorized"} \union OfTheCase

Other ==
    /\ Reading({"replayLost", "unauthorized", "coded5xx", "rejected"} \union OfTheCase)
    /\ End(IF ~maybe \/ _is_definitive(resp) THEN resp ELSE "unchecked")

-----------------------------------------------------------------------------
(* Between attempts. *)

\* Does a fresh, charged run after a labelled 504 still fit in the bound?
FitsNow == left >= Attempt                        \* the wait forgotten (mutant)
Fits    == left >= wait + Attempt

\* Nothing left, shutting down, no room for a fresh run, or the last ask made.
OverdueUnstopped == left = 0 \/ (fresh /\ ~Fits) \/ (wait >= left /\ lastAsk)  \* (mutant)
Overdue == left = 0 \/ stopping \/ (fresh /\ ~Fits) \/ (wait >= left /\ lastAsk)

GiveUp ==
    /\ pc = "retry" /\ Overdue
    /\ End(pending)
    /\ UNCHANGED <<timeVars, flightVars, stopping, backVars>>

\* A wait that would run to the bound is cut short for one last ask.
GiveUpEarly ==                                    \* no last ask (mutant)
    /\ pc = "retry" /\ ~Overdue /\ wait >= left
    /\ End(pending)
    /\ UNCHANGED <<timeVars, flightVars, stopping, backVars>>
CutShortAgain ==                                  \* ... as often as it likes (mutant)
    /\ pc = "retry" /\ ~Overdue /\ wait >= left
    /\ wait' = IF left > LastAsk THEN left - LastAsk ELSE 0
    /\ pc' = "sleep"
    /\ UNCHANGED <<pending, maybe, backoff, conflicts, llm, fresh, lastAsk, timeVars,
                   flightVars, endVars, stopping, backVars>>
CutShort ==
    /\ pc = "retry" /\ ~Overdue /\ wait >= left
    /\ lastAsk' = TRUE
    /\ wait' = IF left > LastAsk THEN left - LastAsk ELSE 0
    /\ pc' = "sleep"
    /\ UNCHANGED <<pending, maybe, backoff, conflicts, llm, fresh, timeVars, flightVars,
                   endVars, stopping, backVars>>

Wait ==
    /\ pc = "retry" /\ ~Overdue /\ wait < left
    /\ pc' = "sleep"
    /\ UNCHANGED <<loopVars, wait, timeVars, flightVars, endVars, stopping, backVars>>

\* The wait ends, or shutdown ends it; with nothing to wait for, nobody looks.
Sleep ==
    /\ pc = "sleep"
    /\ UNCHANGED <<alloc, overtime, flightVars, stopping, backVars>>
    /\ \/ stopping /\ wait > 0 /\ End(pending) /\ UNCHANGED left
       \/ /\ ~stopping \/ wait = 0
          /\ left' = left - wait
          /\ pc' = "send"
          /\ UNCHANGED <<loopVars, wait, endVars>>

-----------------------------------------------------------------------------
Client ==
    \/ Begin \/ AcquireToken \/ Send \/ RenewalFails \/ Reauth \/ ReauthFails
    \/ Unanswered \/ NeverReached \/ Answered \/ NoLocation \/ LlmTimeout \/ RanOutOfTime
    \/ InProgress \/ VersionConflict \/ Limited \/ Overloaded \/ Other
    \/ GiveUp \/ CutShort \/ Wait \/ Sleep

Backend ==
    \/ Arrive \/ Refuse \/ RefuseByCase \/ RunCommits \/ StrayCommits \/ RunFails \/ OtherTurn
    \/ ForgetReply

Next == Client \/ Backend \/ BeginShutdown

Spec == Init /\ [][Next]_vars

\* The worker's thread runs, and a call it makes ends by its timeout at the
\* latest (Unanswered).  The backend owes it nothing.
FairSpec == Spec /\ WF_vars(Client)

-----------------------------------------------------------------------------
(* Safety. *)

\* Every attempt carries the key, so the turn commits at most once however often
\* it is sent, with a claim store or without (submit_turn, "Recovery").
OneCommit == commits <= 1

\* When the loop goes round there is an outcome to raise, and it is the unknown
\* one exactly while an attempt may have committed (maybe_committed, pending).
DoubtIsPending ==
    /\ pc \in {"retry", "sleep"} => pending # None
    /\ maybe <=> pending = "unknown"

\* A charged run after a labelled 504 is not launched with less than a whole
\* attempt to run in (fresh_run_next).
FreshRunFits == pc = "send" /\ fresh => left >= Attempt

\* The client does not give up on a turn in doubt while the bound still leaves
\* room for an ask: it has asked within LastAsk of the bound (_LAST_ASK_SECONDS).
GivesUpLate == answer = "unknown" => stopping \/ left <= LastAsk

\* Once shutdown begins, a turn is over within one attempt, token work aside:
\* what the drain waits for (longest_attempt_seconds, begin_shutdown).
DrainCovers == overtime <= Attempt

\* Where the client's refusals are known not to settle the turn: token work that
\* fails between attempts, a final 401, the 202 poll, and, where no claim keeps two
\* attempts from running side by side, a labelled 504 or a second version conflict.
Blind == \/ answer \in {"plain", "unauthorized"}
         \/ polled
         \/ ~claims /\ (llm > 0 \/ conflicts > 0 \/ answer \in NothingCommitted)

\* Elsewhere the turn's sender is told the truth: one commit at most, a reply
\* only of a committed turn, and no invitation to re-send one that may commit.
O == INSTANCE TurnOutcome WITH
         told <- IF advice = None THEN "nothing"
                 ELSE IF advice = "reply" THEN "reply"
                 ELSE IF advice = "resend" /\ ~Blind THEN "invited" ELSE "warned"
ImplementsTurnOutcome == O!Spec

\* The same with no exception: "While an earlier attempt may have committed the
\* turn, only an answer about the turn itself ends the loop with its own class"
\* (submit_turn's docstring).
ResendOnlyUncommitted == advice = "resend" => commits = 0 /\ Live = {}

\* "nothing of it committed (a second version conflict)"
\* (_DEFINITIVE_WHILE_RECOVERING).
ConflictSettles == answer = "conflict" => commits = 0

\* submit_turn returns or raises, within a bounded number of attempts.
SubmitEnds == <>(pc = "done")
=============================================================================
