-------------------------- MODULE TurnRecoveryProofs --------------------------
(***************************************************************************)
(* Theorems about one logical turn, for every bound, interval and number   *)
(* of re-sends.                                                            *)
(***************************************************************************)
EXTENDS TurnRecovery, TLAPS

(***************************************************************************)
(* turn_error_text and retry_may_help are two ladders over the error       *)
(* classes, written apart: "Keep the two in sync; if they disagree, the    *)
(* message and the buttons tell the user opposite things".  They agree on  *)
(* every class, shutting down or not.                                      *)
(***************************************************************************)
THEOREM AdviceAgrees ==
    \A error \in Errors, shut \in BOOLEAN :
        turn_error_text(error, shut) <=> retry_may_help(error, shut)
BY Zenon DEF Errors, AboveOverride, turn_error_text, retry_may_help, Unconfirmed, OwnAnswers,
   NoAccess, Throttled, Rejections, NothingCommitted, Transient

(***************************************************************************)
(* The turn commits once.                                                  *)
(***************************************************************************)

\* What keeps it so: every run was started under the key, a commit leaves a
\* receipt under it that answers every later post, and dooms whatever runs.
KeyedInv ==
    /\ run \in {None} \union Runs /\ strays \subseteq Runs
    /\ \A r \in strays \union ({run} \ {None}) : r.keyed = TRUE
    /\ commits \in {0, 1}
    /\ receipt \in {None, "kept", "lost"}
    /\ commits = 1 <=> receipt # None
    /\ commits = 1 => Live = {}

\* Doomed runs are runs, as keyed as they were, and none of them is live.
LEMMA DoomKeeps ==
    ASSUME NEW S \in SUBSET Runs, \A r \in S : r.keyed = TRUE
    PROVE  /\ Doom(S) \subseteq Runs
           /\ \A r \in Doom(S) : r.keyed = TRUE /\ r.doomed = TRUE
BY DEF Doom, Runs

LEMMA KeyedInit == Init => KeyedInv
BY RecoveryAssumption DEF Init, KeyedInv, Live

\* The client only moves the current run among the strays.
LEMMA ClientKeeps ==
    ASSUME KeyedInv, Client
    PROVE  KeyedInv'
<1>1. /\ UNCHANGED <<commits, receipt>>
      /\ \/ UNCHANGED <<run, strays>>
         \/ strays' = strays \union ({run} \ {None}) /\ run' = None
  BY DEF Client, Begin, AcquireToken, Send, RenewalFails, Reauth, ReauthFails, Unanswered,
     NeverReached, Answered, NoLocation, LlmTimeout, RanOutOfTime, InProgress,
     VersionConflict, Limited, Overloaded, Other, GiveUp, CutShort, Wait, Sleep, Post,
     Reading, backVars, flightVars
<1>2. QED
  BY <1>1 DEF KeyedInv, Live

\* A post starts a run only where its key has no receipt.
LEMMA ArriveKeeps ==
    ASSUME KeyedInv, Arrive
    PROVE  KeyedInv'
<1>1. UNCHANGED <<strays, commits, receipt>>
  BY DEF Arrive
<1>2. \/ UNCHANGED run
      \/ receipt = None /\ run' = [keyed |-> TRUE, doomed |-> FALSE]
  BY DEF Arrive, Keyed
<1>3. CASE UNCHANGED run
  BY <1>1, <1>3 DEF KeyedInv, Live
<1>4. CASE receipt = None /\ run' = [keyed |-> TRUE, doomed |-> FALSE]
  <2>1. run' \in Runs /\ run'.keyed = TRUE
    BY <1>4 DEF Runs
  <2>2. commits = 0
    BY <1>4 DEF KeyedInv
  <2>3. QED
    BY <1>1, <1>4, <2>1, <2>2 DEF KeyedInv
<1>5. QED
  BY <1>2, <1>3, <1>4

\* A run that commits was live, so nothing had committed, and nothing is live after.
LEMMA CommitsKeeps ==
    ASSUME KeyedInv, RunCommits \/ StrayCommits
    PROVE  KeyedInv'
<1>1. PICK r \in strays \union ({run} \ {None}) : Commit(r)
  BY DEF RunCommits, StrayCommits
<1>2. r \in Live /\ r.keyed = TRUE
  BY <1>1 DEF Live, Commit, KeyedInv
<1>3. commits = 0 /\ commits' = 1
  BY <1>1, <1>2 DEF KeyedInv, Commit
<1>4. receipt' = "kept" /\ receipt' # None
  BY <1>1, <1>2, RecoveryAssumption DEF Commit
<1>5. strays' = Doom(strays)
  BY <1>1 DEF Commit
<1>6. strays' \subseteq Runs /\ \A s \in strays' : s.keyed = TRUE /\ s.doomed = TRUE
  BY <1>5, DoomKeeps DEF KeyedInv
<1>7. \/ run' = None
      \/ run' \in Runs /\ run'.keyed = TRUE /\ run'.doomed = TRUE
  <2>1. \/ run' = None
        \/ run # None /\ run' = [run EXCEPT !.doomed = TRUE]
    BY DEF RunCommits, StrayCommits
  <2>2. QED
    BY <2>1 DEF KeyedInv, Runs
<1>8. QED
  BY <1>3, <1>4, <1>6, <1>7 DEF KeyedInv, Live

\* A run that ends without committing only leaves.
LEMMA RunFailsKeeps ==
    ASSUME KeyedInv, RunFails
    PROVE  KeyedInv'
<1>1. /\ UNCHANGED <<commits, receipt>> /\ strays' \subseteq strays
      /\ run' = None \/ run' = run
  BY DEF RunFails
<1>2. QED
  BY <1>1 DEF KeyedInv, Live

\* A turn of another surface dooms every run.
LEMMA OtherTurnKeeps ==
    ASSUME KeyedInv, OtherTurn
    PROVE  KeyedInv'
<1>1. UNCHANGED <<commits, receipt>> /\ strays' = Doom(strays)
  BY DEF OtherTurn
<1>2. strays' \subseteq Runs /\ \A s \in strays' : s.keyed = TRUE /\ s.doomed = TRUE
  BY <1>1, DoomKeeps DEF KeyedInv
<1>3. \/ run' = None
      \/ run' \in Runs /\ run'.keyed = TRUE /\ run'.doomed = TRUE
  <2>1. \/ run' = None
        \/ run # None /\ run' = [run EXCEPT !.doomed = TRUE]
    BY DEF OtherTurn
  <2>2. QED
    BY <2>1 DEF KeyedInv, Runs
<1>4. QED
  BY <1>1, <1>2, <1>3 DEF KeyedInv, Live

LEMMA ForgetReplyKeeps ==
    ASSUME KeyedInv, ForgetReply
    PROVE  KeyedInv'
BY RecoveryAssumption DEF ForgetReply, KeyedInv, Live

LEMMA KeyedStep == KeyedInv /\ [Next]_vars => KeyedInv'
<1> SUFFICES ASSUME KeyedInv, [Next]_vars PROVE KeyedInv'
  OBVIOUS
<1>1. CASE Client
  BY <1>1, ClientKeeps
<1>2. CASE Arrive
  BY <1>2, ArriveKeeps
<1>3. CASE RunCommits \/ StrayCommits
  BY <1>3, CommitsKeeps
<1>4. CASE RunFails
  BY <1>4, RunFailsKeeps
<1>5. CASE OtherTurn
  BY <1>5, OtherTurnKeeps
<1>6. CASE ForgetReply
  BY <1>6, ForgetReplyKeeps
<1>7. CASE Refuse \/ RefuseByCase \/ BeginShutdown \/ UNCHANGED vars
  <2>1. UNCHANGED backVars
    BY <1>7 DEF Refuse, RefuseByCase, BeginShutdown, vars
  <2>2. QED
    BY <2>1 DEF backVars, KeyedInv, Live
<1>8. QED
  BY <1>1, <1>2, <1>3, <1>4, <1>5, <1>6, <1>7 DEF Next, Backend

(***************************************************************************)
(* However often it is sent, with a claim store or without, across lost    *)
(* answers, re-posts, polls and conflicts, a turn commits at most once.    *)
(***************************************************************************)
THEOREM OneCommitHolds == Spec => []OneCommit
<1>1. KeyedInv => OneCommit
  BY DEF KeyedInv, OneCommit
<1>2. QED
  BY KeyedInit, KeyedStep, <1>1, PTL DEF Spec

(***************************************************************************)
(* The recovery loop's bookkeeping: its clock, its counters, its doubt.    *)
(***************************************************************************)

ClockOK ==
    /\ left \in 0..Bound /\ alloc \in 0..Attempt /\ overtime \in 0..Attempt
    /\ wait \in Nat

\* An attempt's share is within what is left and so is a sleep; after shutdown
\* begins only the attempt in flight, or one already due, spends any time.
ClockInv ==
    /\ pc = "flight" => alloc <= left /\ overtime + alloc <= Attempt
    /\ pc = "sleep" => wait <= left
    /\ pc \in {"start", "token", "send", "sleep"} => overtime = 0
    /\ ~stopping => overtime = 0
    /\ overtime + left <= Bound

CountsInv ==
    /\ backoff \in BackoffFirst..BackoffMax
    /\ conflicts \in 0..1 /\ llm \in 0..LlmResends

\* A fresh run is owed only where nothing may have committed and a whole attempt
\* fits; once the last ask's wait is over no more than LastAsk is left.
DoubtInv ==
    /\ pc \in {"start", "token", "send", "flight", "retry", "sleep", "done"}
    /\ pending \in {None, "unknown", "nothing"}
    /\ maybe \in BOOLEAN /\ fresh \in BOOLEAN /\ lastAsk \in BOOLEAN /\ stopping \in BOOLEAN
    /\ DoubtIsPending
    /\ pc \in {"start", "token", "flight"} => ~fresh
    /\ fresh => pending # "unknown"
    /\ FreshRunFits
    /\ pc = "sleep" /\ fresh => left >= wait + Attempt
    /\ pc = "sleep" /\ lastAsk => left <= wait + LastAsk
    /\ pc \notin {"sleep", "done"} /\ lastAsk => left <= LastAsk
    /\ GivesUpLate
    /\ pc # "done" => answer = None

LoopInv == ClockOK /\ ClockInv /\ CountsInv /\ DoubtInv

LEMMA LoopInit == Init => LoopInv
<1>1. Init => ClockOK /\ ClockInv
  BY RecoveryAssumption DEF Init, ClockOK, ClockInv
<1>2. Init => CountsInv
  BY RecoveryAssumption DEF Init, CountsInv
<1>3. Init => DoubtInv
  BY RecoveryAssumption DEF Init, DoubtInv, DoubtIsPending, FreshRunFits, GivesUpLate
<1>4. QED
  BY <1>1, <1>2, <1>3 DEF LoopInv

(***************************************************************************)
(* The loop's steps are of a few kinds.                                    *)
(***************************************************************************)

\* The step takes no more time than there is.
InTime ==
    /\ left' \in 0..left /\ alloc' \in 0..Attempt
    /\ overtime' \in 0..Attempt /\ overtime' + left' <= Bound
    /\ ~stopping => overtime' = 0
    /\ UNCHANGED stopping

LEMMA SpendInTime ==
    ASSUME LoopInv, pc = "flight", NEW t \in 0..alloc, Spend(t), UNCHANGED stopping
    PROVE  InTime
BY RecoveryAssumption DEF LoopInv, ClockOK, ClockInv, Spend, InTime

LEMMA NoTimeInTime ==
    ASSUME LoopInv, UNCHANGED timeVars, UNCHANGED stopping
    PROVE  InTime
BY RecoveryAssumption DEF LoopInv, ClockOK, ClockInv, timeVars, InTime

LEMMA StopsOrRounds ==
    ASSUME LoopInv, InTime, pc' \in {"retry", "done"}, wait' \in Nat
    PROVE  ClockOK' /\ ClockInv'
<1>1. ClockOK'
  BY RecoveryAssumption DEF LoopInv, ClockOK, InTime
<1>2. ClockInv'
  BY DEF ClockInv, InTime
<1>3. QED
  BY <1>1, <1>2

\* The intervals the loop waits are those its types allow.
LEMMA BackoffTyped ==
    ASSUME LoopInv, AfterBackoff
    PROVE  backoff' \in BackoffFirst..BackoffMax /\ wait' \in Nat
BY RecoveryAssumption DEF LoopInv, CountsInv, AfterBackoff, _next_backoff, Smaller

LEMMA PollTyped ==
    ASSUME NEW ra \in RetryAfters
    PROVE  _in_progress_poll_seconds(ra) \in Nat
BY RecoveryAssumption DEF _in_progress_poll_seconds, Smaller, Larger

LEMMA PacedTyped ==
    ASSUME LoopInv, NEW ra \in RetryAfters, Paced(ra)
    PROVE  backoff' \in BackoffFirst..BackoffMax /\ wait' \in Nat
BY BackoffTyped, PollTyped DEF LoopInv, CountsInv, Paced

\* submit_turn returns or raises; it raises the unknown outcome late only.
LEMMA EndKeeps ==
    ASSUME LoopInv, NEW how, End(how), InTime,
           how = "unknown" => stopping \/ left' <= LastAsk
    PROVE  LoopInv'
<1>1. ClockOK' /\ ClockInv'
  BY StopsOrRounds DEF LoopInv, ClockOK, End
<1>2. CountsInv'
  BY DEF LoopInv, CountsInv, End, loopVars
<1>3. DoubtInv'
  BY DEF LoopInv, DoubtInv, DoubtIsPending, FreshRunFits, GivesUpLate, InTime, End, loopVars
<1>4. QED
  BY <1>1, <1>2, <1>3 DEF LoopInv

\* The attempt's answer sends the loop round: in doubt, sure that nothing has
\* committed, or as much in doubt as before.
LEMMA RoundKeeps ==
    ASSUME LoopInv, pc = "flight", Again, InTime,
           wait' \in Nat, backoff' \in BackoffFirst..BackoffMax,
           conflicts' \in 0..1, llm' \in 0..LlmResends, lastAsk' = lastAsk,
           \/ InDoubt /\ UNCHANGED fresh
           \/ pending' = "nothing" /\ maybe' = FALSE /\ fresh' = TRUE
           \/ maybe /\ UNCHANGED <<pending, maybe, fresh>>
    PROVE  LoopInv'
<1>1. ClockOK' /\ ClockInv'
  BY StopsOrRounds DEF Again
<1>2. CountsInv'
  BY DEF CountsInv
<1>3. pending' \in {"unknown", "nothing"} /\ maybe' \in BOOLEAN /\ fresh' \in BOOLEAN
  BY DEF LoopInv, DoubtInv, DoubtIsPending, InDoubt
<1>4. (maybe' <=> pending' = "unknown") /\ (fresh' => pending' # "unknown")
  BY DEF LoopInv, DoubtInv, DoubtIsPending, InDoubt
<1>5. lastAsk' => left' <= LastAsk
  BY RecoveryAssumption DEF LoopInv, ClockOK, ClockInv, DoubtInv, InTime
<1>6. DoubtInv'
  BY <1>3, <1>4, <1>5, RecoveryAssumption DEF LoopInv, DoubtInv, DoubtIsPending, FreshRunFits,
     GivesUpLate, InTime, Again, endVars
<1>7. QED
  BY <1>1, <1>2, <1>6 DEF LoopInv

(***************************************************************************)
(* The steps that read an attempt's outcome end the turn or go round.      *)
(***************************************************************************)

LEMMA ReadingInTime ==
    ASSUME LoopInv, NEW responses, Reading(responses)
    PROVE  InTime /\ pc = "flight" /\ resp \in responses
BY SpendInTime DEF Reading

LEMMA LostAnswerKeeps ==
    ASSUME LoopInv, Unanswered \/ NeverReached
    PROVE  LoopInv'
<1>1. InTime /\ pc = "flight"
  BY SpendInTime DEF Unanswered, NeverReached
<1>2. CASE Unanswered
  <2>1. Again /\ InDoubt /\ AfterBackoff /\ UNCHANGED <<conflicts, llm, fresh, lastAsk>>
    BY <1>2 DEF Unanswered
  <2>2. QED
    BY <1>1, <2>1, BackoffTyped, RoundKeeps DEF LoopInv, CountsInv
<1>3. CASE NeverReached /\ ~maybe
  BY <1>1, <1>3, EndKeeps DEF NeverReached
<1>4. CASE NeverReached /\ maybe
  <2>1. /\ Again /\ AfterBackoff
        /\ UNCHANGED <<pending, maybe, conflicts, llm, fresh, lastAsk>>
    BY <1>4 DEF NeverReached
  <2>2. QED
    BY <1>1, <1>4, <2>1, BackoffTyped, RoundKeeps DEF LoopInv, CountsInv
<1>5. QED
  BY <1>2, <1>3, <1>4

LEMMA ConclusiveKeeps ==
    ASSUME LoopInv, Answered \/ NoLocation \/ RanOutOfTime \/ Other
    PROVE  LoopInv'
<1>1. CASE Answered
  BY <1>1, ReadingInTime, EndKeeps DEF Answered
<1>2. CASE NoLocation
  BY <1>2, NoTimeInTime, EndKeeps DEF NoLocation
<1>3. CASE RanOutOfTime
  <2>1. PICK how \in {"narrow", "nothing"} : End(how)
    BY <1>3 DEF RanOutOfTime
  <2>2. QED
    BY <1>3, <2>1, ReadingInTime, EndKeeps DEF RanOutOfTime
<1>4. CASE Other
  <2>1. PICK how : End(how) /\ how # "unknown"
    BY <1>4 DEF Other, Reading, OfTheCase
  <2>2. QED
    BY <1>4, <2>1, ReadingInTime, EndKeeps DEF Other
<1>5. QED
  BY <1>1, <1>2, <1>3, <1>4

LEMMA LlmTimeoutKeeps ==
    ASSUME LoopInv, LlmTimeout
    PROVE  LoopInv'
<1>1. InTime /\ pc = "flight"
  BY ReadingInTime DEF LlmTimeout
<1>2. CASE llm = LlmResends
  BY <1>1, <1>2, EndKeeps DEF LlmTimeout
<1>3. CASE llm # LlmResends
  <2>1. /\ Again /\ pending' = "nothing" /\ maybe' = FALSE /\ fresh' = TRUE
        /\ UNCHANGED <<conflicts, lastAsk>>
    BY <1>3 DEF LlmTimeout
  <2>2. llm' \in 0..LlmResends
    BY <1>3, RecoveryAssumption DEF LlmTimeout, LoopInv, CountsInv
  <2>3. PICK ra \in RetryAfters : Paced(ra)
    BY <1>3 DEF LlmTimeout
  <2>4. QED
    BY <1>1, <2>1, <2>2, <2>3, PacedTyped, RoundKeeps DEF LoopInv, CountsInv
<1>4. QED
  BY <1>2, <1>3

LEMMA InProgressKeeps ==
    ASSUME LoopInv, InProgress
    PROVE  LoopInv'
<1>1. InTime /\ pc = "flight"
  BY ReadingInTime DEF InProgress
<1>2. /\ Again /\ InDoubt /\ UNCHANGED <<backoff, conflicts, llm, fresh, lastAsk>>
      /\ wait' \in Nat
  BY PollTyped DEF InProgress
<1>3. QED
  BY <1>1, <1>2, RoundKeeps DEF LoopInv, CountsInv

LEMMA VersionConflictKeeps ==
    ASSUME LoopInv, VersionConflict
    PROVE  LoopInv'
<1>1. InTime /\ pc = "flight"
  BY ReadingInTime DEF VersionConflict
<1>2. CASE maybe /\ conflicts = 0
  <2>1. /\ Again /\ conflicts' = 1 /\ wait' = 0
        /\ UNCHANGED <<pending, maybe, backoff, llm, fresh, lastAsk>>
    BY <1>2 DEF VersionConflict
  <2>2. QED
    BY <1>1, <1>2, <2>1, RoundKeeps DEF LoopInv, CountsInv
<1>3. CASE ~(maybe /\ conflicts = 0)
  BY <1>1, <1>3, EndKeeps DEF VersionConflict
<1>4. QED
  BY <1>2, <1>3

LEMMA LimitedKeeps ==
    ASSUME LoopInv, Limited
    PROVE  LoopInv'
<1>1. InTime /\ pc = "flight" /\ resp \in {"rateLimited", "cap"}
  BY ReadingInTime DEF Limited
<1>2. CASE ~maybe /\ End(resp)
  BY <1>1, <1>2, EndKeeps
<1>3. CASE /\ maybe /\ Again /\ AfterBackoff
           /\ UNCHANGED <<pending, maybe, conflicts, llm, fresh, lastAsk>>
  BY <1>1, <1>3, BackoffTyped, RoundKeeps DEF LoopInv, CountsInv
<1>4. CASE \E how \in {"capped", "unchecked"} : End(how)
  BY <1>1, <1>4, EndKeeps
<1>5. ASSUME maybe, NEW ra \in RetryAfters \ {None}, Again, wait' = Larger(ra, PollMin),
             UNCHANGED loopVars
      PROVE  LoopInv'
  <2>1. wait' \in Nat
    BY <1>5, RecoveryAssumption DEF Larger
  <2>2. QED
    BY <1>1, <1>5, <2>1, RoundKeeps DEF LoopInv, CountsInv, loopVars
<1>6. QED
  BY <1>2, <1>3, <1>4, <1>5 DEF Limited

LEMMA OverloadedKeeps ==
    ASSUME LoopInv, Overloaded
    PROVE  LoopInv'
<1>1. InTime /\ pc = "flight"
  BY ReadingInTime DEF Overloaded
<1>2. CASE ~maybe
  BY <1>1, <1>2, EndKeeps DEF Overloaded
<1>3. CASE maybe
  <2>1. /\ maybe /\ Again /\ UNCHANGED <<pending, maybe, conflicts, llm, fresh, lastAsk>>
    BY <1>3 DEF Overloaded
  <2>2. PICK ra \in RetryAfters : Paced(ra)
    BY <1>3 DEF Overloaded
  <2>3. QED
    BY <1>1, <2>1, <2>2, PacedTyped, RoundKeeps DEF LoopInv, CountsInv
<1>4. QED
  BY <1>2, <1>3

(***************************************************************************)
(* The steps outside an attempt.                                           *)
(***************************************************************************)

\* What a token cannot be had for is raised; it takes no time to find out.
LEMMA NoTokenKeeps ==
    ASSUME LoopInv, InTime, NoToken
    PROVE  LoopInv'
<1>1. PICK how \in {"plain"} \union NoAccess : End(how)
  BY DEF NoToken
<1>2. how # "unknown"
  BY DEF NoAccess
<1>3. QED
  BY <1>1, <1>2, EndKeeps

LEMMA BeginKeeps ==
    ASSUME LoopInv, Begin
    PROVE  LoopInv'
<1>1. CASE stopping /\ End("notStarted")
  BY <1>1, NoTimeInTime, EndKeeps DEF Begin
<1>2. CASE pc' = "token" /\ UNCHANGED <<loopVars, wait, endVars>>
  BY <1>2 DEF Begin, LoopInv, ClockOK, ClockInv, CountsInv, DoubtInv, DoubtIsPending,
     FreshRunFits, GivesUpLate, loopVars, timeVars, endVars
<1>3. QED
  BY <1>1, <1>2 DEF Begin

LEMMA AcquireTokenKeeps ==
    ASSUME LoopInv, AcquireToken
    PROVE  LoopInv'
<1>1. InTime /\ pc = "token"
  BY RecoveryAssumption DEF AcquireToken, LoopInv, ClockOK, ClockInv, InTime
<1>2. CASE NoToken
  BY <1>1, <1>2, NoTokenKeeps
<1>3. CASE End("notStarted")
  BY <1>1, <1>3, EndKeeps
<1>4. CASE pc' = "send" /\ UNCHANGED <<loopVars, wait, endVars>>
  <2>1. ClockOK' /\ ClockInv' /\ CountsInv'
    BY <1>1, <1>4, RecoveryAssumption
       DEF AcquireToken, InTime, LoopInv, ClockOK, ClockInv, CountsInv, loopVars
  <2>2. DoubtInv'
    BY <1>1, <1>4, RecoveryAssumption
       DEF InTime, LoopInv, ClockOK, DoubtInv, DoubtIsPending, FreshRunFits, GivesUpLate,
           loopVars, endVars
  <2>3. QED
    BY <2>1, <2>2 DEF LoopInv
<1>5. QED
  BY <1>2, <1>3, <1>4 DEF AcquireToken

LEMMA SumMonotone ==
    ASSUME NEW a \in Nat, NEW b \in Nat, NEW c \in 0..b, NEW d \in Nat, a + b <= d
    PROVE  a + c <= d
OBVIOUS

\* Time spent on tokens leaves the bound's arithmetic alone.
LEMMA TokenTime ==
    ASSUME LoopInv, left' \in 0..left, UNCHANGED overtime
    PROVE  overtime' + left' <= Bound
<1>1. overtime \in Nat /\ left \in Nat /\ overtime + left <= Bound /\ Bound \in Nat
  BY RecoveryAssumption DEF LoopInv, ClockOK, ClockInv
<1>2. QED
  BY <1>1, SumMonotone

\* An attempt begins, or its time is gone before it can.
LEMMA PostKeeps ==
    ASSUME LoopInv, pc \in {"send", "flight"},
           NEW room \in 0..Attempt, NEW repost, Post(room, repost),
           left' \in 0..left, room <= left', overtime + room <= Attempt,
           fresh' = FALSE,
           UNCHANGED <<conflicts, llm, lastAsk, overtime, answer, stopping>>
    PROVE  LoopInv'
<1>1. ClockOK'
  BY RecoveryAssumption, BackoffTyped DEF LoopInv, ClockOK, Post
<1>2. ClockInv'
  <2>1. overtime' + left' <= Bound
    BY TokenTime
  <2>2. (pc' = "flight" /\ alloc' = room) \/ pc' = "retry"
    BY DEF Post, Again
  <2>3. QED
    BY <2>1, <2>2 DEF LoopInv, ClockInv
<1>3. CountsInv'
  BY BackoffTyped DEF LoopInv, CountsInv, Post
<1>4. lastAsk' => left' <= LastAsk
  BY RecoveryAssumption DEF LoopInv, ClockOK, DoubtInv
<1>5. ASSUME room > 0 PROVE DoubtInv'
  <2>1. pc' = "flight" /\ UNCHANGED <<pending, maybe>>
    BY <1>5 DEF Post
  <2>2. QED
    BY <1>4, <2>1, RecoveryAssumption
       DEF LoopInv, DoubtInv, DoubtIsPending, FreshRunFits, GivesUpLate
<1>6. ASSUME ~(room > 0) PROVE DoubtInv'
  <2>1. pc' = "retry" /\ InDoubt
    BY <1>6 DEF Post, Again
  <2>2. QED
    BY <1>4, <2>1, RecoveryAssumption
       DEF LoopInv, DoubtInv, DoubtIsPending, FreshRunFits, GivesUpLate, InDoubt
<1>7. QED
  BY <1>1, <1>2, <1>3, <1>5, <1>6 DEF LoopInv

LEMMA SendKeeps ==
    ASSUME LoopInv, Send
    PROVE  LoopInv'
<1> DEFINE cap == Smaller(Attempt, left)
<1>1. PICK t \in 0..left : /\ left' = left - t
                           /\ Post(IF t < cap THEN cap - t ELSE 0, FALSE)
  BY DEF Send
<1>2. cap \in 0..Attempt /\ cap <= left
  BY RecoveryAssumption DEF Smaller, LoopInv, ClockOK
<1>3. PICK room : room = (IF t < cap THEN cap - t ELSE 0)
  OBVIOUS
<1> HIDE DEF cap
<1>4. room \in 0..Attempt /\ room <= left' /\ left' \in 0..left
  BY <1>1, <1>2, <1>3, RecoveryAssumption DEF LoopInv, ClockOK
<1>5. pc = "send" /\ overtime = 0 /\ fresh' = FALSE
  BY DEF Send, LoopInv, ClockInv
<1>6. UNCHANGED <<conflicts, llm, lastAsk, overtime, answer, stopping>>
  BY DEF Send, endVars
<1>7. overtime + room <= Attempt
  BY <1>4, <1>5, RecoveryAssumption
<1>8. QED
  BY <1>1, <1>3, <1>4, <1>5, <1>6, <1>7, PostKeeps

LEMMA ReauthKeeps ==
    ASSUME LoopInv, Reauth
    PROVE  LoopInv'
<1>1. PICK room : \E t \in 0..left :
          /\ left' = left - t
          /\ room = (IF t < alloc THEN alloc - t ELSE 0)
          /\ \/ room > 0 /\ alloc' = room /\ UNCHANGED <<pc, pending, maybe, backoff, wait>>
             \/ Post(room, TRUE)
  BY DEF Reauth
<1>2. pc = "flight" /\ UNCHANGED <<fresh, conflicts, llm, lastAsk, overtime, answer, stopping>>
  BY DEF Reauth, endVars
<1>3. room \in 0..alloc /\ room \in 0..Attempt /\ room <= left' /\ left' \in 0..left
  BY <1>1, <1>2, RecoveryAssumption DEF LoopInv, ClockOK, ClockInv
<1>4. overtime + room <= Attempt /\ fresh' = FALSE
  BY <1>2, <1>3, RecoveryAssumption DEF LoopInv, ClockOK, ClockInv, DoubtInv
<1>5. CASE Post(room, TRUE)
  BY <1>2, <1>3, <1>4, <1>5, PostKeeps
<1>6. CASE room > 0 /\ alloc' = room /\ UNCHANGED <<pc, pending, maybe, backoff, wait>>
  <2>1. ClockOK'
    BY <1>2, <1>3, <1>6, RecoveryAssumption DEF LoopInv, ClockOK
  <2>2. ClockInv'
    <3>1. overtime' + left' <= Bound
      BY <1>2, <1>3, TokenTime
    <3>2. QED
      BY <1>2, <1>3, <1>4, <1>6, <3>1 DEF LoopInv, ClockInv
  <2>3. CountsInv'
    BY <1>2, <1>6 DEF LoopInv, CountsInv
  <2>4. DoubtInv'
    BY <1>2, <1>3, <1>4, <1>6, RecoveryAssumption
       DEF LoopInv, ClockOK, DoubtInv, DoubtIsPending, FreshRunFits, GivesUpLate
  <2>5. QED
    BY <2>1, <2>2, <2>3, <2>4 DEF LoopInv
<1>7. QED
  BY <1>1, <1>5, <1>6

\* Nothing is left to ask with: with an unknown outcome that is at the bound only.
LEMMA GiveUpKeeps ==
    ASSUME LoopInv, GiveUp
    PROVE  LoopInv'
<1>1. InTime /\ End(pending)
  BY NoTimeInTime DEF GiveUp
<1>2. pending = "unknown" => stopping \/ left' <= LastAsk
  <2>1. left' = left /\ pc = "retry" /\ Overdue
    BY DEF GiveUp, timeVars
  <2>2. pending = "unknown" => left = 0 \/ stopping \/ lastAsk
    BY <2>1 DEF Overdue, LoopInv, DoubtInv
  <2>3. QED
    BY <2>1, <2>2, RecoveryAssumption DEF LoopInv, DoubtInv
<1>3. QED
  BY <1>1, <1>2, EndKeeps

LEMMA CutShortKeeps ==
    ASSUME LoopInv, CutShort
    PROVE  LoopInv'
<1>1. /\ pc = "retry" /\ pc' = "sleep" /\ wait >= left /\ lastAsk' = TRUE
      /\ ~stopping /\ (fresh => left >= wait + Attempt)
      /\ wait' = IF left > LastAsk THEN left - LastAsk ELSE 0
      /\ UNCHANGED <<pending, maybe, backoff, conflicts, llm, fresh, left, alloc, overtime,
                     answer, stopping>>
  BY DEF CutShort, Overdue, Fits, timeVars, endVars
<1>2. wait' \in 0..left /\ left <= wait' + LastAsk
  BY <1>1, RecoveryAssumption DEF LoopInv, ClockOK
<1>3. fresh => left >= wait' + Attempt
  BY <1>1, <1>2, RecoveryAssumption DEF LoopInv, ClockOK
<1>4. ClockOK' /\ ClockInv' /\ CountsInv'
  BY <1>1, <1>2 DEF LoopInv, ClockOK, ClockInv, CountsInv
<1>5. DoubtInv'
  BY <1>1, <1>2, <1>3 DEF LoopInv, DoubtInv, DoubtIsPending, FreshRunFits, GivesUpLate
<1>6. QED
  BY <1>4, <1>5 DEF LoopInv

LEMMA WaitKeeps ==
    ASSUME LoopInv, Wait
    PROVE  LoopInv'
<1>1. /\ pc = "retry" /\ pc' = "sleep" /\ wait < left
      /\ ~stopping /\ (fresh => left >= wait + Attempt)
      /\ UNCHANGED <<pending, maybe, backoff, conflicts, llm, fresh, lastAsk, wait, left,
                     alloc, overtime, answer, stopping>>
  BY DEF Wait, Overdue, Fits, loopVars, timeVars, endVars
<1>2. ClockOK' /\ ClockInv' /\ CountsInv'
  BY <1>1 DEF LoopInv, ClockOK, ClockInv, CountsInv
<1>3. lastAsk => left <= wait + LastAsk
  BY <1>1, RecoveryAssumption DEF LoopInv, ClockOK, DoubtInv
<1>4. DoubtInv'
  BY <1>1, <1>3 DEF LoopInv, DoubtInv, DoubtIsPending, FreshRunFits, GivesUpLate
<1>5. QED
  BY <1>2, <1>4 DEF LoopInv

LEMMA SleepKeeps ==
    ASSUME LoopInv, Sleep
    PROVE  LoopInv'
<1>1. CASE stopping /\ End(pending) /\ UNCHANGED left
  BY <1>1, NoTimeInTime, EndKeeps DEF Sleep, timeVars
<1>2. CASE left' = left - wait /\ pc' = "send" /\ UNCHANGED <<loopVars, wait, endVars>>
  <2>1. /\ pc = "sleep" /\ wait <= left /\ UNCHANGED <<alloc, overtime, stopping>>
    BY DEF Sleep, LoopInv, ClockInv
  <2>2. ClockOK'
    BY <1>2, <2>1, RecoveryAssumption DEF LoopInv, ClockOK, loopVars
  <2>3. ClockInv' /\ CountsInv'
    BY <1>2, <2>1, RecoveryAssumption DEF LoopInv, ClockOK, ClockInv, CountsInv, loopVars
  <2>4. DoubtInv'
    BY <1>2, <2>1, RecoveryAssumption DEF LoopInv, ClockOK, DoubtInv, DoubtIsPending, FreshRunFits,
       GivesUpLate, loopVars, endVars
  <2>5. QED
    BY <2>2, <2>3, <2>4 DEF LoopInv
<1>3. QED
  BY <1>1, <1>2 DEF Sleep

(***************************************************************************)
(* What the loop's bookkeeping gives.                                      *)
(***************************************************************************)

\* Neither the backend nor the start of a shutdown disturbs it.
LEMMA OutsideKeeps ==
    ASSUME LoopInv, Backend \/ BeginShutdown \/ UNCHANGED vars
    PROVE  LoopInv'
<1>1. UNCHANGED <<pc, loopVars, wait, timeVars, answer>>
  BY DEF Backend, Arrive, Refuse, RefuseByCase, RunCommits, StrayCommits, Commit, RunFails,
     OtherTurn, ForgetReply, BeginShutdown, endVars, vars
<1>2. stopping' = stopping \/ stopping' = TRUE
  BY DEF Backend, Arrive, Refuse, RefuseByCase, RunCommits, StrayCommits, Commit, RunFails,
     OtherTurn, ForgetReply, BeginShutdown, vars
<1>3. ClockOK' /\ ClockInv' /\ CountsInv'
  BY <1>1, <1>2 DEF LoopInv, ClockOK, ClockInv, CountsInv, loopVars, timeVars
<1>4. DoubtInv'
  BY <1>1, <1>2 DEF LoopInv, DoubtInv, DoubtIsPending, FreshRunFits, GivesUpLate, loopVars, timeVars
<1>5. QED
  BY <1>3, <1>4 DEF LoopInv

LEMMA LoopStep == LoopInv /\ [Next]_vars => LoopInv'
<1> SUFFICES ASSUME LoopInv, [Next]_vars PROVE LoopInv'
  OBVIOUS
<1>1. CASE RenewalFails \/ ReauthFails
  <2>1. NoToken /\ UNCHANGED <<timeVars, stopping>>
    BY <1>1 DEF RenewalFails, ReauthFails
  <2>2. QED
    BY <2>1, NoTimeInTime, NoTokenKeeps
<1>2. CASE Begin \/ AcquireToken \/ Send \/ Reauth \/ GiveUp \/ CutShort \/ Wait \/ Sleep
  BY <1>2, BeginKeeps, AcquireTokenKeeps, SendKeeps, ReauthKeeps, GiveUpKeeps,
     CutShortKeeps, WaitKeeps, SleepKeeps
<1>3. CASE \/ Unanswered \/ NeverReached \/ Answered \/ NoLocation \/ LlmTimeout \/ RanOutOfTime
           \/ InProgress \/ VersionConflict \/ Limited \/ Overloaded \/ Other
  BY <1>3, LostAnswerKeeps, ConclusiveKeeps, LlmTimeoutKeeps, InProgressKeeps,
     VersionConflictKeeps, LimitedKeeps, OverloadedKeeps
<1>4. CASE Backend \/ BeginShutdown \/ UNCHANGED vars
  BY <1>4, OutsideKeeps
<1>5. QED
  BY <1>1, <1>2, <1>3, <1>4 DEF Next, Client

\* Whenever the loop goes round there is an outcome to raise, the unknown one
\* exactly while an attempt may have committed (pending, maybe_committed).
THEOREM DoubtStaysPending == Spec => []DoubtIsPending
<1>1. LoopInv => DoubtIsPending
  BY DEF LoopInv, DoubtInv
<1>2. QED
  BY LoopInit, LoopStep, <1>1, PTL DEF Spec

\* A charged run after a labelled 504 starts only with a whole attempt to run in,
\* whatever the intervals and the bound (fresh_run_next).
THEOREM FreshRunsFit == Spec => []FreshRunFits
<1>1. LoopInv => FreshRunFits
  BY DEF LoopInv, DoubtInv
<1>2. QED
  BY LoopInit, LoopStep, <1>1, PTL DEF Spec

\* A turn is not given up in doubt while the bound leaves room for an ask: the last
\* one is made within LastAsk of it (_LAST_ASK_SECONDS).
THEOREM GivenUpLate == Spec => []GivesUpLate
<1>1. LoopInv => GivesUpLate
  BY DEF LoopInv, DoubtInv
<1>2. QED
  BY LoopInit, LoopStep, <1>1, PTL DEF Spec

\* Once shutdown begins a turn takes one attempt's time at most, token work aside,
\* whatever the intervals and the bound (longest_attempt_seconds).
THEOREM ShutdownTakesOneAttempt == Spec => []DrainCovers
<1>1. LoopInv => DrainCovers
  BY RecoveryAssumption DEF LoopInv, ClockOK, DrainCovers
<1>2. QED
  BY LoopInit, LoopStep, <1>1, PTL DEF Spec

(***************************************************************************)
(* Type correctness.                                                       *)
(***************************************************************************)

FlightOK ==
    /\ reauthed \in BOOLEAN /\ polled \in BOOLEAN /\ arrived \in BOOLEAN
    /\ resp \in {None} \union Responses
    /\ claims \in BOOLEAN

ToldOK ==
    /\ answer \in {None, "reply"} \union Errors
    /\ advice \in {None, "reply", "resend", "noresend"}

\* What submit_turn ends with is a reply or one of the errors.
LEMMA EndTyped ==
    ASSUME NEW how \in {"reply"} \union Errors, End(how)
    PROVE  ToldOK'
BY DEF End, ToldOK

LEMMA ErrorClasses ==
    /\ {"plain", "credential", "unlinked", "notStarted", "unreached"} \subseteq Errors
    /\ {"unknown", "unchecked", "capped", "nothing", "narrow", "conflict"} \subseteq Errors
    /\ {"rateLimited", "cap", "coded5xx", "uncoded5xx", "replayLost", "unauthorized",
        "rejected"} \subseteq Errors
    /\ OfTheCase \subseteq Errors
BY DEF Errors, Unconfirmed, OwnAnswers, NoAccess, Throttled, Rejections, NothingCommitted,
   Transient, OfTheCase

LEMMA ToldStep ==
    ASSUME LoopInv, ToldOK, Next
    PROVE  ToldOK'
<1>1. CASE UNCHANGED endVars
  BY <1>1 DEF ToldOK, endVars
<1>2. CASE \E how \in {"reply"} \union Errors : End(how)
  BY <1>2, EndTyped
<1>3. NoToken => \E how \in {"reply"} \union Errors : End(how)
  BY ErrorClasses DEF NoToken, NoAccess
<1>4. CASE Begin \/ AcquireToken \/ RenewalFails \/ ReauthFails
  BY <1>1, <1>2, <1>3, <1>4, ErrorClasses DEF Begin, AcquireToken, RenewalFails, ReauthFails
<1>5. CASE Unanswered \/ NeverReached \/ Answered \/ NoLocation
  BY <1>1, <1>2, <1>5, ErrorClasses DEF Unanswered, NeverReached, Answered, NoLocation, Again
<1>6. CASE LlmTimeout \/ RanOutOfTime \/ InProgress \/ VersionConflict
  BY <1>1, <1>2, <1>6, ErrorClasses DEF LlmTimeout, RanOutOfTime, InProgress, VersionConflict, Again
<1>7. CASE Limited
  BY <1>1, <1>2, <1>7, ErrorClasses DEF Limited, Again, Reading
<1>8. CASE Overloaded \/ Other
  BY <1>1, <1>2, <1>8, ErrorClasses DEF Overloaded, Other, Again, Reading
<1>9. CASE GiveUp \/ Sleep
  <2>1. pending \in Errors
    BY <1>9, ErrorClasses DEF GiveUp, Sleep, LoopInv, DoubtInv, DoubtIsPending
  <2>2. QED
    BY <1>1, <1>2, <1>9, <2>1 DEF GiveUp, Sleep
<1>10. CASE Send \/ Reauth \/ CutShort \/ Wait
  BY <1>1, <1>10 DEF Send, Reauth, CutShort, Wait
<1>11. CASE Backend \/ BeginShutdown
  BY <1>1, <1>11 DEF Backend, Arrive, Refuse, RefuseByCase, RunCommits, StrayCommits, Commit,
     RunFails, OtherTurn, ForgetReply, BeginShutdown
<1>12. QED
  BY <1>4, <1>5, <1>6, <1>7, <1>8, <1>9, <1>10, <1>11 DEF Next, Client

LEMMA FlightStep ==
    ASSUME FlightOK, Next
    PROVE  FlightOK'
<1>1. CASE UNCHANGED <<flightVars, claims>>
  BY <1>1 DEF FlightOK, flightVars
<1>2. CASE Send
  BY <1>2 DEF Send, Post, FlightOK, flightVars
<1>3. CASE Reauth
  BY <1>3 DEF Reauth, Post, FlightOK, flightVars
<1>4. CASE Arrive
  BY <1>4 DEF Arrive, FlightOK, Responses
<1>5. CASE Refuse \/ RefuseByCase
  BY <1>5 DEF Refuse, RefuseByCase, FlightOK, backVars, Responses, OfTheCase
<1>6. CASE RunCommits \/ StrayCommits
  BY <1>6 DEF RunCommits, StrayCommits, Commit, FlightOK, Responses
<1>7. CASE RunFails
  BY <1>7 DEF RunFails, FlightOK, Responses
<1>8. CASE Client /\ ~Send /\ ~Reauth
  BY <1>1, <1>8 DEF Client, Begin, AcquireToken, RenewalFails, ReauthFails, Unanswered,
     NeverReached, Answered, NoLocation, LlmTimeout, RanOutOfTime, InProgress,
     VersionConflict, Limited, Overloaded, Other, Reading, GiveUp, CutShort, Wait, Sleep, backVars
<1>9. CASE OtherTurn \/ ForgetReply \/ BeginShutdown
  BY <1>1, <1>9 DEF OtherTurn, ForgetReply, BeginShutdown, backVars
<1>10. QED
  BY <1>2, <1>3, <1>4, <1>5, <1>6, <1>7, <1>8, <1>9 DEF Next, Backend

LEMMA TypeStep == LoopInv /\ FlightOK /\ ToldOK /\ [Next]_vars => FlightOK' /\ ToldOK'
<1>1. CASE UNCHANGED vars
  BY <1>1 DEF vars, flightVars, endVars, backVars, FlightOK, ToldOK
<1>2. CASE Next
  BY <1>2, ToldStep, FlightStep
<1>3. QED
  BY <1>1, <1>2

\* Every variable of a turn has its type, whatever the bounds and intervals.
THEOREM RecoveryTyped == Spec => []TypeOK
<1>1. Init => FlightOK /\ ToldOK
  BY RecoveryAssumption DEF Init, FlightOK, ToldOK
<1>2. KeyedInv /\ LoopInv /\ FlightOK /\ ToldOK => TypeOK
  <2> SUFFICES ASSUME KeyedInv, LoopInv, FlightOK, ToldOK PROVE TypeOK
    OBVIOUS
  <2>1. overtime \in 0..Bound
    BY RecoveryAssumption DEF LoopInv, ClockOK, ClockInv
  <2>2. commits \in Nat
    BY DEF KeyedInv
  <2>3. QED
    BY <2>1, <2>2 DEF TypeOK, KeyedInv, LoopInv, ClockOK, CountsInv, DoubtInv, FlightOK, ToldOK
<1>3. QED
  BY KeyedInit, KeyedStep, LoopInit, LoopStep, TypeStep, <1>1, <1>2, PTL DEF Spec

(***************************************************************************)
(* What the turn's sender is told implements TurnOutcome.                  *)
(***************************************************************************)

\* Nothing of the turn has committed, and nothing of it runs.
Untouched == run = None /\ strays = {} /\ commits = 0

\* Refusals count as settled: under a claim store, or before any of the two that
\* do not settle the turn without one.
Sure == claims \/ (llm = 0 /\ conflicts = 0)

\* What an answer says of the runs: with a claim store at most one runs at a time.
AnswerInv ==
    /\ pc = "flight" /\ ~arrived => run = None /\ resp = None /\ ~polled
    /\ pc = "flight" /\ resp # None /\ ~polled => run = None
    /\ pc = "flight" /\ resp = "ok" => commits = 1
    /\ pc = "flight" /\ resp = "deleting" => commits = 0 /\ Live = {}
    /\ pc = "flight" /\ claims /\ resp \in {"llm504", "request504", "other504", "conflict"}
           => Untouched
    /\ claims /\ run # None => strays = {} /\ commits = 0

\* The client not in doubt is right not to be, but for the run it is waiting for.
CertainInv ==
    /\ pc \in {"start", "token"} => Untouched
    /\ pc # "done" /\ ~maybe /\ Sure
           => /\ strays = {}
              /\ pc # "flight" => run = None /\ commits = 0
              /\ pc = "flight" /\ commits # 0 => polled \/ resp = "ok"

\* What its sender was told is so, and stays so.
ToldInv ==
    /\ pc # "done" => advice = None
    /\ advice = "reply" => commits = 1
    /\ advice = "resend" /\ ~Blind => commits = 0 /\ Live = {}

OutcomeInv == AnswerInv /\ CertainInv /\ ToldInv

LEMMA OutcomeInit == Init => OutcomeInv
BY RecoveryAssumption DEF Init, OutcomeInv, AnswerInv, CertainInv, ToldInv, Untouched

\* Blind, for a turn that ends with how.
BlindTo(how) ==
    \/ how \in {"plain", "unauthorized"}
    \/ polled
    \/ ~claims /\ (llm > 0 \/ conflicts > 0 \/ how \in NothingCommitted)

\* Ending with how tells no lie.
Honest(how) ==
    /\ how = "reply" => commits = 1
    /\ how \in {"conflict", "rateLimited", "deleting", "cap", "rejected"}
                  \union NothingCommitted \union Transient
       => BlindTo(how) \/ (commits = 0 /\ Live = {})

\* The classes an invitation can be for.
LEMMA Invitations ==
    ASSUME NEW how \in Errors, turn_error_text(how, stopping)
    PROVE  how \in {"conflict", "rateLimited", "deleting", "cap", "rejected", "unauthorized"}
                  \union NothingCommitted \union Transient
BY DEF Errors, turn_error_text, AboveOverride, Unconfirmed, OwnAnswers, NoAccess, Throttled,
   Rejections

LEMMA NothingLeft == Untouched => commits = 0 /\ Live = {}
BY DEF Untouched, Live

LEMMA EndTells ==
    ASSUME OutcomeInv, NEW how \in {"reply"} \union Errors, End(how), Honest(how),
           UNCHANGED backVars, UNCHANGED polled
    PROVE  OutcomeInv'
<1>1. /\ pc' = "done" /\ answer' = how
      /\ advice' = IF how = "reply" THEN "reply"
                   ELSE IF turn_error_text(how, stopping) THEN "resend" ELSE "noresend"
      /\ UNCHANGED <<llm, conflicts, claims, run, strays, commits, polled>>
  BY DEF End, loopVars, backVars
<1>2. AnswerInv' /\ CertainInv'
  BY <1>1 DEF OutcomeInv, AnswerInv, CertainInv
<1>3. Blind' = BlindTo(how)
  BY <1>1 DEF Blind, BlindTo
<1>4. Live' = Live
  BY <1>1 DEF Live
<1>5. advice' = "resend" /\ ~Blind' => commits = 0 /\ Live = {}
  BY <1>1, <1>3, Invitations DEF Honest, BlindTo
<1>6. ToldInv'
  BY <1>1, <1>4, <1>5, RecoveryAssumption DEF ToldInv, Honest
<1>7. QED
  BY <1>2, <1>6 DEF OutcomeInv

\* The loop goes round as much in doubt as it should be.
LEMMA RoundTells ==
    ASSUME OutcomeInv, pc = "flight", pc' \in {"retry", "sleep"}, UNCHANGED <<advice, backVars>>,
           maybe' \/ (~maybe' /\ (Sure' => Untouched))
    PROVE  OutcomeInv'
<1>1. UNCHANGED <<claims, run, strays, commits>>
  BY DEF backVars
<1>2. AnswerInv'
  BY <1>1 DEF OutcomeInv, AnswerInv
<1>3. CertainInv'
  BY <1>1 DEF CertainInv, Untouched
<1>4. ToldInv'
  BY RecoveryAssumption DEF OutcomeInv, ToldInv
<1>5. QED
  BY <1>2, <1>3, <1>4 DEF OutcomeInv

\* Between attempts nothing changes but the clock.
LEMMA RestTells ==
    ASSUME OutcomeInv, pc \in {"retry", "sleep", "send"}, pc' \in {"retry", "sleep", "send"},
           UNCHANGED <<maybe, llm, conflicts, advice, backVars>>
    PROVE  OutcomeInv'
<1>1. UNCHANGED <<claims, run, strays, commits>>
  BY DEF backVars
<1>2. AnswerInv'
  BY <1>1 DEF OutcomeInv, AnswerInv
<1>3. CertainInv'
  BY <1>1 DEF OutcomeInv, CertainInv, Untouched, Sure
<1>4. ToldInv'
  BY RecoveryAssumption DEF OutcomeInv, ToldInv
<1>5. QED
  BY <1>2, <1>3, <1>4 DEF OutcomeInv

\* A refusal of an attempt not in doubt is honest, whatever class it is raised as.
LEMMA RefusalHonest ==
    ASSUME LoopInv, FlightOK, OutcomeInv, pc = "flight", ~maybe,
           \/ resp \notin {None, "ok"}
           \/ ~arrived
           \/ polled,
           NEW how, how # "reply"
    PROVE  Honest(how)
<1>1. llm \in Nat /\ conflicts \in Nat
  BY RecoveryAssumption DEF LoopInv, CountsInv
<1>2. CASE polled \/ ~Sure
  <2>1. BlindTo(how)
    BY <1>1, <1>2 DEF BlindTo, Sure
  <2>2. QED
    BY <2>1 DEF Honest
<1>3. CASE ~polled /\ Sure
  <2>1. run = None /\ resp # "ok"
    BY <1>3, RecoveryAssumption DEF OutcomeInv, AnswerInv, Responses
  <2>2. strays = {} /\ commits = 0
    BY <1>3, <2>1 DEF OutcomeInv, CertainInv
  <2>3. QED
    BY <2>1, <2>2, NothingLeft DEF Honest, Untouched
<1>4. QED
  BY <1>2, <1>3

\* So is a labelled 504 or a conflict, in doubt or not.
LEMMA SettledHonest ==
    ASSUME FlightOK, OutcomeInv, pc = "flight", NEW how,
           \/ /\ resp \in {"llm504", "request504", "other504"}
              /\ how \in NothingCommitted
           \/ resp = "conflict" /\ how = "conflict" /\ (claims \/ BlindTo(how))
    PROVE  Honest(how)
<1>1. how # "reply"
  BY DEF NothingCommitted
<1>2. CASE claims
  BY <1>1, <1>2, NothingLeft DEF OutcomeInv, AnswerInv, Honest
<1>3. CASE ~claims
  BY <1>1, <1>3 DEF Honest, BlindTo
<1>4. QED
  BY <1>2, <1>3

LEMMA NoTokenTells ==
    ASSUME OutcomeInv, NoToken, UNCHANGED backVars, UNCHANGED polled
    PROVE  OutcomeInv'
<1>1. PICK how \in {"plain"} \union NoAccess : End(how)
  BY DEF NoToken
<1>2. how \in Errors
  BY <1>1 DEF Errors, Transient
<1>3. Honest(how)
  BY <1>1 DEF Honest, BlindTo, NoAccess, NothingCommitted, Transient
<1>4. QED
  BY <1>1, <1>2, <1>3, EndTells

LEMMA BeginTells ==
    ASSUME OutcomeInv, Begin \/ AcquireToken
    PROVE  OutcomeInv'
<1>1. pc \in {"start", "token"} /\ UNCHANGED <<backVars, flightVars>>
  BY DEF Begin, AcquireToken
<1>2. Untouched /\ advice = None
  BY <1>1 DEF OutcomeInv, CertainInv, ToldInv
<1>3. UNCHANGED <<polled, claims, run, strays, commits>>
  BY <1>1 DEF flightVars, backVars
<1>4. CASE NoToken
  BY <1>1, <1>3, <1>4, NoTokenTells
<1>5. CASE End("notStarted")
  <2>1. Honest("notStarted")
    BY <1>2, NothingLeft DEF Honest
  <2>2. QED
    BY <1>1, <1>3, <1>5, <2>1, EndTells, ErrorClasses
<1>6. CASE pc' \in {"token", "send"} /\ UNCHANGED <<loopVars, wait, endVars>>
  <2>1. advice' = None
    BY <1>2, <1>6 DEF endVars
  <2>2. AnswerInv' /\ CertainInv' /\ ToldInv'
    BY <1>2, <1>3, <1>6, <2>1, RecoveryAssumption DEF AnswerInv, CertainInv, ToldInv, Untouched
  <2>3. QED
    BY <2>2 DEF OutcomeInv
<1>7. QED
  BY <1>4, <1>5, <1>6 DEF Begin, AcquireToken

\* A post makes a stray of the run it gives up on: there is none unless in doubt.
LEMMA PostTells ==
    ASSUME OutcomeInv, NEW room, NEW repost, Post(room, repost),
           \/ pc = "send"
           \/ pc = "flight" /\ resp = "unauthorized" /\ (polled => ~(room > 0)),
           UNCHANGED <<llm, conflicts, advice, claims, commits>>
    PROVE  OutcomeInv'
<1>1. advice' = None
  BY DEF OutcomeInv, ToldInv
<1>2. ToldInv'
  BY <1>1, RecoveryAssumption DEF ToldInv
<1>3. CASE room > 0
  <2>1. /\ pc' = "flight" /\ arrived' = FALSE /\ resp' = None /\ polled' = FALSE
        /\ strays' = strays \union ({run} \ {None}) /\ run' = None
        /\ UNCHANGED maybe
    BY <1>3 DEF Post
  <2>2. AnswerInv'
    BY <2>1, RecoveryAssumption DEF AnswerInv, Responses, Outright, OfTheCase, Failures
  <2>3. ASSUME ~maybe, Sure PROVE strays = {} /\ run = None /\ commits = 0
    BY <1>3, <2>3, RecoveryAssumption
       DEF OutcomeInv, AnswerInv, CertainInv, Responses, Outright, OfTheCase, Failures
  <2>4. CertainInv'
    BY <2>1, <2>3 DEF CertainInv, Sure
  <2>5. QED
    BY <1>2, <2>2, <2>4 DEF OutcomeInv
<1>4. CASE ~(room > 0)
  <2>1. pc' = "retry" /\ maybe' = TRUE /\ UNCHANGED <<run, strays>>
    BY <1>4 DEF Post, Again, InDoubt
  <2>2. AnswerInv' /\ CertainInv'
    BY <2>1 DEF OutcomeInv, AnswerInv, CertainInv
  <2>3. QED
    BY <1>2, <2>2 DEF OutcomeInv
<1>5. QED
  BY <1>3, <1>4

LEMMA SendTells ==
    ASSUME OutcomeInv, Send
    PROVE  OutcomeInv'
<1>1. PICK room : Post(room, FALSE)
  BY DEF Send
<1>2. pc = "send" /\ UNCHANGED <<llm, conflicts, advice, claims, commits>>
  BY DEF Send, endVars
<1>3. QED
  BY <1>1, <1>2, PostTells

LEMMA ReauthTells ==
    ASSUME OutcomeInv, Reauth
    PROVE  OutcomeInv'
<1>1. PICK room : \/ /\ polled /\ room > 0
                     /\ resp' = None
                     /\ UNCHANGED <<pc, polled, arrived, run, strays, maybe>>
                  \/ (polled => ~(room > 0)) /\ Post(room, TRUE)
  BY DEF Reauth
<1>2. /\ pc = "flight" /\ resp = "unauthorized"
      /\ UNCHANGED <<llm, conflicts, advice, claims, commits>>
  BY DEF Reauth, endVars
<1>3. CASE (polled => ~(room > 0)) /\ Post(room, TRUE)
  BY <1>2, <1>3, PostTells
<1>4. CASE polled /\ resp' = None /\ UNCHANGED <<pc, polled, arrived, run, strays, maybe>>
  <2>1. AnswerInv'
    BY <1>2, <1>4, RecoveryAssumption
       DEF OutcomeInv, AnswerInv, Responses, Outright, OfTheCase, Failures
  <2>2. CertainInv'
    BY <1>2, <1>4 DEF OutcomeInv, CertainInv, Sure
  <2>3. ToldInv'
    BY <1>2, <1>4, RecoveryAssumption DEF OutcomeInv, ToldInv
  <2>4. QED
    BY <2>1, <2>2, <2>3 DEF OutcomeInv
<1>5. QED
  BY <1>1, <1>3, <1>4

\* An answer read, or none: the turn ends honestly, or goes round in doubt.
LEMMA ReadingTells ==
    ASSUME LoopInv, FlightOK, OutcomeInv,
           \/ Unanswered \/ NeverReached \/ Answered \/ NoLocation
           \/ InProgress \/ VersionConflict \/ Limited \/ Overloaded \/ Other \/ RanOutOfTime
    PROVE  OutcomeInv'
<1>1. pc = "flight" /\ UNCHANGED <<flightVars, backVars>>
  BY DEF Unanswered, NeverReached, Answered, NoLocation, RanOutOfTime, InProgress,
     VersionConflict, Limited, Overloaded, Other, Reading
<1>2. UNCHANGED polled
  BY <1>1 DEF flightVars
<1> USE <1>1, <1>2
<1>3. ASSUME NEW how \in {"reply"} \union Errors, End(how), Honest(how) PROVE OutcomeInv'
  BY <1>3, EndTells
<1>4. CASE Again /\ maybe'
  BY <1>4, RoundTells DEF Again, endVars
<1>5. CASE Unanswered \/ InProgress
  BY <1>4, <1>5 DEF Unanswered, InProgress, InDoubt
<1>6. CASE Answered
  <2>1. Honest("reply")
    BY <1>6 DEF Answered, Reading, OutcomeInv, AnswerInv, Honest, NothingCommitted, Transient
  <2>2. QED
    BY <1>3, <1>6, <2>1 DEF Answered
<1>7. CASE NoLocation
  <2>1. Honest("plain")
    BY DEF Honest, BlindTo
  <2>2. QED
    BY <1>3, <1>7, <2>1, ErrorClasses DEF NoLocation
<1>8. CASE NeverReached
  <2>1. CASE ~maybe /\ End("unreached")
    <3>1. Honest("unreached")
      BY <1>8, <2>1, RefusalHonest DEF NeverReached
    <3>2. QED
      BY <1>3, <2>1, <3>1, ErrorClasses
  <2>2. QED
    BY <1>4, <1>8, <2>1 DEF NeverReached
<1>9. CASE RanOutOfTime
  <2>1. PICK how \in NothingCommitted : End(how)
    BY <1>9 DEF RanOutOfTime, NothingCommitted
  <2>2. resp \in {"request504", "other504"}
    BY <1>9 DEF RanOutOfTime, Reading
  <2>3. how \in Errors /\ Honest(how)
    BY <2>2, SettledHonest DEF Errors
  <2>4. QED
    BY <1>3, <2>1, <2>3
<1>10. CASE VersionConflict
  <2>1. resp = "conflict"
    BY <1>10 DEF VersionConflict, Reading
  <2>2. CASE Again /\ maybe /\ UNCHANGED maybe
    BY <1>4, <2>2
  <2>3. CASE End("conflict") /\ ~(maybe /\ conflicts = 0)
    <3>1. CASE ~maybe
      <4>1. Honest("conflict")
        BY <2>1, <3>1, RefusalHonest, RecoveryAssumption DEF Responses
      <4>2. QED
        BY <1>3, <2>3, <4>1, ErrorClasses
    <3>2. CASE conflicts # 0
      <4>1. claims \/ BlindTo("conflict")
        BY <3>2 DEF BlindTo, LoopInv, CountsInv
      <4>2. Honest("conflict")
        BY <2>1, <4>1, SettledHonest
      <4>3. QED
        BY <1>3, <2>3, <4>2, ErrorClasses
    <3>3. QED
      BY <2>3, <3>1, <3>2
  <2>4. QED
    BY <1>10, <2>2, <2>3 DEF VersionConflict
<1>11. CASE Limited
  <2>1. resp \in {"rateLimited", "cap"}
    BY <1>11 DEF Limited, Reading
  <2>2. CASE ~maybe /\ End(resp)
    <3>1. Honest(resp)
      BY <2>1, <2>2, RefusalHonest, RecoveryAssumption DEF Responses, Outright
    <3>2. QED
      BY <1>3, <2>1, <2>2, <3>1, ErrorClasses
  <2>3. CASE \E how \in {"capped", "unchecked"} : End(how)
    <3>1. PICK how \in {"capped", "unchecked"} : End(how)
      BY <2>3
    <3>2. Honest(how)
      BY DEF Honest, NothingCommitted, Transient
    <3>3. QED
      BY <1>3, <3>1, <3>2, ErrorClasses
  <2>4. CASE Again /\ maybe /\ UNCHANGED maybe
    BY <1>4, <2>4
  <2>5. QED
    BY <1>11, <2>2, <2>3, <2>4 DEF Limited, loopVars
<1>12. CASE Overloaded
  <2>1. resp = "uncoded5xx"
    BY <1>12 DEF Overloaded, Reading
  <2>2. CASE ~maybe /\ End("uncoded5xx")
    <3>1. Honest("uncoded5xx")
      BY <2>1, <2>2, RefusalHonest, RecoveryAssumption DEF Responses, Outright
    <3>2. QED
      BY <1>3, <2>2, <3>1, ErrorClasses
  <2>3. QED
    BY <1>4, <1>12, <2>2 DEF Overloaded
<1>13. CASE Other
  <2>1. resp \in {"replayLost", "unauthorized", "coded5xx", "rejected"} \union OfTheCase
    BY <1>13 DEF Other, Reading
  <2>2. resp \in Errors /\ resp # "reply" /\ resp \notin {None, "ok"}
    BY <2>1, ErrorClasses, RecoveryAssumption DEF OfTheCase, Responses, Outright
  <2>3. CASE ~maybe /\ End(resp)
    <3>1. Honest(resp)
      BY <2>2, <2>3, RefusalHonest
    <3>2. QED
      BY <1>3, <2>2, <2>3, <3>1
  <2>4. CASE _is_definitive(resp) /\ End(resp)
    <3>1. resp \in {"replayLost", "unauthorized", "terminal", "deleting", "gone"}
      BY <2>4 DEF _is_definitive, OfTheCase
    <3>2. Honest(resp)
      BY <3>1 DEF Honest, BlindTo, OutcomeInv, AnswerInv, NothingCommitted, Transient
    <3>3. QED
      BY <1>3, <2>2, <2>4, <3>2
  <2>5. CASE End("unchecked")
    <3>1. Honest("unchecked")
      BY DEF Honest, NothingCommitted, Transient
    <3>2. QED
      BY <1>3, <2>5, <3>1, ErrorClasses
  <2>6. QED
    BY <1>13, <2>3, <2>4, <2>5 DEF Other
<1>14. QED
  BY <1>5, <1>6, <1>7, <1>8, <1>9, <1>10, <1>11, <1>12, <1>13

\* A labelled 504 settles the turn under a claim store; without one the client goes
\* on as if it did, and says so (Sure).
LEMMA LlmTimeoutTells ==
    ASSUME LoopInv, FlightOK, OutcomeInv, LlmTimeout
    PROVE  OutcomeInv'
<1>1. pc = "flight" /\ resp = "llm504" /\ UNCHANGED <<backVars, flightVars>>
  BY DEF LlmTimeout, Reading
<1>2. UNCHANGED <<polled, claims>>
  BY <1>1 DEF flightVars, backVars
<1>3. CASE llm = LlmResends
  <2>1. End("nothing")
    BY <1>3 DEF LlmTimeout
  <2>2. Honest("nothing")
    BY <1>1, SettledHonest DEF NothingCommitted
  <2>3. QED
    BY <1>1, <1>2, <2>1, <2>2, EndTells, ErrorClasses
<1>4. CASE llm # LlmResends
  <2>1. pc' = "retry" /\ UNCHANGED advice /\ llm' = llm + 1 /\ maybe' = FALSE
    BY <1>4 DEF LlmTimeout, Again, endVars
  <2>2. llm' # 0
    BY <2>1, RecoveryAssumption DEF LoopInv, CountsInv
  <2>3. Sure' => Untouched
    BY <1>1, <1>2, <2>2 DEF Sure, OutcomeInv, AnswerInv
  <2>4. QED
    BY <1>1, <2>1, <2>3, RoundTells
<1>5. QED
  BY <1>3, <1>4

\* The loop that ends raises what is pending: nothing committed, or unknown.
LEMMA PendingTells ==
    ASSUME LoopInv, FlightOK, OutcomeInv, pc \in {"retry", "sleep"}, End(pending),
           UNCHANGED <<backVars, polled>>
    PROVE  OutcomeInv'
<1>1. pending \in {"unknown", "nothing"} /\ (pending = "nothing" => ~maybe)
  BY DEF LoopInv, DoubtInv, DoubtIsPending
<1>2. pending \in Errors
  BY <1>1, ErrorClasses
<1>3. CASE pending = "unknown"
  <2>1. Honest(pending)
    BY <1>3 DEF Honest, NothingCommitted, Transient
  <2>2. QED
    BY <1>2, <2>1, EndTells
<1>4. CASE pending = "nothing"
  <2>1. claims => Untouched
    BY <1>1, <1>4 DEF OutcomeInv, CertainInv, Sure, Untouched
  <2>2. Honest(pending)
    BY <1>4, <2>1, NothingLeft DEF Honest, BlindTo, NothingCommitted
  <2>3. QED
    BY <1>2, <2>2, EndTells
<1>5. QED
  BY <1>1, <1>3, <1>4

LEMMA BetweenTells ==
    ASSUME LoopInv, FlightOK, OutcomeInv, GiveUp \/ CutShort \/ Wait \/ Sleep
    PROVE  OutcomeInv'
<1>1. UNCHANGED <<backVars, polled>> /\ pc \in {"retry", "sleep"}
  BY DEF GiveUp, CutShort, Wait, Sleep, flightVars
<1>2. CASE End(pending)
  BY <1>1, <1>2, PendingTells
<1>3. CASE pc' \in {"sleep", "send"} /\ UNCHANGED <<maybe, llm, conflicts, advice>>
  BY <1>1, <1>3, RestTells
<1>4. QED
  BY <1>2, <1>3 DEF GiveUp, CutShort, Wait, Sleep, loopVars, endVars

LEMMA ClientTells ==
    ASSUME LoopInv, FlightOK, OutcomeInv, Client
    PROVE  OutcomeInv'
<1>1. CASE RenewalFails \/ ReauthFails
  BY <1>1, NoTokenTells DEF RenewalFails, ReauthFails, flightVars
<1>2. QED
  BY <1>1, BeginTells, SendTells, ReauthTells, ReadingTells, LlmTimeoutTells, BetweenTells
     DEF Client

(***************************************************************************)
(* The backend's steps leave what was told true.                           *)
(***************************************************************************)

\* A turn that ended with nothing live stays as it ended.
LEMMA ToldKept ==
    ASSUME KeyedInv, KeyedInv', ToldInv,
           UNCHANGED <<pc, answer, advice, llm, conflicts, claims>>,
           pc = "flight" \/ UNCHANGED polled,
           commits' = commits \/ Live # {},
           pc = "done" /\ Live = {} => Live' = {}
    PROVE  ToldInv'
<1>1. pc # "done" => ToldInv'
  BY RecoveryAssumption DEF ToldInv
<1>2. ASSUME pc = "done" PROVE Blind' = Blind
  BY <1>2 DEF Blind
<1>3. ASSUME pc = "done" PROVE advice = "reply" => commits' = 1
  BY <1>3 DEF ToldInv, KeyedInv
<1>4. ASSUME pc = "done" PROVE advice = "resend" /\ ~Blind => commits' = 0 /\ Live' = {}
  BY <1>4 DEF ToldInv
<1>5. QED
  BY <1>1, <1>2, <1>3, <1>4 DEF ToldInv

LEMMA ArriveTells ==
    ASSUME KeyedInv, KeyedInv', FlightOK, OutcomeInv, Arrive
    PROVE  OutcomeInv'
<1>1. /\ pc = "flight" /\ ~arrived /\ arrived' = TRUE
      /\ UNCHANGED <<pc, maybe, llm, conflicts, answer, advice, claims, strays, commits>>
  BY DEF Arrive, loopVars, endVars
<1>2. run = None /\ resp = None /\ ~polled
  BY <1>1 DEF OutcomeInv, AnswerInv
<1>3. \/ /\ receipt # None /\ run' = run /\ polled' = polled
         /\ resp' = IF receipt = "kept" THEN "ok" ELSE "replayLost"
      \/ resp' = "inProgress" /\ run' = run /\ polled' = polled
      \/ /\ receipt = None /\ ~(claims /\ \E r \in strays : r.keyed)
         /\ resp' = resp
  BY DEF Arrive, Keyed
<1>4. commits = 1 <=> receipt # None
  BY DEF KeyedInv
<1>5. \A r \in strays : r.keyed = TRUE
  BY DEF KeyedInv
<1>6. commits \in {0, 1}
  BY DEF KeyedInv
<1>7. (resp' = "ok" => commits = 1) /\ resp' # "deleting"
      /\ resp' \notin {"llm504", "request504", "other504", "conflict"}
  BY <1>2, <1>3, <1>4, RecoveryAssumption DEF Responses, OfTheCase, Failures
<1>8. resp' # None /\ ~polled' => run' = None
  BY <1>2, <1>3
<1>9. claims /\ run' # None => strays = {} /\ commits = 0
  BY <1>2, <1>3, <1>4, <1>5, <1>6
<1>10. AnswerInv'
  BY <1>1, <1>7, <1>8, <1>9 DEF AnswerInv
<1>11. CertainInv'
  BY <1>1, <1>2, RecoveryAssumption DEF OutcomeInv, CertainInv, Sure, Responses
<1>12. ToldInv'
  BY <1>1, ToldKept DEF OutcomeInv
<1>13. QED
  BY <1>10, <1>11, <1>12 DEF OutcomeInv

LEMMA RefuseTells ==
    ASSUME KeyedInv, KeyedInv', FlightOK, OutcomeInv, Refuse \/ RefuseByCase
    PROVE  OutcomeInv'
<1>1. /\ pc = "flight" /\ resp = None /\ arrived' = TRUE
      /\ UNCHANGED <<pc, maybe, llm, conflicts, answer, advice, polled, claims, run, strays,
                     commits>>
  BY DEF Refuse, RefuseByCase, OutcomeInv, AnswerInv, loopVars, endVars, backVars
<1>2. (~arrived => run = None /\ ~polled) /\ (~arrived \/ polled)
  BY <1>1 DEF Refuse, RefuseByCase, OutcomeInv, AnswerInv
<1>3. /\ resp' \in Outright \union OfTheCase
      /\ resp' = "deleting" => receipt = None /\ Live = {}
  BY DEF Refuse, RefuseByCase, OfTheCase, Outright
<1>4. resp' \notin {"ok", "llm504", "request504", "other504", "conflict"}
  BY <1>3 DEF Outright, OfTheCase
<1>5. receipt = None => commits = 0
  BY DEF KeyedInv
<1>6. Live' = Live
  BY <1>1 DEF Live
<1>7. AnswerInv'
  BY <1>1, <1>2, <1>3, <1>4, <1>5, <1>6 DEF OutcomeInv, AnswerInv
<1>8. CertainInv'
  BY <1>1, <1>2, RecoveryAssumption DEF OutcomeInv, CertainInv, Sure, Responses
<1>9. ToldInv'
  BY <1>1, <1>6, ToldKept DEF OutcomeInv
<1>10. QED
  BY <1>7, <1>8, <1>9 DEF OutcomeInv

\* Of a turn the client is sure of, only the run it is waiting for can commit, and
\* then that run's answer or the poll's is what it reads.
LEMMA CommitTells ==
    ASSUME KeyedInv, KeyedInv', FlightOK, OutcomeInv, RunCommits \/ StrayCommits
    PROVE  OutcomeInv'
<1>1. /\ UNCHANGED <<pc, maybe, llm, conflicts, answer, advice, polled, arrived, claims>>
      /\ commits' = commits + 1 /\ strays' = Doom(strays)
      /\ Live # {}
  BY DEF RunCommits, StrayCommits, Commit, Live, loopVars, endVars
<1>2. commits = 0 /\ commits' = 1 /\ Live' = {}
  BY <1>1 DEF KeyedInv
<1>3. strays = {} => strays' = {}
  BY <1>1 DEF Doom
<1>4. ToldInv'
  BY <1>1, <1>2, ToldKept DEF OutcomeInv
<1>5. resp # "deleting" \/ pc # "flight"
  BY <1>1 DEF OutcomeInv, AnswerInv
<1>6. Untouched => Live = {}
  BY NothingLeft
<1>7. CASE RunCommits
  <2>1. /\ run # None /\ run' = None
        /\ resp' = IF resp = None THEN "ok" ELSE resp
    BY <1>7 DEF RunCommits
  <2>2. AnswerInv'
    BY <1>1, <1>2, <1>5, <1>6, <2>1, RecoveryAssumption DEF OutcomeInv, AnswerInv, Untouched
  <2>3. pc \notin {"start", "token"}
    BY <2>1 DEF OutcomeInv, CertainInv, Untouched
  <2>4. pc = "flight" => polled \/ resp' = "ok"
    BY <2>1 DEF OutcomeInv, AnswerInv
  <2>5. CertainInv'
    BY <1>1, <1>3, <2>1, <2>3, <2>4 DEF OutcomeInv, CertainInv, Sure
  <2>6. QED
    BY <1>4, <2>2, <2>5 DEF OutcomeInv
<1>8. CASE StrayCommits
  <2>1. /\ strays # {} /\ UNCHANGED resp
        /\ run' = None \/ run # None
        /\ run = None => run' = None
    BY <1>8 DEF StrayCommits
  <2>2. AnswerInv'
    BY <1>1, <1>2, <1>5, <1>6, <2>1 DEF OutcomeInv, AnswerInv, Untouched
  <2>3. CertainInv'
    BY <1>1, <2>1 DEF OutcomeInv, CertainInv, Untouched, Sure
  <2>4. QED
    BY <1>4, <2>2, <2>3 DEF OutcomeInv
<1>9. QED
  BY <1>7, <1>8

\* With a claim store a run that fails leaves nothing of the turn behind.
LEMMA RunFailsTells ==
    ASSUME KeyedInv, KeyedInv', FlightOK, OutcomeInv, RunFails
    PROVE  OutcomeInv'
<1>1. UNCHANGED <<pc, maybe, llm, conflicts, answer, advice, polled, arrived, claims, commits>>
  BY DEF RunFails, loopVars, endVars
<1>2. \/ /\ run # None /\ run' = None /\ strays' = strays
         /\ \/ resp = None /\ resp' \in Failures \union {"conflict"}
            \/ resp # None /\ resp' = resp
      \/ strays # {} /\ strays' \subseteq strays /\ run' = run /\ resp' = resp
  BY DEF RunFails
<1>3. Live' \subseteq Live
  BY <1>2 DEF Live
<1>4. ToldInv'
  BY <1>1, <1>3, ToldKept DEF OutcomeInv
<1>5. CASE /\ run # None /\ run' = None /\ strays' = strays
           /\ resp = None /\ resp' \in Failures \union {"conflict"}
  <2>1. resp' \notin {"ok", "deleting"}
    BY <1>5 DEF Failures
  <2>2. claims => Untouched'
    BY <1>1, <1>5 DEF OutcomeInv, AnswerInv, Untouched
  <2>3. AnswerInv'
    BY <1>1, <1>5, <2>1, <2>2 DEF OutcomeInv, AnswerInv
  <2>4. CertainInv'
    BY <1>1, <1>5, <2>1, RecoveryAssumption
       DEF OutcomeInv, CertainInv, Sure, Untouched, Responses
  <2>5. QED
    BY <1>4, <2>3, <2>4 DEF OutcomeInv
<1>6. CASE /\ strays' \subseteq strays /\ run' \in {None, run} /\ resp' = resp
  <2>1. Untouched => Untouched'
    BY <1>1, <1>6 DEF Untouched
  <2>2. Live = {} => Live' = {}
    BY <1>3
  <2>3. AnswerInv'
    BY <1>1, <1>6, <2>1, <2>2 DEF OutcomeInv, AnswerInv
  <2>4. CertainInv'
    BY <1>1, <1>6, <2>1 DEF OutcomeInv, CertainInv, Sure
  <2>5. QED
    BY <1>4, <2>3, <2>4 DEF OutcomeInv
<1>7. QED
  BY <1>2, <1>5, <1>6

\* Another turn's commit dooms the runs; a run stays the current one.
LEMMA OtherTurnTells ==
    ASSUME KeyedInv, KeyedInv', FlightOK, OutcomeInv, OtherTurn
    PROVE  OutcomeInv'
<1>1. /\ UNCHANGED <<pc, maybe, llm, conflicts, answer, advice, polled, arrived, resp, claims,
                     commits>>
      /\ Live # {} /\ strays' = Doom(strays)
  BY DEF OtherTurn, loopVars, endVars, flightVars
<1>2. (run = None => run' = None) /\ (run' = None \/ run # None)
  BY DEF OtherTurn
<1>3. strays = {} => strays' = {}
  BY <1>1 DEF Doom
<1>4. ToldInv'
  BY <1>1, ToldKept DEF OutcomeInv
<1>5. ~Untouched
  BY <1>1, NothingLeft
<1>6. AnswerInv'
  BY <1>1, <1>2, <1>3, <1>5 DEF OutcomeInv, AnswerInv
<1>7. CertainInv'
  BY <1>1, <1>2, <1>3, <1>5 DEF OutcomeInv, CertainInv, Sure
<1>8. QED
  BY <1>4, <1>6, <1>7 DEF OutcomeInv

LEMMA OutcomeStep ==
    KeyedInv /\ LoopInv /\ FlightOK /\ OutcomeInv /\ KeyedInv' /\ [Next]_vars => OutcomeInv'
<1> SUFFICES ASSUME KeyedInv, LoopInv, FlightOK, OutcomeInv, KeyedInv', [Next]_vars
             PROVE  OutcomeInv'
  OBVIOUS
<1>1. CASE Client
  BY <1>1, ClientTells
<1>2. CASE ForgetReply \/ BeginShutdown \/ UNCHANGED vars
  <2>1. UNCHANGED <<pc, maybe, llm, conflicts, answer, advice, polled, arrived, resp, claims,
                    run, strays, commits>>
    BY <1>2 DEF ForgetReply, BeginShutdown, vars, loopVars, flightVars, endVars, backVars
  <2>2. Live' = Live /\ Blind' = Blind
    BY <2>1 DEF Live, Blind
  <2>3. AnswerInv' /\ CertainInv' /\ ToldInv'
    BY <2>1, <2>2 DEF OutcomeInv, AnswerInv, CertainInv, ToldInv, Untouched, Sure
  <2>4. QED
    BY <2>3 DEF OutcomeInv
<1>3. CASE Backend /\ ~ForgetReply
  BY <1>3, ArriveTells, RefuseTells, CommitTells, RunFailsTells, OtherTurnTells DEF Backend
<1>4. QED
  BY <1>1, <1>2, <1>3 DEF Next

(***************************************************************************)
(* The refinement: telling is the client's, committing the backend's.      *)
(***************************************************************************)

\* told, as TurnOutcome's instance maps it.
Told == IF advice = None THEN "nothing"
        ELSE IF advice = "reply" THEN "reply"
        ELSE IF advice = "resend" /\ ~Blind THEN "invited" ELSE "warned"

\* A client that ends tells what is so of commits.
LEMMA ClientMaps ==
    ASSUME KeyedInv, OutcomeInv, OutcomeInv', Client
    PROVE  [O!Next]_<<commits, Told>>
<1>1. UNCHANGED commits
  BY DEF Client, Begin, AcquireToken, Send, RenewalFails, Reauth, ReauthFails, Unanswered,
     NeverReached, Answered, NoLocation, LlmTimeout, RanOutOfTime, InProgress,
     VersionConflict, Limited, Overloaded, Other, GiveUp, CutShort, Wait, Sleep, Post,
     Reading, backVars
<1>2. pc # "done"
  BY DEF Client, Begin, AcquireToken, Send, RenewalFails, Reauth, ReauthFails, Unanswered,
     NeverReached, Answered, NoLocation, LlmTimeout, RanOutOfTime, InProgress,
     VersionConflict, Limited, Overloaded, Other, GiveUp, CutShort, Wait, Sleep, Reading
<1>3. Told = "nothing"
  BY <1>2 DEF OutcomeInv, ToldInv, Told
<1>4. /\ Told' \in {"nothing", "reply", "invited", "warned"}
      /\ Told' = "reply" => commits = 1
      /\ Told' = "invited" => commits = 0
  BY <1>1 DEF OutcomeInv, ToldInv, Told
<1>5. QED
  BY <1>1, <1>3, <1>4 DEF O!Next, O!Tell, Told

\* Nothing the backend does changes what was told, and it commits only a turn that
\* no reply was given of and no invitation made for.
LEMMA OthersMap ==
    ASSUME KeyedInv, KeyedInv', OutcomeInv, Backend \/ BeginShutdown \/ UNCHANGED vars
    PROVE  [O!Next]_<<commits, Told>>
<1>1. /\ UNCHANGED <<pc, llm, conflicts, answer, advice, claims>>
      /\ pc = "flight" \/ UNCHANGED polled
  BY DEF Backend, Arrive, Refuse, RefuseByCase, RunCommits, StrayCommits, Commit, RunFails,
     OtherTurn, ForgetReply, BeginShutdown, vars, loopVars, endVars, flightVars, backVars
<1>2. Told' = Told
  <2>1. CASE advice = None
    BY <1>1, <2>1 DEF Told
  <2>2. CASE advice # None
    <3>1. pc = "done"
      BY <2>2 DEF OutcomeInv, ToldInv
    <3>2. Blind' = Blind
      BY <1>1, <3>1 DEF Blind
    <3>3. QED
      BY <1>1, <3>2 DEF Told
  <2>3. QED
    BY <2>1, <2>2
<1>3. \/ UNCHANGED commits
      \/ commits' = commits + 1 /\ Live # {}
  BY DEF Backend, Arrive, Refuse, RefuseByCase, RunCommits, StrayCommits, Commit, RunFails,
     OtherTurn, ForgetReply, BeginShutdown, vars, backVars, Live
<1>4. CASE commits' = commits + 1 /\ Live # {}
  <2>1. commits = 0 /\ commits' = 1
    BY <1>4 DEF KeyedInv
  <2>2. Told \in {"nothing", "warned"}
    BY <1>4, <2>1 DEF OutcomeInv, ToldInv, Told
  <2>3. QED
    BY <1>2, <2>1, <2>2 DEF O!Next, O!Commit, Told
<1>5. QED
  BY <1>2, <1>3, <1>4 DEF Told

\* A turn's sender is told the truth, but where Blind says the client cannot know
\* it: a reply is given only of a turn that committed, an invitation to send it
\* again only when it has not and no longer can, and neither is ever belied by a
\* run still at work on the backend.
THEOREM SenderToldTheTruth == Spec => ImplementsTurnOutcome
<1>1. Init => O!Init
  BY RecoveryAssumption DEF Init, O!Init
<1>2. KeyedInv /\ KeyedInv' /\ OutcomeInv /\ OutcomeInv' /\ [Next]_vars
        => [O!Next]_<<commits, Told>>
  BY ClientMaps, OthersMap DEF Next
<1>3. Init => FlightOK /\ ToldOK
  BY RecoveryAssumption DEF Init, FlightOK, ToldOK
<1>4. QED
  BY KeyedInit, KeyedStep, LoopInit, LoopStep, TypeStep, OutcomeInit, OutcomeStep,
     <1>1, <1>2, <1>3, PTL DEF Spec, ImplementsTurnOutcome, O!Spec, Told
=============================================================================
