--------------------------- MODULE TurnTimingProofs ---------------------------
(* What TurnTiming's run checks on three turns, for any number of turns and    *)
(* any bounds: the types, that a turn is sized to the bound in force, and that *)
(* the drain outlasts what is in flight.                                       *)
EXTENDS TurnTiming, TLAPS

\* A turn past the write of longest, and not over.
Underway == {"token", "send", "flight"}

\* A turn that has been sized has an attempt, and one between its two halves of the
\* maximum has a reading of longest.
SizedOK == \A t \in Turns :
    /\ at[t] \notin {"idle", "probing", "done"} => attempt[t] \in Attempts
    /\ at[t] = "read" => seen[t] \in Attempts

\* Its attempt is within the longest; a drain is sized once shutdown has begun.
LongestCovers == \A t \in Turns : at[t] \in Underway => attempt[t] <= longest \/ raced
DrainAfter    == drain # 0 => stopping

Types     == TypeOK /\ SizedOK
TimingInv == Types /\ LongestCovers /\ DrainAfter /\ DrainOutlasts

-----------------------------------------------------------------------------
LEMMA AttemptsAreNat == Attempts \subseteq Nat
  BY TimingAssumption DEF Attempts

LEMMA AttemptIsNat == ASSUME NEW n \in Attempts \union {0} PROVE n \in Nat
  BY AttemptsAreNat

\* Any bound read, or none, gives an attempt.
LEMMA AttemptTyped == ASSUME NEW b \in Bounds \union {0} PROVE AttemptFor(b) \in Attempts
  BY TimingAssumption DEF AttemptFor, Attempts

LEMMA CappedTyped == ASSUME NEW n \in 0..Ttl PROVE Capped(n) \in 0..Ttl
  BY TimingAssumption DEF Capped

LEMMA LargerTyped == ASSUME NEW a \in Attempts, NEW b \in Attempts
                     PROVE  /\ Larger(a, b) \in Attempts
                            /\ a <= Larger(a, b) /\ b <= Larger(a, b)
  BY AttemptsAreNat DEF Larger

\* The turn's part of the types, when its attempt has just been sized.
LEMMA SizedKeeps ==
    ASSUME Types, NEW t \in Turns, NEW b \in Bounds \union {0}, Sized(t, b), seen' = seen
    PROVE  /\ at' \in [Turns -> {"idle", "probing", "sized", "read", "token", "send",
                                 "flight", "done"}]
           /\ attempt' \in [Turns -> Attempts \union {0}]
           /\ SizedOK'
<1>1. AttemptFor(b) \in Attempts
  BY AttemptTyped
<1>. QED
  BY <1>1 DEF Types, TypeOK, SizedOK, Sized

LEMMA InitTyped == Init => Types
<1>1. Init => TypeOK
  <2>1. Fallback \in Attempts /\ 0 \in 0..Ttl
    BY TimingAssumption DEF Attempts
  <2>. QED
    BY <2>1 DEF Init, TypeOK
<1>2. Init => SizedOK
  BY DEF Init, SizedOK
<1>. QED
  BY <1>1, <1>2 DEF Types

\* Every step keeps the types.
LEMMA StepTyped == ASSUME Types, [Next]_vars PROVE Types'
<1>. USE DEF Types
<1>1. ASSUME NEW t \in Turns, Begin(t) PROVE Types'
  <2>1. CASE Fresh
    <3>1. Sized(t, bound) /\ UNCHANGED <<backend, bound, timing, holder, longest, seen, raced,
                                         ending>>
      BY <1>1, <2>1 DEF Begin
    <3>2. bound \in Bounds \union {0}
      BY DEF TypeOK
    <3>. QED
      BY <3>1, <3>2, SizedKeeps DEF TypeOK, backend, ending
  <2>2. CASE ~Fresh
    BY <1>1, <2>2 DEF Begin, TypeOK, SizedOK, backend, ending
  <2>. QED
    BY <2>1, <2>2
<1>2. ASSUME NEW t \in Turns, ProbeAnswers(t) PROVE Types'
  <2>1. Sized(t, published) /\ published \in Bounds \union {0} /\ seen' = seen
    BY <1>2 DEF ProbeAnswers, TypeOK
  <2>2. timing' \in [ok : BOOLEAN, age : 0..Ttl] \union {None}
    BY <1>2, TimingAssumption DEF ProbeAnswers
  <2>. QED
    BY <1>2, <2>1, <2>2, SizedKeeps DEF ProbeAnswers, TypeOK, ending
<1>3. ASSUME NEW t \in Turns, ProbeFails(t) PROVE Types'
  <2>1. Sized(t, bound) /\ bound \in Bounds \union {0} /\ seen' = seen
    BY <1>3 DEF ProbeFails, TypeOK
  <2>2. timing' \in [ok : BOOLEAN, age : 0..Ttl] \union {None}
    BY <1>3, TimingAssumption DEF ProbeFails
  <2>. QED
    BY <1>3, <2>1, <2>2, SizedKeeps DEF ProbeFails, TypeOK, ending
<1>4. ASSUME NEW t \in Turns, ReadLongest(t) PROVE Types'
  BY <1>4 DEF ReadLongest, TypeOK, SizedOK, backend, cache, ending
<1>5. ASSUME NEW t \in Turns, WriteLongest(t) PROVE Types'
  <2>1. Larger(seen[t], attempt[t]) \in Attempts
    BY <1>5, LargerTyped DEF WriteLongest, SizedOK
  <2>2. (raced \/ seen[t] # longest) \in BOOLEAN
    OBVIOUS
  <2>. QED
    BY <1>5, <2>1, <2>2 DEF WriteLongest, TypeOK, SizedOK, backend, cache, ending
<1>6. ASSUME NEW t \in Turns, Check(t) PROVE Types'
  BY <1>6 DEF Check, TypeOK, SizedOK, backend, cache, ending
<1>7. ASSUME NEW t \in Turns, Send(t) PROVE Types'
  BY <1>7 DEF Send, TypeOK, SizedOK, backend, cache, ending
<1>8. ASSUME NEW t \in Turns, Finish(t) PROVE Types'
  BY <1>8 DEF Finish, TypeOK, SizedOK, backend, cache, ending
<1>9. ASSUME Tick PROVE Types'
  <2>1. Capped(moved) \in 0..Ttl
    BY CappedTyped DEF TypeOK
  <2>2. timing' \in [ok : BOOLEAN, age : 0..Ttl] \union {None}
    <3>1. CASE timing = None
      BY <1>9, <3>1 DEF Tick
    <3>2. CASE timing # None
      <4>1. timing \in [ok : BOOLEAN, age : 0..Ttl]
        BY <3>2 DEF TypeOK
      <4>2. Capped(timing.age) \in 0..Ttl
        BY <4>1, CappedTyped
      <4>. QED
        BY <1>9, <3>2, <4>1, <4>2 DEF Tick
    <3>. QED
      BY <3>1, <3>2
  <2>. QED
    BY <1>9, <2>1, <2>2 DEF Tick, TypeOK, SizedOK, turns, ending
<1>10. ASSUME NEW b \in Bounds, Move(b) PROVE Types'
  <2>1. 0 \in 0..Ttl
    BY TimingAssumption
  <2>. QED
    BY <1>10, <2>1 DEF Move, TypeOK, SizedOK, cache, turns, ending
<1>11. CASE BeginShutdown
  BY <1>11 DEF BeginShutdown, TypeOK, SizedOK, backend, cache, turns
<1>12. CASE Drain
  BY <1>12 DEF Drain, TypeOK, SizedOK, backend, cache, turns
<1>13. CASE UNCHANGED vars
  BY <1>13 DEF vars, TypeOK, SizedOK, backend, cache, turns, ending
<1>. QED
  BY <1>1, <1>2, <1>3, <1>4, <1>5, <1>6, <1>7, <1>8, <1>9, <1>10, <1>11, <1>12, <1>13
  DEF Next, Turn
-----------------------------------------------------------------------------
\* A turn is underway only past the write that made longest cover its attempt;
\* another's write lowers longest only from a stale reading, which sets raced.
LEMMA StepCovers == ASSUME Types, LongestCovers, [Next]_vars PROVE LongestCovers'
<1>. SUFFICES ASSUME NEW u \in Turns, at'[u] \in Underway
              PROVE  attempt'[u] <= longest' \/ raced'
  BY DEF LongestCovers
<1>0. at \in [Turns -> {"idle", "probing", "sized", "read", "token", "send", "flight", "done"}]
      /\ attempt \in [Turns -> Attempts \union {0}]
  BY DEF Types, TypeOK
<1>1. ASSUME NEW t \in Turns, Begin(t) PROVE attempt'[u] <= longest' \/ raced'
  BY <1>0, <1>1 DEF Begin, Sized, LongestCovers, Underway
<1>2. ASSUME NEW t \in Turns, ProbeAnswers(t) PROVE attempt'[u] <= longest' \/ raced'
  BY <1>0, <1>2 DEF ProbeAnswers, Sized, LongestCovers, Underway
<1>3. ASSUME NEW t \in Turns, ProbeFails(t) PROVE attempt'[u] <= longest' \/ raced'
  BY <1>0, <1>3 DEF ProbeFails, Sized, LongestCovers, Underway
<1>4. ASSUME NEW t \in Turns, ReadLongest(t) PROVE attempt'[u] <= longest' \/ raced'
  BY <1>0, <1>4 DEF ReadLongest, LongestCovers, Underway
<1>5. ASSUME NEW t \in Turns, WriteLongest(t) PROVE attempt'[u] <= longest' \/ raced'
  <2>1. /\ seen[t] \in Attempts /\ attempt[t] \in Attempts
        /\ longest' = Larger(seen[t], attempt[t]) /\ attempt' = attempt
        /\ raced' = (raced \/ seen[t] # longest)
    BY <1>5 DEF WriteLongest, Types, SizedOK
  <2>2. seen[t] <= longest' /\ attempt[t] <= longest'
    BY <2>1, LargerTyped
  <2>3. CASE u = t
    BY <2>1, <2>2, <2>3
  <2>4. CASE u # t
    <3>1. attempt[u] <= longest \/ raced
      BY <1>0, <1>5, <2>4 DEF WriteLongest, LongestCovers
    <3>2. attempt[u] \in Nat /\ longest \in Nat /\ longest' \in Nat
      <4>1. attempt[u] \in Nat
        <5>1. attempt[u] \in Attempts \union {0}
          BY <1>0
        <5>. QED
          BY <5>1, AttemptIsNat
      <4>2. longest \in Nat
        BY AttemptsAreNat DEF Types, TypeOK
      <4>3. longest' \in Nat
        BY <2>1, LargerTyped, AttemptsAreNat
      <4>. QED
        BY <4>1, <4>2, <4>3
    <3>3. CASE raced \/ seen[t] # longest
      BY <2>1, <3>3
    <3>4. CASE ~raced /\ seen[t] = longest
      BY <2>1, <2>2, <3>1, <3>2, <3>4
    <3>. QED
      BY <3>3, <3>4
  <2>. QED
    BY <2>3, <2>4
<1>6. ASSUME NEW t \in Turns, Check(t) PROVE attempt'[u] <= longest' \/ raced'
  BY <1>0, <1>6 DEF Check, LongestCovers, Underway
<1>7. ASSUME NEW t \in Turns, Send(t) PROVE attempt'[u] <= longest' \/ raced'
  BY <1>0, <1>7 DEF Send, LongestCovers, Underway
<1>8. ASSUME NEW t \in Turns, Finish(t) PROVE attempt'[u] <= longest' \/ raced'
  BY <1>0, <1>8 DEF Finish, LongestCovers, Underway
<1>9. ASSUME UNCHANGED <<longest, turns, raced>> PROVE attempt'[u] <= longest' \/ raced'
  BY <1>9 DEF turns, LongestCovers
<1>. QED
  BY <1>1, <1>2, <1>3, <1>4, <1>5, <1>6, <1>7, <1>8, <1>9
  DEF Next, Turn, Tick, Move, BeginShutdown, Drain, vars

LEMMA StepDrainAfter == ASSUME DrainAfter, [Next]_vars PROVE DrainAfter'
<1>1. ASSUME NEW t \in Turns, Turn(t) PROVE DrainAfter'
  BY <1>1 DEF Turn, Begin, ProbeAnswers, ProbeFails, ReadLongest, WriteLongest, Check, Send,
              Finish, ending, DrainAfter
<1>2. ASSUME NEW b \in Bounds, Move(b) PROVE DrainAfter'
  BY <1>2 DEF Move, ending, DrainAfter
<1>3. CASE Tick \/ BeginShutdown \/ Drain \/ UNCHANGED vars
  BY <1>3 DEF Tick, BeginShutdown, Drain, ending, vars, DrainAfter
<1>. QED
  BY <1>1, <1>2, <1>3 DEF Next

\* Nothing is sent once the drain is sized (Check), and when it is, longest covers
\* whatever is in flight.
LEMMA StepOutlasts ==
    ASSUME Types, LongestCovers, DrainAfter, DrainOutlasts, [Next]_vars PROVE DrainOutlasts'
<1>. SUFFICES ASSUME NEW u \in Turns, drain' # 0, at'[u] \in {"send", "flight"}
              PROVE  attempt'[u] <= drain' \/ raced'
  BY DEF DrainOutlasts
<1>0. at \in [Turns -> {"idle", "probing", "sized", "read", "token", "send", "flight", "done"}]
      /\ attempt \in [Turns -> Attempts \union {0}] /\ raced \in BOOLEAN
  BY DEF Types, TypeOK
<1>1. ASSUME NEW t \in Turns, Begin(t) PROVE attempt'[u] <= drain' \/ raced'
  BY <1>0, <1>1 DEF Begin, Sized, ending, DrainOutlasts
<1>2. ASSUME NEW t \in Turns, ProbeAnswers(t) PROVE attempt'[u] <= drain' \/ raced'
  BY <1>0, <1>2 DEF ProbeAnswers, Sized, ending, DrainOutlasts
<1>3. ASSUME NEW t \in Turns, ProbeFails(t) PROVE attempt'[u] <= drain' \/ raced'
  BY <1>0, <1>3 DEF ProbeFails, Sized, ending, DrainOutlasts
<1>4. ASSUME NEW t \in Turns, ReadLongest(t) PROVE attempt'[u] <= drain' \/ raced'
  BY <1>0, <1>4 DEF ReadLongest, ending, DrainOutlasts
<1>5. ASSUME NEW t \in Turns, WriteLongest(t) PROVE attempt'[u] <= drain' \/ raced'
  BY <1>0, <1>5 DEF WriteLongest, ending, DrainOutlasts
<1>6. ASSUME NEW t \in Turns, Check(t) PROVE attempt'[u] <= drain' \/ raced'
  <2>1. stopping
    BY <1>6 DEF Check, ending, DrainAfter
  <2>. QED
    BY <1>0, <1>6, <2>1 DEF Check, RefuseIfStopping, ending, DrainOutlasts
<1>7. ASSUME NEW t \in Turns, Send(t) PROVE attempt'[u] <= drain' \/ raced'
  BY <1>0, <1>7 DEF Send, ending, DrainOutlasts
<1>8. ASSUME NEW t \in Turns, Finish(t) PROVE attempt'[u] <= drain' \/ raced'
  BY <1>0, <1>8 DEF Finish, ending, DrainOutlasts
<1>9. CASE Drain
  BY <1>9 DEF Drain, turns, LongestCovers, Underway
<1>10. ASSUME UNCHANGED <<drain, turns, raced>> PROVE attempt'[u] <= drain' \/ raced'
  BY <1>10 DEF turns, DrainOutlasts
<1>. QED
  BY <1>1, <1>2, <1>3, <1>4, <1>5, <1>6, <1>7, <1>8, <1>9, <1>10
  DEF Next, Turn, Tick, Move, BeginShutdown, vars, ending

-----------------------------------------------------------------------------
\* The types, the cover and the drain hold together in every reachable state.
LEMMA TimingHolds == Spec => []TimingInv
<1>1. Init => TimingInv
  <2>1. Init => LongestCovers /\ DrainAfter /\ DrainOutlasts
    BY DEF Init, LongestCovers, DrainAfter, DrainOutlasts, Underway
  <2>. QED
    BY <2>1, InitTyped DEF TimingInv
<1>2. TimingInv /\ [Next]_vars => TimingInv'
  BY StepTyped, StepCovers, StepDrainAfter, StepOutlasts DEF TimingInv
<1>. QED
  BY <1>1, <1>2, PTL DEF Spec

\* Type correctness of the sizing, for any turns and bounds (turn_timing and the
\* cached answer behind it).
THEOREM TimingTyped == Spec => []TypeOK
<1>1. TimingInv => TypeOK
  BY DEF TimingInv, Types
<1>. QED
  BY <1>1, TimingHolds, PTL

\* The drain outlasts every attempt in flight, however the bound moved, unless two
\* turns wrote the longest attempt from one reading (_longest_attempt, drain_turns).
THEOREM DrainCoversFlight == Spec => []DrainOutlasts
<1>1. TimingInv => DrainOutlasts
  BY DEF TimingInv
<1>. QED
  BY <1>1, TimingHolds, PTL

-----------------------------------------------------------------------------
\* What is cached of the bound: once the one in force has been read it is the one
\* kept, and until then the last answer is at least as old as the move.
CacheInv == /\ known => bound = published
            /\ timing # None /\ timing.ok /\ ~known => moved <= timing.age

LEMMA CappedGrows == ASSUME NEW m \in 0..Ttl, NEW n \in 0..Ttl, m <= n
                     PROVE  Capped(m) <= Capped(n)
  BY TimingAssumption DEF Capped

LEMMA StepCache == ASSUME Types, CacheInv, [Next]_vars PROVE CacheInv'
<1>0. /\ moved \in 0..Ttl /\ timing \in [ok : BOOLEAN, age : 0..Ttl] \union {None}
      /\ known \in BOOLEAN
  BY DEF Types, TypeOK
<1>1. ASSUME UNCHANGED <<known, bound, published, moved, timing>> PROVE CacheInv'
  BY <1>1 DEF CacheInv
<1>2. ASSUME NEW t \in Turns, ProbeAnswers(t) PROVE CacheInv'
  BY <1>2 DEF ProbeAnswers, CacheInv
<1>3. ASSUME NEW t \in Turns, ProbeFails(t) PROVE CacheInv'
  BY <1>3 DEF ProbeFails, CacheInv
<1>4. CASE Tick
  <2>1. timing # None => /\ timing \in [ok : BOOLEAN, age : 0..Ttl]
                         /\ timing' # None => /\ timing'.ok = timing.ok
                                              /\ timing'.age = Capped(timing.age)
    BY <1>0, <1>4 DEF Tick
  <2>2. timing # None /\ moved <= timing.age => Capped(moved) <= Capped(timing.age)
    BY <1>0, <2>1, CappedGrows
  <2>. QED
    BY <1>4, <2>1, <2>2 DEF Tick, CacheInv
<1>5. ASSUME NEW b \in Bounds, Move(b) PROVE CacheInv'
  <2>1. moved' = 0 /\ ~known' /\ timing' = timing
    BY <1>5 DEF Move, cache
  <2>2. timing # None => timing.age \in 0..Ttl
    BY <1>0
  <2>. QED
    BY <2>1, <2>2, TimingAssumption DEF CacheInv
<1>6. ASSUME NEW t \in Turns, Turn(t), ~ProbeAnswers(t), ~ProbeFails(t) PROVE CacheInv'
  BY <1>1, <1>6 DEF Turn, Begin, ReadLongest, WriteLongest, Check, Send, Finish, backend, cache
<1>7. CASE BeginShutdown \/ Drain \/ UNCHANGED vars
  BY <1>1, <1>7 DEF BeginShutdown, Drain, vars, backend, cache
<1>. QED
  BY <1>2, <1>3, <1>4, <1>5, <1>6, <1>7 DEF Next

\* The size a turn is given from the bound in force.
LEMMA PublishedSize == ASSUME Types PROVE AttemptFor(published) = published + Margin
<1>1. published # 0
  BY TimingAssumption DEF Types, TypeOK
<1>. QED
  BY <1>1 DEF AttemptFor

\* A turn is given its size by _published_bound alone.
LEMMA StepSized ==
    ASSUME Types, CacheInv, [Next]_vars,
           NEW t \in Turns, at'[t] = "sized", at[t] # "sized"
    PROVE  \/ attempt'[t] = published + Margin
           \/ ~known /\ (moved < Ttl \/ (~timing'.ok /\ timing'.age < Retry))
<1>0. /\ at \in [Turns -> {"idle", "probing", "sized", "read", "token", "send", "flight", "done"}]
      /\ attempt \in [Turns -> Attempts \union {0}] /\ moved \in 0..Ttl
      /\ timing \in [ok : BOOLEAN, age : 0..Ttl] \union {None}
  BY DEF Types, TypeOK
<1>1. ASSUME NEW u \in Turns, Begin(u) PROVE t = u /\ Fresh /\ attempt'[t] = AttemptFor(bound)
                                             /\ timing' = timing
  BY <1>0, <1>1 DEF Begin, Sized
<1>2. ASSUME NEW u \in Turns, ProbeAnswers(u) PROVE attempt'[t] = AttemptFor(published)
  BY <1>0, <1>2 DEF ProbeAnswers, Sized
<1>3. ASSUME NEW u \in Turns, ProbeFails(u)
      PROVE  attempt'[t] = AttemptFor(bound) /\ timing' = [ok |-> FALSE, age |-> 0]
  BY <1>0, <1>3 DEF ProbeFails, Sized
<1>4. ASSUME NEW u \in Turns, Turn(u), ~Begin(u), ~ProbeAnswers(u), ~ProbeFails(u) PROVE FALSE
  BY <1>0, <1>4 DEF Turn, ReadLongest, WriteLongest, Check, Send, Finish
<1>5. ASSUME UNCHANGED at PROVE FALSE
  BY <1>5
<1>6. known => AttemptFor(bound) = published + Margin
  BY PublishedSize DEF CacheInv
<1>7. ASSUME NEW u \in Turns, Begin(u), ~known
      PROVE  moved < Ttl \/ (~timing'.ok /\ timing'.age < Retry)
  <2>1. Fresh /\ timing' = timing
    BY <1>1, <1>7
  <2>2. timing \in [ok : BOOLEAN, age : 0..Ttl]
    BY <1>0, <2>1 DEF Fresh
  <2>3. CASE timing.ok
    <3>1. timing.age < Ttl /\ moved <= timing.age
      BY <1>7, <2>1, <2>3 DEF Fresh, CacheInv
    <3>. QED
      BY <1>0, <2>2, <3>1, TimingAssumption
  <2>4. CASE ~timing.ok
    BY <2>1, <2>4 DEF Fresh
  <2>. QED
    BY <2>3, <2>4
<1>8. ASSUME NEW u \in Turns, ProbeFails(u) PROVE ~timing'.ok /\ timing'.age < Retry
  BY <1>3, <1>8, TimingAssumption
<1>9. CASE \E u \in Turns : Begin(u)
  BY <1>1, <1>6, <1>7, <1>9
<1>10. CASE \E u \in Turns : ProbeAnswers(u)
  BY <1>2, <1>10, PublishedSize
<1>11. CASE \E u \in Turns : ProbeFails(u)
  BY <1>3, <1>6, <1>8, <1>11
<1>12. CASE Tick \/ BeginShutdown \/ Drain \/ (\E b \in Bounds : Move(b)) \/ UNCHANGED vars
  BY <1>5, <1>12 DEF Tick, BeginShutdown, Drain, Move, turns, vars
<1>. QED
  BY <1>4, <1>9, <1>10, <1>11, <1>12 DEF Next

\* A turn is sized to the bound in force once that bound has been read, however many
\* probes fail after; unread, it stays for one interval at most, whatever the two
\* intervals are (_published_bound's cache, _TIMING_TTL_SECONDS, _TIMING_RETRY_SECONDS).
THEOREM SizedInTime == Spec => SizedToBound
<1>1. Init => Types /\ CacheInv
  BY InitTyped DEF Init, CacheInv
<1>2. Types /\ CacheInv /\ [Next]_vars => Types' /\ CacheInv'
  BY StepTyped, StepCache
<1>3. Types /\ CacheInv /\ [Next]_vars
        => [\A t \in Turns : at'[t] = "sized" /\ at[t] # "sized" =>
              \/ attempt'[t] = published + Margin
              \/ ~known /\ (moved < Ttl \/ (~timing'.ok /\ timing'.age < Retry))]_vars
  BY StepSized
<1>. QED
  BY <1>1, <1>2, <1>3, PTL DEF Spec, SizedToBound
=============================================================================
