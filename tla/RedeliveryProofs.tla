---------------------------- MODULE RedeliveryProofs ----------------------------
(* What Redelivery's run checks on three events and two workers, for any number *)
(* of either, of deliveries and of restarts: an Idempotency-Key stands for one  *)
(* event's turn, and a Dedup of any size drops the retries it is there to drop. *)
EXTENDS Redelivery, FiniteSetTheorems, SequenceTheorems, TLAPS

turns == running \union receipts
Texts == Events \X BOOLEAN     \* whose, and with the discussion before it or not
Keys  == {"msg", "click", "shortcut", "view", "one-off"} \X (Stamps \union Nat)
Jobs  == [at : {"idle", "accepted", "begin", "ask"}, event : Events \union {None},
          key : Keys \union {None}, bytes : Texts \union {None}]

\* Identities are unique within one of Slack's clocks (Init, and nothing moves them).
EventsOK ==
    /\ kind \in [Events -> Kinds] /\ stamp \in [Events -> Stamps]
    /\ \A e, f \in Events :
           e # f /\ stamp[e] # None /\ stamp[e] = stamp[f] => Source(e) # Source(f)

\* k is a key _turn_key has given event e by now.
KeyFits(k, e) ==
    \/ stamp[e] # None /\ k = <<Namespace(e), stamp[e]>>
    \/ stamp[e] = None /\ \E n \in Nat : n < deliveries /\ k = <<"one-off", n>>

\* A handler at work has its event and its key; one that asks sends the event's bytes.
JobOK(w) ==
    \/ job[w] = Idle
    \/ /\ job[w] \in Jobs /\ job[w].at \in {"accepted", "begin", "ask"}
       /\ job[w].event \in Events /\ KeyFits(job[w].key, job[w].event)
       /\ job[w].at = "ask" => job[w].bytes \in Texts /\ job[w].bytes[1] = job[w].event

TurnOK(t) ==
    /\ t.bytes \in Texts /\ KeyFits(t.key, t.bytes[1])

Typed == /\ deliveries \in Nat
         /\ DOMAIN job = Workers /\ job = [w \in Workers |-> job[w]]
         /\ \A w \in Workers : JobOK(w)
         /\ \A t \in turns : TurnOK(t)

\* One key, one event: among the handlers, between them and the turns, and the turns.
AtWork(w)  == job[w] # Idle
JobsAgree  == \A w, v \in Workers :
                  AtWork(w) /\ AtWork(v) /\ job[w].key = job[v].key => job[w].event = job[v].event
TurnsAgree == \A w \in Workers, t \in turns :
                  AtWork(w) /\ Stands(w, t) => t.bytes[1] = job[w].event
TurnsApart == \A t, u \in turns : t.key = u.key => t = u

KeyInv == EventsOK /\ Typed /\ JobsAgree /\ TurnsAgree /\ TurnsApart

-----------------------------------------------------------------------------
(* Keys. *)

LEMMA NamespacesApart ==
    ASSUME EventsOK, NEW e \in Events, NEW f \in Events
    PROVE  Namespace(e) # "one-off" /\ (Source(e) # Source(f) => Namespace(e) # Namespace(f))
<1>1. kind[e] \in AllKinds /\ kind[f] \in AllKinds
  BY RedeliveryAssumption DEF EventsOK
<1>. QED
  BY <1>1, Zenon DEF AllKinds, Namespace, Source

LEMMA KeyTyped ==
    ASSUME EventsOK, deliveries \in Nat, NEW e \in Events PROVE turn_key(e) \in Keys
<1>1. kind[e] \in AllKinds /\ stamp[e] \in Stamps
  BY RedeliveryAssumption DEF EventsOK
<1>2. Namespace(e) \in {"msg", "click", "shortcut", "view"}
  BY <1>1, Zenon DEF AllKinds, Namespace, Source
<1>. QED
  BY <1>1, <1>2 DEF turn_key, Keys

\* A key just made is no other event's: _turn_key's namespaces keep the clocks apart,
\* and a random key is new.
LEMMA KeyIsOwn ==
    ASSUME EventsOK, deliveries \in Nat, NEW e \in Events, NEW f \in Events,
           KeyFits(turn_key(e), f)
    PROVE  e = f
<1>0. Namespace(e) # "one-off" /\ Namespace(f) # "one-off"
  BY NamespacesApart
<1>1. CASE stamp[e] # None
  <2>1. turn_key(e) = <<Namespace(e), stamp[e]>>
    BY <1>1 DEF turn_key
  <2>2. stamp[f] # None /\ turn_key(e) = <<Namespace(f), stamp[f]>>
    BY <1>0, <2>1 DEF KeyFits
  <2>3. stamp[e] = stamp[f] /\ Namespace(e) = Namespace(f)
    BY <2>1, <2>2
  <2>. QED
    BY <1>1, <2>3, NamespacesApart DEF EventsOK
<1>2. CASE stamp[e] = None
  <2>1. turn_key(e) = <<"one-off", deliveries>>
    BY <1>2 DEF turn_key
  <2>2. PICK n \in Nat : n < deliveries /\ turn_key(e) = <<"one-off", n>>
    BY <1>0, <2>1 DEF KeyFits
  <2>. QED
    BY <2>1, <2>2
<1>. QED
  BY <1>1, <1>2

LEMMA KeyStays ==
    ASSUME UNCHANGED event, deliveries \in Nat, deliveries' \in Nat, deliveries <= deliveries'
    PROVE  \A k, e : KeyFits(k, e) => KeyFits(k, e)'
<1>1. kind' = kind /\ stamp' = stamp
  BY DEF event
<1>2. \A e : Namespace(e)' = Namespace(e)
  BY <1>1 DEF Namespace, Source
<1>3. \A n \in Nat : n < deliveries => n < deliveries'
  OBVIOUS
<1>. QED
  BY <1>1, <1>2, <1>3 DEF KeyFits

LEMMA EventsStay == ASSUME EventsOK, UNCHANGED event PROVE EventsOK'
<1>1. kind' = kind /\ stamp' = stamp
  BY DEF event
<1>. QED
  BY <1>1 DEF EventsOK, Source

-----------------------------------------------------------------------------
(* Steps. *)

\* Jobs and turns that stay are still what they were.
LEMMA JobStays ==
    ASSUME Typed, UNCHANGED event, deliveries' \in Nat, deliveries <= deliveries',
           NEW w \in Workers, job'[w] = job[w]
    PROVE  JobOK(w)'
<1>1. JobOK(w) /\ deliveries \in Nat
  BY DEF Typed
<1>. QED
  BY <1>1, KeyStays DEF JobOK, Idle

LEMMA TurnStays ==
    ASSUME Typed, UNCHANGED event, deliveries' \in Nat, deliveries <= deliveries'
    PROVE  \A t \in turns : TurnOK(t)'
<1>1. (\A t \in turns : TurnOK(t)) /\ deliveries \in Nat
  BY DEF Typed
<1>. QED
  BY <1>1, KeyStays DEF TurnOK

\* Nobody takes up an event and nothing new is run.
LEMMA NothingNew ==
    ASSUME KeyInv, UNCHANGED event, deliveries' \in Nat, deliveries <= deliveries',
           turns' \subseteq turns, DOMAIN job' = Workers, job' = [w \in Workers |-> job'[w]],
           \A w \in Workers : job'[w] \in {job[w], Idle}
    PROVE  KeyInv'
<1>1. EventsOK'
  BY EventsStay DEF KeyInv
<1>2. Typed'
  <2>1. ASSUME NEW w \in Workers PROVE JobOK(w)'
    <3>1. CASE job'[w] = Idle
      BY <3>1 DEF JobOK
    <3>2. CASE job'[w] = job[w]
      BY <3>2, JobStays DEF KeyInv
    <3>. QED
      BY <3>1, <3>2
  <2>2. \A t \in turns' : TurnOK(t)'
    BY TurnStays DEF KeyInv
  <2>. QED
    BY <2>1, <2>2 DEF Typed
<1>3. JobsAgree' /\ TurnsAgree'
  BY DEF KeyInv, JobsAgree, TurnsAgree, AtWork, Stands
<1>4. TurnsApart'
  BY DEF KeyInv, TurnsApart
<1>. QED
  BY <1>1, <1>2, <1>3, <1>4 DEF KeyInv

\* A handler goes on with the event and the key it has.
LEMMA HandlerGoesOn ==
    ASSUME KeyInv, UNCHANGED <<event, deliveries, running, receipts>>,
           NEW w \in Workers, AtWork(w), NEW j, Set(w, j), j \in Jobs,
           j.at \in {"accepted", "begin", "ask"}, j.event = job[w].event, j.key = job[w].key,
           j.at = "ask" => j.bytes \in Texts /\ j.bytes[1] = j.event
    PROVE  KeyInv'
<1>0. /\ deliveries \in Nat /\ DOMAIN job' = Workers /\ job' = [v \in Workers |-> job'[v]]
      /\ job'[w] = j /\ \A v \in Workers \ {w} : job'[v] = job[v]
  BY DEF KeyInv, Typed, Set
<1>1. EventsOK'
  BY EventsStay DEF KeyInv
<1>2. Typed'
  <2>1. JobOK(w)'
    <3>1. job[w].event \in Events /\ KeyFits(job[w].key, job[w].event)
      BY DEF KeyInv, Typed, JobOK, AtWork
    <3>. QED
      BY <1>0, <3>1, KeyStays DEF JobOK
  <2>2. \A v \in Workers \ {w} : JobOK(v)'
    BY <1>0, JobStays DEF KeyInv
  <2>3. \A t \in turns' : TurnOK(t)'
    BY <1>0, TurnStays DEF KeyInv, turns
  <2>. QED
    BY <1>0, <2>1, <2>2, <2>3 DEF Typed
<1>3. JobsAgree'
  BY <1>0 DEF KeyInv, JobsAgree, AtWork
<1>4. TurnsAgree' /\ TurnsApart'
  BY <1>0 DEF KeyInv, TurnsAgree, TurnsApart, AtWork, Stands, turns
<1>. QED
  BY <1>1, <1>2, <1>3, <1>4 DEF KeyInv

\* Deliver: an event is taken up under its key, dropped, or skipped.
LEMMA DeliverKeeps ==
    ASSUME KeyInv, NEW w \in Workers, NEW e \in Events, Deliver(w, e) PROVE KeyInv'
<1>0. /\ UNCHANGED <<event, running, receipts>> /\ deliveries \in Nat
      /\ deliveries' = deliveries + 1
      /\ DOMAIN job = Workers /\ job = [v \in Workers |-> job[v]] /\ job[w] = Idle
  BY DEF Deliver, KeyInv, Typed
<1>1. CASE UNCHANGED job
  BY <1>0, <1>1, NothingNew DEF turns
<1>2. CASE Accept(w, e)
  <2>0. /\ DOMAIN job' = Workers /\ job' = [v \in Workers |-> job'[v]]
        /\ job'[w] \in Jobs /\ job'[w].at = "accepted" /\ job'[w].event = e
        /\ job'[w].key = turn_key(e)
        /\ \A v \in Workers \ {w} : job'[v] = job[v]
    <3>1. turn_key(e) \in Keys
      BY <1>0, KeyTyped DEF KeyInv
    <3>. QED
      BY <1>0, <1>2, <3>1 DEF Accept, Set, Jobs
  <2>1. EventsOK'
    BY <1>0, EventsStay DEF KeyInv
  <2>2. \A k : k = turn_key(e) => KeyFits(k, e)'
    <3>1. kind' = kind /\ stamp' = stamp
      BY <1>0 DEF event
    <3>2. Namespace(e)' = Namespace(e)
      BY <3>1 DEF Namespace, Source
    <3>3. deliveries < deliveries'
      BY <1>0
    <3>. QED
      BY <1>0, <3>1, <3>2, <3>3 DEF KeyFits, turn_key
  <2>3. Typed'
    <3>1. JobOK(w)'
      BY <2>0, <2>2 DEF JobOK
    <3>2. \A v \in Workers \ {w} : JobOK(v)'
      BY <1>0, <2>0, JobStays DEF KeyInv
    <3>3. \A t \in turns' : TurnOK(t)'
      BY <1>0, TurnStays DEF KeyInv, turns
    <3>. QED
      BY <1>0, <2>0, <3>1, <3>2, <3>3 DEF Typed
  <2>4. \A f \in Events : KeyFits(turn_key(e), f) => e = f
    BY <1>0, KeyIsOwn DEF KeyInv
  <2>5. JobsAgree'
    <3>1. \A v \in Workers : AtWork(v) =>
              job[v].event \in Events /\ KeyFits(job[v].key, job[v].event)
      BY DEF KeyInv, Typed, JobOK, AtWork
    <3>. QED
      BY <2>0, <2>4, <3>1 DEF KeyInv, JobsAgree, AtWork
  <2>6. TurnsAgree' /\ TurnsApart'
    <3>1. \A t \in turns : t.bytes[1] \in Events /\ KeyFits(t.key, t.bytes[1])
      BY DEF KeyInv, Typed, TurnOK, Texts
    <3>. QED
      BY <1>0, <2>0, <2>4, <3>1 DEF KeyInv, TurnsAgree, TurnsApart, AtWork, Stands, turns
  <2>. QED
    BY <2>1, <2>3, <2>5, <2>6 DEF KeyInv
<1>. QED
  BY <1>1, <1>2 DEF Deliver

\* Run: a turn starts under a key that has none.
LEMMA RunKeeps == ASSUME KeyInv, NEW w \in Workers, Run(w) PROVE KeyInv'
<1>. DEFINE n == [key |-> job[w].key, bytes |-> job[w].bytes]
<1>0. /\ UNCHANGED <<event, job, deliveries>> /\ turns' = turns \union {n} /\ deliveries \in Nat
      /\ job[w].at = "ask" /\ \A t \in turns : t.key # job[w].key
  BY DEF Run, KeyInv, Typed, turns, Stands
<1>1. AtWork(w) /\ JobOK(w)
  BY <1>0 DEF AtWork, Idle, KeyInv, Typed
<1>2. EventsOK'
  BY <1>0, EventsStay DEF KeyInv
<1>3. Typed'
  <2>1. \A v \in Workers : JobOK(v)'
    BY <1>0, JobStays DEF KeyInv
  <2>2. TurnOK(n)'
    BY <1>0, <1>1, KeyStays DEF JobOK, TurnOK, Idle
  <2>3. \A t \in turns' : TurnOK(t)'
    BY <1>0, <2>2, TurnStays DEF KeyInv
  <2>. QED
    BY <1>0, <2>1, <2>3 DEF Typed, KeyInv
<1>4. JobsAgree' /\ TurnsApart'
  BY <1>0 DEF KeyInv, JobsAgree, TurnsApart, AtWork
<1>5. TurnsAgree'
  BY <1>0, <1>1 DEF KeyInv, JobsAgree, TurnsAgree, AtWork, Stands, JobOK, Idle
<1>. QED
  BY <1>2, <1>3, <1>4, <1>5 DEF KeyInv

LEMMA StepKeeps == ASSUME KeyInv, [Next]_vars PROVE KeyInv'
<1>0. deliveries \in Nat /\ DOMAIN job = Workers /\ job = [v \in Workers |-> job[v]]
  BY DEF KeyInv, Typed
<1>1. ASSUME NEW w \in Workers, NEW e \in Events, Deliver(w, e) PROVE KeyInv'
  BY <1>1, DeliverKeeps
<1>2. ASSUME NEW w \in Workers, Worker(w) PROVE KeyInv'
  <2>0. ASSUME Set(w, Idle), UNCHANGED <<event, deliveries, running, receipts>> PROVE KeyInv'
    BY <1>0, <2>0, NothingNew DEF Set, turns
  <2>1. CASE EnterGate(w)
    <3>1. CASE busy
      BY <2>0, <2>1, <3>1 DEF EnterGate
    <3>2. CASE ~busy
      <4>. DEFINE j == [job[w] EXCEPT !.at = "begin"]
      <4>1. AtWork(w) /\ Set(w, j) /\ UNCHANGED <<event, deliveries, running, receipts>>
        BY <2>1, <3>2 DEF EnterGate, AtWork, Idle
      <4>2. JobOK(w)
        BY DEF KeyInv, Typed
      <4>3. j \in Jobs /\ j.at = "begin" /\ j.event = job[w].event /\ j.key = job[w].key
        BY <4>1, <4>2 DEF JobOK, AtWork, Jobs
      <4>. QED
        BY <4>1, <4>3, HandlerGoesOn
    <3>. QED
      BY <3>1, <3>2
  <2>2. CASE Prepare(w)
    <3>1. CASE Set(w, Idle)
      BY <2>0, <2>2, <3>1 DEF Prepare
    <3>2. CASE ~Set(w, Idle)
      <4>. DEFINE j == [job[w] EXCEPT !.at = "ask", !.bytes = Bytes(job[w].event)]
      <4>1. AtWork(w) /\ Set(w, j) /\ UNCHANGED <<event, deliveries, running, receipts>>
        BY <2>2, <3>2 DEF Prepare, AtWork, Idle
      <4>2. job[w] \in Jobs /\ job[w].event \in Events
        BY <4>1 DEF KeyInv, Typed, JobOK, AtWork
      <4>. DEFINE b == Bytes(job[w].event)
      <4>3. b \in Texts /\ b[1] = job[w].event
        BY <4>2 DEF Bytes, Texts
      <4>. HIDE DEF b
      <4>. DEFINE i == [job[w] EXCEPT !.at = "ask", !.bytes = b]
      <4>4. /\ i \in Jobs /\ i.at = "ask" /\ i.event = job[w].event /\ i.key = job[w].key
            /\ i.bytes = b
        BY <4>2, <4>3 DEF Jobs
      <4>5. Set(w, i)
        BY <4>1 DEF b
      <4>. HIDE DEF i
      <4>. QED
        BY <4>1, <4>3, <4>4, <4>5, HandlerGoesOn
    <3>. QED
      BY <3>1, <3>2
  <2>3. CASE Run(w)
    BY <2>3, RunKeeps
  <2>4. CASE Answered(w) \/ Refused(w)
    BY <2>0, <2>4 DEF Answered, Refused
  <2>. QED
    BY <1>2, <2>1, <2>2, <2>3, <2>4 DEF Worker
<1>3. ASSUME NEW t \in running, RunCommits(t) \/ RunFails(t) PROVE KeyInv'
  BY <1>0, <1>3, NothingNew DEF RunCommits, RunFails, turns
<1>4. CASE Restart
  BY <1>0, <1>4, NothingNew DEF Restart, turns
<1>5. CASE UNCHANGED vars
  BY <1>0, <1>5, NothingNew DEF vars, turns
<1>. QED
  BY <1>1, <1>2, <1>3, <1>4, <1>5 DEF Next

LEMMA InitKeys == Init => KeyInv
BY DEF Init, KeyInv, EventsOK, Typed, JobOK, JobsAgree, TurnsAgree, TurnsApart, AtWork, turns

-----------------------------------------------------------------------------
\* A key stands for one event's turn, committed once, for any number of events, of
\* redeliveries and of restarts (_turn_key, Dedup, submit_turn's Idempotency-Key).
THEOREM OneTurnPerKey == Spec => []KeyNamesOneTurn
<1>1. KeyInv => KeyNamesOneTurn
  <2>. SUFFICES ASSUME KeyInv PROVE KeyNamesOneTurn
    OBVIOUS
  <2>1. ASSUME NEW e \in Events, stamp[e] # None
        PROVE  Cardinality({t \in receipts : t.bytes[1] = e}) <= 1
    <3>. DEFINE own == {t \in receipts : t.bytes[1] = e}
    <3>1. \A t \in own : t.key = <<Namespace(e), stamp[e]>> /\ t \in turns
      BY <2>1 DEF KeyInv, Typed, TurnOK, KeyFits, turns
    <3>2. \A t, u \in own : t = u
      BY <3>1 DEF KeyInv, TurnsApart
    <3>3. CASE own = {}
      BY <3>3, FS_EmptySet
    <3>4. CASE own # {}
      <4>1. PICK t \in own : own = {t}
        BY <3>2, <3>4
      <4>2. Cardinality({t}) = 1
        BY FS_Singleton
      <4>3. Cardinality(own) = 1
        BY <4>1, <4>2, Zenon
      <4>. QED
        BY <4>3
    <3>. QED
      BY <3>3, <3>4
  <2>2. ASSUME NEW w \in Workers, NEW t \in receipts, job[w].key # None, Stands(w, t)
        PROVE  t.bytes[1] = job[w].event
    BY <2>2 DEF KeyInv, TurnsAgree, AtWork, Idle, turns
  <2>. QED
    BY <2>1, <2>2 DEF KeyNamesOneTurn
<1>2. Init => KeyInv
  BY InitKeys
<1>3. KeyInv /\ [Next]_vars => KeyInv'
  BY StepKeeps
<1>. QED
  BY <1>1, <1>2, <1>3, PTL DEF Spec

-----------------------------------------------------------------------------
(* What a Dedup forgets.  A key leaves it by its oldest end only, and stands *)
(* in front of nothing but what came after it: so when it is gone, the whole *)
(* Dedup came after it.                                                      *)

\* Keys of Slack's, each once, and no more than the Dedup may hold.
Book(q) == /\ q \in Seq(Stamps) /\ Len(q) <= MaxSeen
           /\ \A i, j \in 1 .. Len(q) : q[i] = q[j] => i = j

\* Behind e's key, at i of q, is nothing but the keys in later.
Behind(q, i, later) == \A j \in 1 .. Len(q) : j > i => q[j] \in later

Remembered(e) ==
    \E i \in 1 .. Len(seen[kind[e]]) : /\ seen[kind[e]][i] = stamp[e]
                                       /\ Behind(seen[kind[e]], i, since[e])

\* e's key is still there, or a whole Dedup of others has come since.
Overrun(e) == MaxSeen <= Cardinality(since[e])
Kept(e)    == kind[e] \in Deduped /\ stamp[e] # None => Remembered(e) \/ Overrun(e)

DedupInv ==
    /\ DOMAIN seen = Deduped /\ \A s \in Deduped : Book(seen[s])
    /\ \A e \in Events : IsFiniteSet(since[e])
    /\ delivered \subseteq Events
    /\ \A e \in delivered : Kept(e)

\* What becomes of the key at i of q when k is recorded, giving r: it is still there
\* with at most k more behind it, or it is gone and r is all keys from behind it and k.
Fate(q, i, k, r) ==
    \A later : Behind(q, i, later) =>
        \/ \E j \in 1 .. Len(r) : r[j] = q[i] /\ Behind(r, j, later \union {k})
        \/ Len(r) = MaxSeen /\ Behind(r, 0, later \union {k})

\* r is q with k recorded: a Dedup with k in it, and a fate for every other key.
Records(q, k, r) ==
    /\ Book(r) /\ Len(r) > 0 /\ r[Len(r)] = k
    /\ \A i \in 1 .. Len(q) : q[i] # k => Fate(q, i, k, r)

\* A key it knows is moved to the end (move_to_end).
LEMMA KnownMoves ==
    ASSUME NEW s \in Deduped, Book(seen[s]), NEW k \in Stamps, Known(s, k)
    PROVE  Records(seen[s], k, Append(Without(s, k), k))
<1>. DEFINE q  == seen[s]
            n  == Len(q)
            at == CHOOSE i \in DOMAIN q : q[i] = k
            W  == Without(s, k)
            r  == Append(W, k)
<1>1. q \in Seq(Stamps) /\ n \in Nat /\ n <= MaxSeen /\ DOMAIN q = 1 .. n
  BY DEF Book
<1>2. at \in 1 .. n /\ q[at] = k
  BY <1>1 DEF Known
<1>3. \A i \in 1 .. n : q[i] \in Stamps
  BY <1>1
<1>4. \A i, j \in 1 .. n : q[i] = q[j] => i = j
  BY DEF Book
<1>5. W = [i \in 1 .. n - 1 |-> q[IF i < at THEN i ELSE i + 1]]
  BY DEF Without
<1>. HIDE DEF at, W, q, n
<1>6. n - 1 \in Nat
  BY <1>1, <1>2
<1>7. \A i \in 1 .. n - 1 : (IF i < at THEN i ELSE i + 1) \in 1 .. n
  BY <1>1, <1>2
<1>8. W \in Seq(Stamps) /\ Len(W) = n - 1
  <2>1. W \in [1 .. n - 1 -> Stamps]
    BY <1>3, <1>5, <1>7
  <2>. QED
    BY <1>6, <2>1
<1>9. /\ r \in Seq(Stamps) /\ Len(r) = n /\ r[n] = k
      /\ \A i \in 1 .. n - 1 : r[i] = W[i]
  BY <1>1, <1>8, AppendProperties
<1>10. \A i \in 1 .. n - 1 : r[i] = q[IF i < at THEN i ELSE i + 1]
  BY <1>5, <1>9
<1>. HIDE DEF r
<1>11. \A i \in 1 .. n - 1 : r[i] # k
  BY <1>2, <1>4, <1>7, <1>10
<1>12. \A i, j \in 1 .. n : r[i] = r[j] => i = j
  <2>. SUFFICES ASSUME NEW i \in 1 .. n, NEW j \in 1 .. n, r[i] = r[j] PROVE i = j
    OBVIOUS
  <2>1. CASE i = n \/ j = n
    <3>1. ~(i \in 1 .. n - 1) /\ ~(j \in 1 .. n - 1)
      BY <1>1, <1>9, <1>11, <2>1
    <3>. QED
      BY <1>1, <3>1
  <2>2. CASE i # n /\ j # n
    <3>1. i \in 1 .. n - 1 /\ j \in 1 .. n - 1
      BY <1>1, <2>2
    <3>. DEFINE a == IF i < at THEN i ELSE i + 1
                b == IF j < at THEN j ELSE j + 1
    <3>2. a \in 1 .. n /\ b \in 1 .. n /\ r[i] = q[a] /\ r[j] = q[b]
      BY <1>7, <1>10, <3>1
    <3>3. a = b
      BY <1>4, <3>2
    <3>. QED
      BY <1>2, <3>1, <3>3
  <2>. QED
    BY <2>1, <2>2
<1>13. Book(r)
  BY <1>1, <1>9, <1>12 DEF Book
<1>14. ASSUME NEW i \in 1 .. n, q[i] # k PROVE Fate(q, i, k, r)
  <2>. SUFFICES ASSUME NEW later, Behind(q, i, later)
                PROVE  \E j \in 1 .. Len(r) : r[j] = q[i] /\ Behind(r, j, later \union {k})
    BY DEF Fate
  <2>. DEFINE to == IF i < at THEN i ELSE i - 1
  <2>1. i # at /\ to \in 1 .. n - 1 /\ (IF to < at THEN to ELSE to + 1) = i
    BY <1>1, <1>2, <1>14
  <2>2. r[to] = q[i] /\ to \in 1 .. Len(r)
    BY <1>1, <1>9, <1>10, <2>1
  <2>3. ASSUME NEW j \in 1 .. n, j > to PROVE r[j] \in later \union {k}
    <3>1. CASE j = n
      BY <1>9, <3>1
    <3>2. CASE j # n
      <4>. DEFINE b == IF j < at THEN j ELSE j + 1
      <4>1. j \in 1 .. n - 1 /\ b \in 1 .. n /\ b > i
        BY <1>1, <1>2, <2>1, <2>3, <3>2
      <4>2. r[j] = q[b]
        BY <1>10, <4>1
      <4>3. q[b] \in later
        BY <4>1 DEF Behind, n
      <4>. QED
        BY <4>2, <4>3
    <3>. QED
      BY <3>1, <3>2
  <2>. QED
    BY <1>9, <2>2, <2>3 DEF Behind
<1>15. Records(q, k, r)
  BY <1>1, <1>2, <1>9, <1>13, <1>14 DEF Records, n
<1>. QED
  BY <1>15 DEF q, r, W

\* A new key goes to the end, and past MaxSeen the oldest one out (popitem).
LEMMA NewAppended ==
    ASSUME NEW s \in Deduped, Book(seen[s]), NEW k \in Stamps, k # None, ~Known(s, k)
    PROVE  Records(seen[s], k, Bounded(Append(seen[s], k)))
<1>. DEFINE q == seen[s]
            n == Len(q)
            p == Append(q, k)
            r == Bounded(p)
<1>1. /\ q \in Seq(Stamps) /\ n \in Nat /\ n <= MaxSeen /\ DOMAIN q = 1 .. n
      /\ MaxSeen \in Nat \ {0}
  BY RedeliveryAssumption DEF Book
<1>2. \A i \in 1 .. n : q[i] # k
  BY <1>1 DEF Known
<1>3. \A i, j \in 1 .. n : q[i] = q[j] => i = j
  BY DEF Book
<1>. HIDE DEF q
<1>4. /\ p \in Seq(Stamps) /\ Len(p) = n + 1 /\ p[n + 1] = k /\ p # <<>>
      /\ \A i \in 1 .. n : p[i] = q[i]
  BY <1>1, AppendProperties
<1>. HIDE DEF n, p
<1>5. \A i, j \in 1 .. n + 1 : p[i] = p[j] => i = j
  <2>. SUFFICES ASSUME NEW i \in 1 .. n + 1, NEW j \in 1 .. n + 1, p[i] = p[j] PROVE i = j
    OBVIOUS
  <2>1. CASE i \in 1 .. n /\ j \in 1 .. n
    BY <1>3, <1>4, <2>1
  <2>2. CASE ~(i \in 1 .. n) \/ ~(j \in 1 .. n)
    BY <1>1, <1>2, <1>4, <2>2
  <2>. QED
    BY <2>1, <2>2
<1>6. CASE n < MaxSeen
  <2>1. r = p
    BY <1>1, <1>4, <1>6 DEF Bounded
  <2>2. Book(p)
    BY <1>1, <1>4, <1>5, <1>6 DEF Book
  <2>3. ASSUME NEW i \in 1 .. n PROVE Fate(q, i, k, p)
    BY <1>1, <1>4 DEF Fate, Behind, n
  <2>4. Records(q, k, r)
    BY <1>1, <1>4, <2>1, <2>2, <2>3 DEF Records, n
  <2>. QED
    BY <2>4 DEF q, r, p
<1>7. CASE n = MaxSeen
  <2>1. r = Tail(p)
    BY <1>1, <1>4, <1>7 DEF Bounded
  <2>2. r \in Seq(Stamps) /\ Len(r) = n /\ \A i \in 1 .. n : r[i] = p[i + 1]
    BY <1>1, <1>4, <2>1, HeadTailProperties
  <2>. HIDE DEF r
  <2>3. \A i \in 1 .. n : i + 1 \in 1 .. n + 1
    BY <1>1
  <2>4. Book(r)
    BY <1>1, <1>5, <1>7, <2>2, <2>3 DEF Book
  <2>5. r[n] = k /\ \A i \in 1 .. n - 1 : r[i] = q[i + 1]
    BY <1>1, <1>4, <1>7, <2>2
  <2>6. ASSUME NEW i \in 1 .. n PROVE Fate(q, i, k, r)
    <3>. SUFFICES ASSUME NEW later, Behind(q, i, later)
                  PROVE  \/ \E j \in 1 .. Len(r) : r[j] = q[i] /\ Behind(r, j, later \union {k})
                         \/ Len(r) = MaxSeen /\ Behind(r, 0, later \union {k})
      BY DEF Fate
    <3>1. ASSUME NEW j \in 1 .. n, j > i - 1 PROVE r[j] \in later \union {k}
      <4>1. CASE j = n
        BY <2>5, <4>1
      <4>2. CASE j # n
        <5>1. j \in 1 .. n - 1 /\ j + 1 \in 1 .. n /\ j + 1 > i
          BY <1>1, <3>1, <4>2
        <5>2. q[j + 1] \in later
          BY <5>1 DEF Behind, n
        <5>. QED
          BY <2>5, <5>1, <5>2
      <4>. QED
        BY <4>1, <4>2
    <3>2. CASE i = 1
      BY <1>1, <1>7, <2>2, <3>1, <3>2 DEF Behind
    <3>3. CASE i # 1
      <4>1. i - 1 \in 1 .. n /\ i - 1 \in 1 .. n - 1
        BY <1>1, <3>3
      <4>2. r[i - 1] = q[i]
        BY <1>1, <2>5, <4>1
      <4>3. Behind(r, i - 1, later \union {k})
        BY <2>2, <3>1 DEF Behind
      <4>. QED
        BY <2>2, <4>1, <4>2, <4>3
    <3>. QED
      BY <3>2, <3>3
  <2>7. Records(q, k, r)
    BY <1>1, <1>7, <2>2, <2>4, <2>5, <2>6 DEF Records, n
  <2>. QED
    BY <2>7 DEF q, r, p
<1>. QED
  BY <1>1, <1>6, <1>7

LEMMA RecordedRecords ==
    ASSUME NEW s \in Deduped, Book(seen[s]), NEW k \in Stamps, k # None
    PROVE  Records(seen[s], k, Recorded(s, k))
BY KnownMoves, NewAppended DEF Recorded

\* The keys that came since an event only grow, until it comes again.
LEMMA OverrunStays ==
    ASSUME NEW e \in Events, IsFiniteSet(since[e]), since[e] \subseteq since'[e],
           IsFiniteSet(since'[e])
    PROVE  Overrun(e) => Overrun(e)'
<1>1. Cardinality(since[e]) <= Cardinality(since'[e])
  BY FS_Subset
<1>2. Cardinality(since[e]) \in Nat /\ Cardinality(since'[e]) \in Nat /\ MaxSeen \in Nat
  BY FS_CardinalityType, RedeliveryAssumption
<1>. QED
  BY <1>1, <1>2 DEF Overrun

\* A Dedup full of keys that came since overruns the event.
LEMMA FullOverruns ==
    ASSUME NEW q, Book(q), Len(q) = MaxSeen, NEW later, IsFiniteSet(later), Behind(q, 0, later)
    PROVE  MaxSeen <= Cardinality(later)
<1>1. q \in [1 .. MaxSeen -> Stamps] /\ MaxSeen \in Nat \ {0}
  BY RedeliveryAssumption DEF Book
<1>2. q \in [1 .. MaxSeen -> later]
  BY <1>1 DEF Behind
<1>3. \A i, j \in 1 .. MaxSeen : q[i] = q[j] => i = j
  BY DEF Book
<1>4. q \in Injection(1 .. MaxSeen, later)
  BY <1>2, <1>3 DEF Injection, IsInjective
<1>5. Cardinality(1 .. MaxSeen) <= Cardinality(later)
  BY <1>4, FS_Injection
<1>6. Cardinality(1 .. MaxSeen) = MaxSeen
  BY <1>1, FS_Interval
<1>. QED
  BY <1>5, <1>6

\* A delivery to a surface with a Dedup.
LEMMA NotedKeeps ==
    ASSUME EventsOK, DedupInv, UNCHANGED event, NEW e \in Events, kind[e] \in Deduped,
           seen' = [seen EXCEPT ![kind[e]] = Recorded(kind[e], stamp[e])], Noted(e)
    PROVE  DedupInv'
<1>. DEFINE s == kind[e]
            k == stamp[e]
<1>0. kind' = kind /\ stamp' = stamp /\ k \in Stamps /\ s \in Deduped
  BY DEF event, EventsOK
<1>1. /\ DOMAIN seen' = Deduped /\ seen'[s] = Recorded(s, k)
      /\ \A t \in Deduped \ {s} : seen'[t] = seen[t]
  BY DEF DedupInv
<1>2. k = None => seen'[s] = seen[s]
  BY <1>1 DEF Recorded
<1>3. k # None => Records(seen[s], k, seen'[s])
  BY <1>0, <1>1, RecordedRecords DEF DedupInv
<1>4. \A t \in Deduped : Book(seen[t])
  BY DEF DedupInv
<1>5. \A t \in Deduped : Book(seen'[t])
  BY <1>1, <1>2, <1>3, <1>4 DEF Records
<1>6. /\ since'[e] = {} /\ delivered' = delivered \union {e}
      /\ \A f \in Events \ {e} :
            since'[f] = IF kind[f] = s THEN since[f] \union ({k} \ {None}) ELSE since[f]
  BY DEF Noted
<1>7. \A f \in Events : IsFiniteSet(since'[f])
  <2>. SUFFICES ASSUME NEW f \in Events PROVE IsFiniteSet(since'[f])
    OBVIOUS
  <2>1. IsFiniteSet(since[f]) /\ IsFiniteSet(since[f] \union {k}) /\ IsFiniteSet({})
    BY FS_AddElement, FS_EmptySet DEF DedupInv
  <2>2. since'[f] \in {{}, since[f], since[f] \union {k}}
    BY <1>6
  <2>. QED
    BY <2>1, <2>2
<1>8. Kept(e)'
  <2>. SUFFICES ASSUME k # None PROVE Remembered(e)'
    BY <1>0 DEF Kept
  <2>1. /\ Len(seen'[s]) \in 1 .. Len(seen'[s]) /\ seen'[s][Len(seen'[s])] = k
    BY <1>3 DEF Records, Book
  <2>2. Behind(seen'[s], Len(seen'[s]), since'[e])
    BY <2>1 DEF Behind
  <2>. QED
    BY <1>0, <2>1, <2>2 DEF Remembered
<1>9. ASSUME NEW f \in delivered, f # e PROVE Kept(f)'
  <2>0. f \in Events /\ Kept(f)
    BY <1>9 DEF DedupInv
  <2>. SUFFICES ASSUME kind[f] \in Deduped, stamp[f] # None PROVE Remembered(f)' \/ Overrun(f)'
    BY <1>0 DEF Kept
  <2>1. Remembered(f) \/ Overrun(f)
    BY <2>0 DEF Kept
  <2>2. since[f] \subseteq since'[f] /\ IsFiniteSet(since[f]) /\ IsFiniteSet(since'[f])
    BY <1>6, <1>7, <1>9, <2>0 DEF DedupInv
  <2>3. CASE Overrun(f)
    BY <2>0, <2>2, <2>3, OverrunStays
  <2>4. CASE Remembered(f) /\ (kind[f] # s \/ k = None)
    <3>1. seen'[kind[f]] = seen[kind[f]] /\ since'[f] = since[f]
      BY <1>1, <1>2, <1>6, <1>9, <2>0, <2>4
    <3>. QED
      BY <1>0, <2>4, <3>1 DEF Remembered
  <2>5. CASE Remembered(f) /\ kind[f] = s /\ k # None
    <3>1. since'[f] = since[f] \union {k}
      BY <1>6, <1>9, <2>0, <2>5
    <3>2. stamp[f] # k
      BY <1>9, <2>0, <2>5 DEF EventsOK, Source
    <3>3. PICK i \in 1 .. Len(seen[s]) : seen[s][i] = stamp[f] /\ Behind(seen[s], i, since[f])
      BY <2>5 DEF Remembered
    <3>4. Fate(seen[s], i, k, seen'[s])
      BY <1>3, <2>5, <3>2, <3>3 DEF Records
    <3>5. CASE \E j \in 1 .. Len(seen'[s]) : seen'[s][j] = seen[s][i]
                                             /\ Behind(seen'[s], j, since[f] \union {k})
      BY <1>0, <2>5, <3>1, <3>3, <3>5 DEF Remembered
    <3>6. CASE Len(seen'[s]) = MaxSeen /\ Behind(seen'[s], 0, since[f] \union {k})
      <4>1. Book(seen'[s])
        BY <1>0, <1>5
      <4>2. MaxSeen <= Cardinality(since'[f])
        BY <2>2, <3>1, <3>6, <4>1, FullOverruns
      <4>. QED
        BY <4>2 DEF Overrun
    <3>. QED
      BY <3>3, <3>4, <3>5, <3>6 DEF Fate
  <2>. QED
    BY <2>1, <2>3, <2>4, <2>5
<1>10. delivered' \subseteq Events
  BY <1>6 DEF DedupInv
<1>. QED
  BY <1>1, <1>5, <1>6, <1>7, <1>8, <1>9, <1>10 DEF DedupInv

LEMMA DedupStays ==
    ASSUME DedupInv, UNCHANGED <<event, seen, delivered, since>> PROVE DedupInv'
<1>1. kind' = kind /\ stamp' = stamp
  BY DEF event
<1>. QED
  BY <1>1 DEF DedupInv, Kept, Remembered, Overrun

LEMMA DedupKeeps == ASSUME KeyInv, DedupInv, [Next]_vars PROVE DedupInv'
<1>1. ASSUME NEW w \in Workers, NEW e \in Events, Deliver(w, e) PROVE DedupInv'
  <2>1. CASE kind[e] \in Deduped
    BY <1>1, <2>1, NotedKeeps DEF Deliver, KeyInv
  <2>2. CASE kind[e] \notin Deduped
    BY <1>1, <2>2, DedupStays DEF Deliver
  <2>. QED
    BY <2>1, <2>2
<1>2. CASE UNCHANGED <<event, seen, delivered, since>>
  BY <1>2, DedupStays
<1>3. CASE Restart
  <2>1. Book(<<>>)
    BY RedeliveryAssumption DEF Book
  <2>2. IsFiniteSet({})
    BY FS_EmptySet
  <2>. QED
    BY <1>3, <2>1, <2>2 DEF Restart, DedupInv
<1>4. ASSUME NEW w \in Workers, Worker(w) PROVE UNCHANGED <<event, seen, delivered, since>>
  BY <1>4 DEF Worker, EnterGate, Prepare, Run, Answered, Refused
<1>5. ASSUME NEW t \in running, RunCommits(t) \/ RunFails(t)
      PROVE  UNCHANGED <<event, seen, delivered, since>>
  BY <1>5 DEF RunCommits, RunFails
<1>. QED
  BY <1>1, <1>2, <1>3, <1>4, <1>5 DEF Next, vars

LEMMA InitDedup == Init => DedupInv
<1>1. Book(<<>>)
  BY RedeliveryAssumption DEF Book
<1>2. IsFiniteSet({})
  BY FS_EmptySet
<1>. QED
  BY <1>1, <1>2 DEF Init, DedupInv

\* Only a delivery gives an idle handler an event.
LEMMA TakenUpByDelivery ==
    ASSUME KeyInv, [Next]_vars, NEW w \in Workers, NEW e \in Events,
           job[w] = Idle, job'[w].event = e
    PROVE  Deliver(w, e) /\ job' # job
<1>0. DOMAIN job = Workers /\ e # None /\ job[w].event = None /\ job[w].at = "idle"
  BY RedeliveryAssumption DEF KeyInv, Typed, Idle
<1>1. job'[w] # job[w]
  BY <1>0
<1>2. ASSUME NEW v \in Workers, Worker(v) PROVE FALSE
  <2>1. job[v].at # "idle"
    BY <1>2 DEF Worker, EnterGate, Prepare, Run, Answered, Refused
  <2>2. v # w
    BY <1>0, <2>1
  <2>3. job'[w] = job[w]
    BY <1>0, <1>2, <2>2 DEF Worker, EnterGate, Prepare, Run, Answered, Refused, Set
  <2>. QED
    BY <1>1, <2>3
<1>3. ASSUME NEW v \in Workers, NEW f \in Events, Deliver(v, f) PROVE v = w /\ f = e
  <2>1. Accept(v, f)
    BY <1>1, <1>3 DEF Deliver
  <2>. QED
    BY <1>0, <1>1, <2>1 DEF Accept, Set
<1>4. ~Restart /\ ~UNCHANGED vars /\ ~\E t \in running : RunCommits(t) \/ RunFails(t)
  BY <1>0, <1>1 DEF Restart, vars, RunCommits, RunFails, Idle
<1>. QED
  BY <1>1, <1>2, <1>3, <1>4 DEF Next

\* A retry of what this process took up is dropped unless a whole Dedup of other events
\* has come since, whatever the Dedup's size (Dedup.is_duplicate).
THEOREM RetriesDropped == Spec => RecentDropped
<1>1. ASSUME KeyInv, DedupInv, [Next]_vars, NEW w \in Workers, NEW e \in Events,
             job[w] = Idle, job'[w].event = e,
             kind[e] \in Deduped, stamp[e] # None, e \in delivered
      PROVE  Cardinality(since[e]) >= MaxSeen
  <2>1. Deliver(w, e) /\ job' # job
    BY <1>1, TakenUpByDelivery
  <2>2. ~Known(kind[e], stamp[e])
    BY <1>1, <2>1 DEF Deliver
  <2>3. Book(seen[kind[e]]) /\ Kept(e) /\ e \in Events
    BY <1>1 DEF DedupInv
  <2>4. ~Remembered(e)
    BY <1>1, <2>2, <2>3 DEF Remembered, Known, Book
  <2>5. IsFiniteSet(since[e])
    BY <1>1 DEF DedupInv
  <2>6. Cardinality(since[e]) \in Nat /\ MaxSeen \in Nat
    BY <2>5, FS_CardinalityType, RedeliveryAssumption
  <2>. QED
    BY <1>1, <2>3, <2>4, <2>6 DEF Kept, Overrun
<1>. DEFINE Dropped ==
         \A w \in Workers, e \in Events :
             /\ job[w] = Idle /\ job'[w].event = e
             /\ kind[e] \in Deduped /\ stamp[e] # None /\ e \in delivered
             => Cardinality(since[e]) >= MaxSeen
<1>2. KeyInv /\ DedupInv /\ [Next]_vars => [Dropped]_vars
  BY <1>1, Zenon
<1>3. Init => KeyInv /\ DedupInv
  BY InitKeys, InitDedup
<1>4. KeyInv /\ DedupInv /\ [Next]_vars => KeyInv' /\ DedupInv'
  BY StepKeeps, DedupKeeps
<1>5. Spec => [][Dropped]_vars
  <2>. HIDE DEF Dropped
  <2>. QED
    BY <1>2, <1>3, <1>4, PTL DEF Spec
<1>. QED
  BY <1>5 DEF RecentDropped
=============================================================================
