------------------------- MODULE CredentialOrderProofs -------------------------
(* The process-wide default's token, for any number of threads, tokens and      *)
(* failures: persist before use; no write lands over a newer one; close() waits *)
(* for a renewal it finds; and the live token leaves safe hands only by a       *)
(* failure (the refinement of TokenCustody).                                    *)
EXTENDS CredentialRotationProofs

\* Nothing but the other process holds a token issued after the n-th.
KnowsUpto(a, n) == mem[a].got \in 0..n /\ mem[a].show \in 0..n /\ mem[a].left \in Seq(0..n)
Below(n) ==
    /\ row.token \in 0..n /\ seed \in 0..n
    /\ \A o \in Creds : cred[o].refresh \in 0..n
    /\ \A a \in Actors : KnowsUpto(a, n)

\* The live token is the last one issued.
Newest == live = {issued} /\ Below(issued)

\* While the other process holds it nothing here can be renewed or is owed a write.
Elsewhere ==
    other # 0 => /\ other = issued /\ Below(issued - 1)
                 /\ \A o \in Creds : ~cred[o].unpersisted

\* A token on its way into the object is newer than what it replaces there and in the row.
Placed(a) ==
    /\ at[a] = "minted" => /\ mem[a].got = issued /\ row.token < issued
                           /\ \A o \in Creds : cred[o].refresh < issued
    /\ at[a] = "persisted" =>
           \A o \in Creds : /\ cred[o].refresh <= mem[a].got
                            /\ IF cred[o].unpersisted THEN row.token < mem[a].got
                                                      ELSE mem[a].got <= row.token
    /\ at[a] = "retry" => \A o \in Creds : cred[o].unpersisted
    /\ \A o \in Creds : mem[a].use <= cred[o].refresh

\* The object's token is stored, or newer than the row's and owed to the store.
Owed(o) ==
    /\ cred[o].access <= cred[o].refresh
    /\ cred[o].refresh <= row.token \/ cred[o].unpersisted
    /\ cred[o].unpersisted => row.token < cred[o].refresh \/ \E a \in Actors : at[a] = "persisted"

Ordered == /\ Newest /\ Elsewhere
           /\ \A a \in Actors : Placed(a)
           /\ \A o \in Creds : Owed(o)

Grounds == Types /\ Safe /\ Ordered

-----------------------------------------------------------------------------
LEMMA SeqWidens == ASSUME NEW n \in Nat, NEW s \in Seq(0..n) PROVE s \in Seq(0..(n + 1))
<1>1. 0..n \subseteq 0..(n + 1)
  OBVIOUS
<1>. QED
  BY <1>1

\* What the types say of the row, the objects and the threads.
LEMMA Numbers ==
    ASSUME ~Keyed, Types
    PROVE  /\ row \in [token : Nat, ent : Enterprises] /\ seed \in Nat /\ other \in Nat
           /\ issued \in Nat
           /\ cred \in [Creds -> Fields]
           /\ \A o \in Creds : cred[o].refresh \in Nat /\ cred[o].access \in Nat
           /\ at \in [Actors -> Places] /\ mem \in [Actors -> Locals]
           /\ \A a \in Actors : mem[a].use \in Nat /\ mem[a].got \in Nat
<1>1. Tokens \subseteq Nat
  BY DEF Tokens
<1>2. row # None /\ row \in Rows
  BY DEF Types, StoreOK
<1>3. row \in [token : Nat, ent : Enterprises]
  BY <1>1, <1>2 DEF Rows
<1>4. seed \in Nat /\ other \in Nat /\ issued \in Nat
  BY <1>1 DEF Types, StoreOK, WorldOK
<1>5. cred \in [Creds -> Fields]
  BY DEF Types, StoreOK
<1>6. \A o \in Creds : cred[o].refresh \in Nat /\ cred[o].access \in Nat
  BY <1>1, <1>5 DEF Fields
<1>7. at \in [Actors -> Places] /\ mem \in [Actors -> Locals]
  BY DEF Types, ThreadsOK
<1>8. \A a \in Actors : mem[a].use \in Nat /\ mem[a].got \in Nat
  BY <1>1, <1>7 DEF Locals
<1>. QED
  BY <1>3, <1>4, <1>5, <1>6, <1>7, <1>8

\* Where one thread is in the lock, the others are not.
LEMMA OthersOutside ==
    ASSUME ~Keyed, Types, Safe, NEW a \in Actors, at[a] \in Holding, NEW b \in Actors, b # a
    PROVE  at[b] \notin {"minted", "persisted", "retry"}
BY OneInside DEF Safe, Holding, Exchanging

-----------------------------------------------------------------------------
(* Steps that renew and write nothing. *)

SameObject == \A o \in Creds : /\ cred'[o].refresh = cred[o].refresh
                               /\ cred'[o].access = cred[o].access
                               /\ cred'[o].unpersisted = cred[o].unpersisted
Motionless == UNCHANGED <<row, seed, live, issued, other>> /\ SameObject

\* A thread that goes where it shows nothing newer than there was, and holds no new token.
Modest(m) == /\ m.got = 0
             /\ \A n \in Nat : Below(n) => m.show \in 0..n /\ m.left \in Seq(0..n)
             /\ \A o \in Creds : m.use <= cred[o].refresh
Modestly(a) == \E p, m : /\ Goto(a, p, m) /\ Modest(m)
                         /\ p \notin {"minted", "persisted"}
                         /\ p = "retry" => \A o \in Creds : cred[o].unpersisted

LEMMA QuietOrdered ==
    ASSUME ~Keyed, Grounds, NEW a \in Actors, Motionless, Modestly(a), at[a] # "persisted"
    PROVE  Ordered'
<1>0. PICK p, m : /\ Goto(a, p, m) /\ Modest(m) /\ p \notin {"minted", "persisted"}
                  /\ p = "retry" => \A o \in Creds : cred[o].unpersisted
  BY DEF Modestly
<1>1. /\ at'[a] = p /\ mem'[a] = m
      /\ \A b \in Actors \ {a} : at'[b] = at[b] /\ mem'[b] = mem[b]
  BY <1>0, Numbers DEF Goto, Grounds
<1>2. ASSUME NEW n \in Nat, Below(n) PROVE Below(n)'
  <2>1. KnowsUpto(a, n)'
    BY <1>0, <1>1, <1>2 DEF Modest, KnowsUpto
  <2>2. \A b \in Actors : KnowsUpto(b, n)'
    BY <1>1, <1>2, <2>1 DEF Below, KnowsUpto
  <2>. QED
    BY <1>2, <2>2 DEF Below, Motionless, SameObject
<1>3. issued \in Nat /\ other \in Nat /\ issued' = issued
  BY Numbers DEF Grounds, Motionless
<1>4. Newest'
  BY <1>2, <1>3 DEF Grounds, Ordered, Newest, Motionless
<1>5. Elsewhere'
  <2>1. CASE other = 0
    BY <2>1 DEF Elsewhere, Motionless
  <2>2. CASE other # 0
    <3>1. issued - 1 \in Nat /\ Below(issued - 1) /\ other = issued
          /\ \A o \in Creds : ~cred[o].unpersisted
      BY <1>3, <2>2 DEF Grounds, Ordered, Elsewhere
    <3>. QED
      BY <1>2, <1>3, <3>1 DEF Elsewhere, Motionless, SameObject
  <2>. QED
    BY <2>1, <2>2
<1>6. Placed(a)'
  BY <1>0, <1>1 DEF Placed, Modest, Motionless, SameObject
<1>7. \A b \in Actors \ {a} : Placed(b)'
  BY <1>1 DEF Grounds, Ordered, Placed, Motionless, SameObject
<1>8. \A o \in Creds : Owed(o)'
  BY <1>1 DEF Grounds, Ordered, Owed, Motionless, SameObject
<1>. QED
  BY <1>4, <1>5, <1>6, <1>7, <1>8 DEF Ordered

\* No thread moves at all.
LEMMA StillOrdered ==
    ASSUME ~Keyed, Grounds, Motionless, UNCHANGED threadVars PROVE Ordered'
<1>1. \A n \in Nat : Below(n) => Below(n)'
  BY DEF Below, KnowsUpto, Motionless, SameObject, threadVars
<1>2. issued \in Nat /\ other \in Nat /\ issued' = issued
  BY Numbers DEF Grounds, Motionless
<1>3. Newest'
  BY <1>1, <1>2 DEF Grounds, Ordered, Newest, Motionless
<1>4. Elsewhere'
  <2>1. CASE other = 0
    BY <2>1 DEF Elsewhere, Motionless
  <2>2. CASE other # 0
    <3>1. issued - 1 \in Nat /\ Below(issued - 1) /\ other = issued
          /\ \A o \in Creds : ~cred[o].unpersisted
      BY <1>2, <2>2 DEF Grounds, Ordered, Elsewhere
    <3>. QED
      BY <1>1, <1>2, <3>1 DEF Elsewhere, Motionless, SameObject
  <2>. QED
    BY <2>1, <2>2
<1>5. \A b \in Actors : Placed(b)'
  BY DEF Grounds, Ordered, Placed, Motionless, SameObject, threadVars
<1>6. \A o \in Creds : Owed(o)'
  BY DEF Grounds, Ordered, Owed, Motionless, SameObject, threadVars
<1>. QED
  BY <1>3, <1>4, <1>5, <1>6 DEF Ordered

-----------------------------------------------------------------------------
(* Each step that renews and writes nothing is a modest one. *)

\* The thread's own locals, but for what bears on no token.
LEMMA KeepsModest ==
    ASSUME Types, Ordered, NEW a \in Actors, mem[a].got = 0, NEW m,
           m.got = mem[a].got, m.show = mem[a].show, m.left = mem[a].left,
           m.use = mem[a].use
    PROVE  Modest(m)
BY DEF Ordered, Placed, Modest, Below, KnowsUpto

LEMMA BlankModest ==
    ASSUME ~Keyed, Types, NEW m, m.got = 0, m.show = 0, m.left = <<>>, m.use = 0
    PROVE  Modest(m)
<1>1. \A n \in Nat : 0 \in 0..n /\ <<>> \in Seq(0..n)
  OBVIOUS
<1>2. \A o \in Creds : 0 <= cred[o].refresh
  BY Numbers
<1>. QED
  BY <1>1, <1>2 DEF Modest

LEMMA LeaveModestly ==
    ASSUME ~Keyed, Types, NEW a \in Actors, NEW p \in Ended, Leave(a, p) PROVE Modestly(a)
<1>1. Modest(Blank)
  BY BlankModest DEF Blank
<1>2. p \notin {"minted", "persisted", "retry"}
  BY DEF Ended
<1>3. Goto(a, "idle", Blank) \/ Goto(a, p, Blank)
  BY DEF Leave
<1>. QED
  BY <1>1, <1>2, <1>3 DEF Modestly

LEMMA ReturnModestly ==
    ASSUME ~Keyed, Types, NEW a \in Actors, NEW t \in Nat,
           \A o \in Creds : t <= cred[o].refresh, Return(a, t)
    PROVE  Modestly(a)
<1>1. CASE a \in Keepers
  BY <1>1, LeaveModestly DEF Return, Ended
<1>2. CASE a \notin Keepers
  <2>. DEFINE m == [Blank EXCEPT !.obj = Held(a), !.use = t, !.again = mem[a].again]
  <2>1. m.got = 0 /\ m.show = 0 /\ m.left = <<>> /\ m.use = t
    BY DEF Blank
  <2>2. \A n \in Nat : 0 \in 0..n /\ <<>> \in Seq(0..n)
    OBVIOUS
  <2>3. Goto(a, "use", m)
    BY <1>2 DEF Return
  <2>. HIDE DEF m
  <2>4. Modest(m)
    BY <2>1, <2>2 DEF Modest
  <2>. QED
    BY <2>3, <2>4 DEF Modestly
<1>. QED
  BY <1>1, <1>2

\* A thread past its look-up holds the object.
LEMMA MineNow ==
    ASSUME ~Keyed, Types, Ordered, NEW a \in Actors, at[a] \in Aware
    PROVE  /\ Held(a) \in Creds /\ Mine(a).refresh \in Nat /\ Mine(a).access \in Nat
           /\ \A o \in Creds : o = Held(a) /\ Mine(a) = cred[o]
           /\ Mine(a).access <= Mine(a).refresh
<1>1. Held(a) \in Creds
  BY DEF Types, ThreadsOK, Held
<1>. QED
  BY <1>1, OneObject, Numbers DEF Mine, Held, Ordered, Owed

LEMMA AskModestly ==
    ASSUME ~Keyed, Types, Safe, Ordered, NEW a \in Actors,
           \/ Begin(a) \/ Wake(a) \/ Queue(a) \/ Unauthorized(a) \/ RetrySkip(a)
           \/ Look(a) \/ Served(a) \/ Due(a)
    PROVE  Modestly(a)
<1>0. mem[a] \in Locals /\ (at[a] \notin {"minted", "persisted"} => mem[a].got = 0)
  BY DEF Types, ThreadsOK, Safe, ActorOK
<1>1. CASE Begin(a) \/ Wake(a)
  <2>0. mem[a].got = 0 /\ FirstLook(a)
    BY <1>0, <1>1 DEF Begin, Wake
  <2>1. CASE cached # None /\ Resolved(a, cached)
    <3>. DEFINE p == IF a \in Keepers THEN "tick" ELSE "look"
                m == [mem[a] EXCEPT !.obj = cached, !.rec = None]
    <3>1. /\ m.got = mem[a].got /\ m.show = mem[a].show /\ m.left = mem[a].left
          /\ m.use = mem[a].use
      BY <1>0 DEF Locals
    <3>2. p \notin {"minted", "persisted", "retry"} /\ Goto(a, p, m)
      BY <2>1 DEF Resolved
    <3>. HIDE DEF m, p
    <3>. QED
      BY <2>0, <3>1, <3>2, KeepsModest DEF Modestly
  <2>2. CASE Goto(a, "read", mem[a])
    BY <2>0, <2>2, KeepsModest DEF Modestly
  <2>. QED
    BY <2>0, <2>1, <2>2 DEF FirstLook
<1>2. CASE Look(a)
  <2>. DEFINE m == [mem[a] EXCEPT !.seen = Mine(a).access]
  <2>1. at[a] \in Aware /\ mem[a].got = 0
    BY <1>0, <1>2 DEF Look, Aware
  <2>2. CASE Return(a, Mine(a).access)
    BY <2>1, <2>2, MineNow, ReturnModestly
  <2>3. CASE Goto(a, "queue", m)
    <3>1. /\ m.got = mem[a].got /\ m.show = mem[a].show /\ m.left = mem[a].left
          /\ m.use = mem[a].use
      BY <1>0 DEF Locals
    <3>. HIDE DEF m
    <3>. QED
      BY <2>1, <2>3, <3>1, KeepsModest DEF Modestly
  <2>. QED
    BY <1>2, <2>2, <2>3 DEF Look
<1>3. CASE Queue(a)
  <2>. DEFINE m == [mem[a] EXCEPT !.intended = Mine(a).refresh]
  <2>1. /\ m.got = mem[a].got /\ m.show = mem[a].show /\ m.left = mem[a].left
        /\ m.use = mem[a].use /\ mem[a].got = 0
    BY <1>0, <1>3 DEF Locals, Queue
  <2>2. Goto(a, "wait", m)
    BY <1>3 DEF Queue
  <2>. HIDE DEF m
  <2>. QED
    BY <2>1, <2>2, KeepsModest DEF Modestly
<1>4. CASE Unauthorized(a)
  <2>. DEFINE m == [mem[a] EXCEPT !.seen = mem[a].use, !.use = 0, !.again = TRUE]
  <2>1. m.got = 0 /\ m.show = mem[a].show /\ m.left = mem[a].left /\ m.use = 0
    BY <1>0, <1>4 DEF Locals, Unauthorized
  <2>2. Goto(a, "queue", m)
    BY <1>4 DEF Unauthorized
  <2>3. \A o \in Creds : 0 <= cred[o].refresh
    BY Numbers
  <2>. HIDE DEF m
  <2>4. Modest(m)
    BY <2>1, <2>3 DEF Modest, Below, KnowsUpto
  <2>. QED
    BY <2>2, <2>4 DEF Modestly
<1>5. CASE RetrySkip(a)
  BY <1>0, <1>5, KeepsModest DEF RetrySkip, Modestly
<1>6. CASE Served(a)
  <2>1. Modest(Blank) /\ Goto(a, "done", Blank)
    BY <1>6, BlankModest DEF Served, Blank
  <2>. QED
    BY <2>1 DEF Modestly
<1>7. CASE Due(a)
  <2>1. CASE Leave(a, "done")
    BY <2>1, LeaveModestly DEF Ended
  <2>2. CASE Goto(a, "queue", mem[a])
    BY <1>0, <1>7, <2>2, KeepsModest DEF Due, Modestly
  <2>. QED
    BY <1>7, <2>1, <2>2 DEF Due
<1>. QED
  BY <1>1, <1>2, <1>3, <1>4, <1>5, <1>6, <1>7

\* What is shown is the object's token, the row's or the seed.
LEMMA ShowsModest ==
    ASSUME ~Keyed, Types, Ordered, NEW a \in Actors, NEW m, NEW s, m.got = 0,
           m.use \in {0, mem[a].use}, m.show = Head(s), m.left = Tail(s), s # <<>>,
           \A n \in Nat : Below(n) => s \in Seq(0..n)
    PROVE  Modest(m)
<1>1. \A n \in Nat : Below(n) => m.show \in 0..n /\ m.left \in Seq(0..n)
  OBVIOUS
<1>2. \A o \in Creds : m.use <= cred[o].refresh
  BY Numbers DEF Ordered, Placed
<1>. QED
  BY <1>1, <1>2 DEF Modest

LEMMA TakeLockModestly ==
    ASSUME ~Keyed, Types, Ordered, NEW a \in Actors, TakeLock(a) PROVE Modestly(a)
<1>. DEFINE m == [Blank EXCEPT !.obj = Held(a), !.show = Mine(a).refresh, !.again = mem[a].again]
<1>0. at[a] \in Aware
  BY DEF TakeLock, Aware
<1>1. CASE Return(a, Mine(a).access)
  BY <1>0, <1>1, MineNow, ReturnModestly
<1>2. CASE Goto(a, "post", m)
  <2>1. m.got = 0 /\ m.show = Mine(a).refresh /\ m.left = <<>> /\ m.use = 0
    BY DEF Blank
  <2>2. \A n \in Nat : Below(n) => Mine(a).refresh \in 0..n
    BY <1>0, MineNow DEF Below, Mine, Held
  <2>3. \A o \in Creds : 0 <= cred[o].refresh
    BY Numbers
  <2>. HIDE DEF m
  <2>4. Modest(m)
    BY <2>1, <2>2, <2>3 DEF Modest
  <2>. QED
    BY <1>2, <2>4 DEF Modestly
<1>. QED
  BY <1>1, <1>2 DEF TakeLock

LEMMA RetryTakeModestly ==
    ASSUME ~Keyed, Types, Safe, Ordered, NEW k \in Actors, RetryTake(k) PROVE Modestly(k)
<1>. DEFINE m == [mem[k] EXCEPT !.show = Mine(k).refresh]
<1>0. at[k] \in Aware /\ at[k] = "tick" /\ mem[k] \in Locals /\ mem[k].got = 0
  BY DEF RetryTake, Aware, Types, ThreadsOK, Safe, ActorOK
<1>1. m.got = 0 /\ m.show = Mine(k).refresh /\ m.left = mem[k].left /\ m.use = mem[k].use
  BY <1>0 DEF Locals
<1>2. \A n \in Nat : Below(n) => Mine(k).refresh \in 0..n
  BY <1>0, MineNow DEF Below, Mine, Held
<1>3. \A o \in Creds : cred[o].unpersisted
  BY <1>0, MineNow DEF RetryTake, CanRetry
<1>4. Goto(k, "retry", m)
  BY DEF RetryTake
<1>. HIDE DEF m
<1>5. Modest(m)
  BY <1>1, <1>2 DEF Modest, Below, KnowsUpto, Ordered, Placed
<1>. QED
  BY <1>3, <1>4, <1>5 DEF Modestly

LEMMA RefusedModestly ==
    ASSUME ~Keyed, Types, Safe, Ordered, NEW a \in Actors, Refused(a) PROVE Modestly(a)
<1>0. at[a] = "post" /\ mem[a] \in Locals /\ mem[a].got = 0
  BY DEF Refused, Types, ThreadsOK, Safe, ActorOK
<1>1. CASE Goto(a, "alternatives", [mem[a] EXCEPT !.alternative = TRUE])
  <2>. DEFINE m == [mem[a] EXCEPT !.alternative = TRUE]
  <2>1. /\ m.got = mem[a].got /\ m.show = mem[a].show /\ m.left = mem[a].left
        /\ m.use = mem[a].use /\ Goto(a, "alternatives", m)
    BY <1>0, <1>1 DEF Locals
  <2>. HIDE DEF m
  <2>. QED
    BY <1>0, <2>1, KeepsModest DEF Modestly
<1>2. CASE /\ mem[a].left # <<>>
           /\ Goto(a, "post", [mem[a] EXCEPT !.show = Head(mem[a].left), !.left = Tail(@)])
  <2>. DEFINE m == [mem[a] EXCEPT !.show = Head(mem[a].left), !.left = Tail(mem[a].left)]
  <2>1. /\ m.got = 0 /\ m.show = Head(mem[a].left) /\ m.left = Tail(mem[a].left)
        /\ m.use = mem[a].use /\ Goto(a, "post", m) /\ mem[a].left # <<>>
    BY <1>0, <1>2 DEF Locals
  <2>2. \A n \in Nat : Below(n) => mem[a].left \in Seq(0..n)
    BY DEF Below, KnowsUpto
  <2>. HIDE DEF m
  <2>3. Modest(m)
    BY <2>1, <2>2, ShowsModest
  <2>. QED
    BY <2>1, <2>3 DEF Modestly
<1>3. CASE Leave(a, "failed")
  BY <1>3, LeaveModestly DEF Ended
<1>. QED
  BY <1>1, <1>2, <1>3 DEF Refused

LEMMA UnlessIn == ASSUME NEW T, NEW t \in T, NEW spent PROVE Unless(t, spent) \in Seq(T)
BY DEF Unless

LEMMA CandidatesBelow ==
    ASSUME ~Keyed, Types, NEW a \in Actors, NEW stored \in {row.token, 0},
           NEW n \in Nat, Below(n)
    PROVE  Candidates(a, stored) \in Seq(0..n)
<1>1. ASSUME NEW t \in 0..n, NEW spent PROVE Unless(t, spent) \in Seq(0..n)
  BY UnlessIn
<1>2. stored \in 0..n /\ seed \in 0..n
  BY DEF Below
<1>. QED
  <2>1. /\ Unless(stored, {0, Mine(a).refresh}) \in Seq(0..n)
        /\ Unless(seed, {0, Mine(a).refresh, stored}) \in Seq(0..n)
    BY <1>1, <1>2
  <2>. QED
    BY <2>1 DEF Candidates

LEMMA AlternativesModestly ==
    ASSUME ~Keyed, Types, Safe, Ordered, NEW a \in Actors, Alternatives(a) PROVE Modestly(a)
<1>0. at[a] = "alternatives" /\ mem[a] \in Locals /\ mem[a].got = 0
  BY DEF Alternatives, Types, ThreadsOK, Safe, ActorOK
<1>1. PICK stored \in {row.token, 0} :
        IF Candidates(a, stored) = <<>>
        THEN Leave(a, "failed") /\ Release(a)
        ELSE Goto(a, "post", [mem[a] EXCEPT !.show = Head(Candidates(a, stored)),
                                            !.left = Tail(Candidates(a, stored))])
  BY Zenon DEF Alternatives
<1>2. CASE Candidates(a, stored) = <<>>
  BY <1>1, <1>2, LeaveModestly DEF Ended
<1>3. CASE Candidates(a, stored) # <<>>
  <2>. DEFINE s == Candidates(a, stored)
              m == [mem[a] EXCEPT !.show = Head(s), !.left = Tail(s)]
  <2>1. Goto(a, "post", m) /\ s # <<>>
    BY <1>1, <1>3
  <2>2. \A n \in Nat : Below(n) => s \in Seq(0..n)
    BY CandidatesBelow
  <2>. HIDE DEF s
  <2>3. m.got = 0 /\ m.show = Head(s) /\ m.left = Tail(s) /\ m.use = mem[a].use
    BY <1>0 DEF Locals
  <2>. HIDE DEF m
  <2>. QED
    BY <2>1, <2>2, <2>3, ShowsModest DEF Modestly
<1>. QED
  BY <1>2, <1>3

\* A step of a thread that renews and writes nothing.
LEMMA QuietStep ==
    ASSUME ~Keyed, Grounds, NEW a \in Actors,
           \/ Begin(a) \/ Wake(a) \/ Queue(a) \/ Unauthorized(a) \/ RetrySkip(a)
           \/ Look(a) \/ Served(a) \/ Due(a)
           \/ TakeLock(a) \/ RetryTake(a) \/ AnswerLost(a) \/ Unreached(a)
           \/ Refused(a) \/ Alternatives(a)
    PROVE  Ordered' /\ UNCHANGED row
<1>1. CASE \/ Begin(a) \/ Wake(a) \/ Queue(a) \/ Unauthorized(a) \/ RetrySkip(a)
           \/ Look(a) \/ Served(a) \/ Due(a)
  <2>1. Motionless /\ at[a] # "persisted"
    BY <1>1 DEF Begin, Wake, Queue, Unauthorized, RetrySkip, Look, Served, Due, Motionless,
                SameObject, backendVars
  <2>2. Modestly(a)
    BY <1>1, AskModestly DEF Grounds
  <2>. QED
    BY <2>1, <2>2, QuietOrdered DEF Motionless
<1>2. CASE TakeLock(a) \/ RetryTake(a)
  <2>1. Motionless /\ at[a] # "persisted"
    BY <1>2 DEF TakeLock, RetryTake, Motionless, SameObject, backendVars
  <2>2. Modestly(a)
    BY <1>2, TakeLockModestly, RetryTakeModestly DEF Grounds
  <2>. QED
    BY <2>1, <2>2, QuietOrdered DEF Motionless
<1>3. CASE AnswerLost(a) \/ Unreached(a)
  <2>1. Motionless /\ at[a] # "persisted" /\ Leave(a, "failed")
    BY <1>3 DEF AnswerLost, Unreached, Motionless, SameObject, backendVars
  <2>2. Modestly(a)
    BY <2>1, LeaveModestly DEF Grounds, Ended
  <2>. QED
    BY <2>1, <2>2, QuietOrdered DEF Motionless
<1>4. CASE Refused(a)
  <2>1. Motionless /\ at[a] # "persisted"
    BY <1>4 DEF Refused, Motionless, SameObject, backendVars
  <2>2. Modestly(a)
    BY <1>4, RefusedModestly DEF Grounds
  <2>. QED
    BY <2>1, <2>2, QuietOrdered DEF Motionless
<1>5. CASE Alternatives(a)
  <2>1. UNCHANGED cred
    BY <1>5 DEF Alternatives
  <2>2. Motionless /\ at[a] # "persisted"
    BY <1>5, <2>1 DEF Alternatives, Motionless, SameObject, backendVars
  <2>3. Modestly(a)
    BY <1>5, AlternativesModestly DEF Grounds
  <2>. QED
    BY <2>2, <2>3, QuietOrdered DEF Motionless
<1>. QED
  BY <1>1, <1>2, <1>3, <1>4, <1>5

-----------------------------------------------------------------------------
(* The steps that renew, write or use. *)

\* What the others keep while one thread inside the lock moves.
LEMMA OthersPlaced ==
    ASSUME ~Keyed, Grounds, NEW a \in Actors, at[a] \in Holding, NEW p, NEW m, Goto(a, p, m),
           \A o \in Creds : cred'[o].refresh \in Nat /\ cred[o].refresh <= cred'[o].refresh
    PROVE  \A b \in Actors \ {a} : Placed(b)'
<1>. SUFFICES ASSUME NEW b \in Actors, b # a PROVE Placed(b)'
  OBVIOUS
<1>1. at'[b] = at[b] /\ mem'[b] = mem[b]
  BY Numbers DEF Goto, Grounds
<1>2. at[b] \notin {"minted", "persisted", "retry"}
  BY OthersOutside DEF Grounds
<1>3. \A o \in Creds : mem[b].use <= cred'[o].refresh
  <2>1. \A o \in Creds : mem[b].use <= cred[o].refresh
    BY DEF Grounds, Ordered, Placed
  <2>2. mem[b].use \in Nat /\ \A o \in Creds : cred[o].refresh \in Nat
    BY Numbers DEF Grounds
  <2>. QED
    BY <2>1, <2>2
<1>. QED
  BY <1>1, <1>2, <1>3 DEF Placed

\* The token a thread has just been given is nobody else's.
LEMMA MintedAlone ==
    ASSUME ~Keyed, Grounds, NEW a \in Actors, at[a] = "minted"
    PROVE  /\ other = 0 /\ mem[a].got = issued /\ row.token < issued
           /\ \A o \in Creds : cred[o].refresh < issued
<1>1. /\ mem[a].got = issued /\ row.token < issued
      /\ \A o \in Creds : cred[o].refresh < issued
  BY DEF Grounds, Ordered, Placed
<1>2. other = 0
  <2>1. SUFFICES ASSUME other # 0 PROVE FALSE
    OBVIOUS
  <2>2. mem[a].got \in 0..(issued - 1) /\ issued \in Nat
    BY <2>1, Numbers DEF Grounds, Ordered, Elsewhere, Below, KnowsUpto
  <2>. QED
    BY <1>1, <2>2
<1>. QED
  BY <1>1, <1>2

LEMMA RotateOrdered == ASSUME ~Keyed, Grounds, NEW a \in Actors, Rotate(a) PROVE Ordered'
<1>. DEFINE m == [mem[a] EXCEPT !.got = issued + 1, !.show = 0, !.left = <<>>,
                                !.alternative = FALSE]
<1>0. /\ at[a] = "post" /\ at[a] \in Holding /\ Goto(a, "minted", m) /\ Spend(mem[a].show)
      /\ UNCHANGED <<row, cred, seed, other>> /\ mem[a] \in Locals
  BY DEF Rotate, Holding, Exchanging, Grounds, Types, ThreadsOK
<1>1. m.got = issued + 1 /\ m.show = 0 /\ m.left = <<>> /\ m.use = mem[a].use
  BY <1>0 DEF Locals
<1>. HIDE DEF m
<1>2. issued \in Nat /\ live = {issued} /\ Below(issued) /\ mem[a].show = issued
  BY <1>0, Numbers DEF Grounds, Ordered, Newest, Spend
<1>3. issued' = issued + 1 /\ live' = {issued'}
  BY <1>0, <1>2 DEF Spend
<1>4. /\ at'[a] = "minted" /\ mem'[a] = m
      /\ \A b \in Actors \ {a} : at'[b] = at[b] /\ mem'[b] = mem[b]
  BY <1>0, Numbers DEF Goto, Grounds
<1>5. PICK n \in Nat : n = issued + 1
  BY <1>2
<1>6. Newest'
  <2>1. row.token \in 0..n /\ seed \in 0..n /\ \A o \in Creds : cred[o].refresh \in 0..n
    BY <1>2, <1>5 DEF Below
  <2>2. ASSUME NEW b \in Actors PROVE KnowsUpto(b, n)'
    <3>1. CASE b = a
      <4>1. 0 \in 0..n /\ n \in 0..n /\ <<>> \in Seq(0..n)
        OBVIOUS
      <4>. QED
        BY <1>1, <1>4, <1>5, <3>1, <4>1 DEF KnowsUpto
    <3>2. CASE b # a
      <4>1. mem[b].got \in 0..issued /\ mem[b].show \in 0..issued /\ mem[b].left \in Seq(0..issued)
        BY <1>2 DEF Below, KnowsUpto
      <4>2. mem[b].got \in 0..n /\ mem[b].show \in 0..n /\ mem[b].left \in Seq(0..n)
        BY <1>2, <1>5, <4>1, SeqWidens
      <4>. QED
        BY <1>4, <3>2, <4>2 DEF KnowsUpto
    <3>. QED
      BY <3>1, <3>2
  <2>3. Below(n)'
    BY <1>0, <2>1, <2>2 DEF Below
  <2>. QED
    BY <1>3, <1>5, <2>3 DEF Newest
<1>7. Elsewhere'
  <2>1. other = 0
    <3>1. SUFFICES ASSUME other # 0 PROVE FALSE
      OBVIOUS
    <3>2. mem[a].show \in 0..(issued - 1)
      BY <3>1 DEF Grounds, Ordered, Elsewhere, Below, KnowsUpto
    <3>. QED
      BY <1>2, <3>2
  <2>. QED
    BY <1>0, <2>1 DEF Elsewhere
<1>8. Placed(a)'
  <2>1. row.token < issued + 1 /\ \A o \in Creds : cred[o].refresh < issued + 1
    BY <1>2 DEF Below
  <2>2. \A o \in Creds : mem[a].use <= cred[o].refresh
    BY DEF Grounds, Ordered, Placed
  <2>. QED
    BY <1>0, <1>1, <1>3, <1>4, <2>1, <2>2 DEF Placed
<1>9. \A b \in Actors \ {a} : Placed(b)'
  BY <1>0, Numbers, OthersPlaced DEF Grounds
<1>10. \A o \in Creds : Owed(o)'
  BY <1>0, <1>4 DEF Grounds, Ordered, Owed
<1>. QED
  BY <1>6, <1>7, <1>8, <1>9, <1>10 DEF Ordered

\* A write of the row or the object that leaves every token where it was issued.
LEMMA SameIssue ==
    ASSUME ~Keyed, Grounds, UNCHANGED <<live, issued>>, Below(issued) => Below(issued)'
    PROVE  Newest'
BY DEF Grounds, Ordered, Newest, Below, KnowsUpto

LEMMA PersistOrdered ==
    ASSUME ~Keyed, Grounds, NEW a \in Actors, Persist(a)
    PROVE  Ordered' /\ row'.token > row.token
<1>0. /\ at[a] = "minted" /\ at[a] \in Holding /\ Goto(a, "persisted", mem[a])
      /\ UNCHANGED <<seed, other, live, issued>> /\ Held(a) \in Creds
      /\ cred' = [cred EXCEPT ![Held(a)].unpersisted = FALSE]
      /\ row' = [row EXCEPT !.token = mem[a].got]
  BY DEF Persist, Stored, Holding, Exchanging, backendVars, Grounds, Types, ThreadsOK, Held, Aware
<1>1. /\ other = 0 /\ mem[a].got = issued /\ row.token < issued
      /\ \A o \in Creds : cred[o].refresh < issued
  BY <1>0, MintedAlone
<1>2. issued \in Nat /\ row'.token = issued /\ row.token \in Nat
  BY <1>0, <1>1, Numbers DEF Grounds
<1>3. \A o \in Creds : /\ cred'[o].refresh = cred[o].refresh /\ cred'[o].refresh \in Nat
                       /\ cred'[o].access = cred[o].access /\ ~cred'[o].unpersisted
  <2>1. cred \in [Creds -> Fields] /\ \A o \in Creds : cred[o].refresh \in Nat
    BY Numbers DEF Grounds
  <2>2. \A o \in Creds : o = Held(a)
    BY <1>0, OneObject
  <2>. QED
    BY <1>0, <2>1, <2>2 DEF Fields
<1>4. at'[a] = "persisted" /\ mem' = mem
  BY <1>0, Numbers DEF Goto, Grounds
<1>5. Newest'
  BY <1>0, <1>2, <1>3, <1>4 DEF Grounds, Ordered, Newest, Below, KnowsUpto
<1>6. Elsewhere'
  BY <1>0, <1>1 DEF Elsewhere
<1>7. Placed(a)'
  <2>1. \A o \in Creds : cred[o].refresh <= issued
    BY <1>1, Numbers DEF Grounds
  <2>2. \A o \in Creds : mem[a].use <= cred[o].refresh
    BY DEF Grounds, Ordered, Placed
  <2>. QED
    BY <1>1, <1>2, <1>3, <1>4, <2>1, <2>2 DEF Placed
<1>8. \A b \in Actors \ {a} : Placed(b)'
  <2>1. \A o \in Creds : cred[o].refresh <= cred'[o].refresh
    BY <1>3
  <2>. QED
    BY <1>0, <1>3, <2>1, OthersPlaced
<1>9. \A o \in Creds : Owed(o)'
  <2>1. \A o \in Creds : cred[o].access <= cred[o].refresh
    BY DEF Grounds, Ordered, Owed
  <2>2. \A o \in Creds : cred[o].refresh <= issued
    BY <1>1, Numbers DEF Grounds
  <2>. QED
    BY <1>2, <1>3, <2>1, <2>2 DEF Owed
<1>10. row'.token > row.token
  BY <1>1, <1>2
<1>. QED
  BY <1>5, <1>6, <1>7, <1>8, <1>9, <1>10 DEF Ordered

LEMMA PersistFailsOrdered ==
    ASSUME ~Keyed, Grounds, NEW a \in Actors, PersistFails(a) PROVE Ordered'
<1>0. /\ at[a] = "minted" /\ at[a] \in Holding /\ Goto(a, "persisted", mem[a])
      /\ UNCHANGED <<row, seed, other, live, issued>> /\ Held(a) \in Creds
      /\ cred' = [cred EXCEPT ![Held(a)].unpersisted = TRUE]
  BY DEF PersistFails, Holding, Exchanging, backendVars, Grounds, Types, ThreadsOK, Held, Aware
<1>1. /\ other = 0 /\ mem[a].got = issued /\ row.token < issued
      /\ \A o \in Creds : cred[o].refresh < issued
  BY <1>0, MintedAlone
<1>2. \A o \in Creds : /\ cred'[o].refresh = cred[o].refresh /\ cred'[o].refresh \in Nat
                       /\ cred'[o].access = cred[o].access /\ cred'[o].unpersisted = TRUE
  <2>1. cred \in [Creds -> Fields] /\ \A o \in Creds : cred[o].refresh \in Nat
    BY Numbers DEF Grounds
  <2>2. \A o \in Creds : o = Held(a)
    BY <1>0, OneObject
  <2>. QED
    BY <1>0, <2>1, <2>2 DEF Fields
<1>3. at'[a] = "persisted" /\ mem' = mem
  BY <1>0, Numbers DEF Goto, Grounds
<1>4. Newest'
  BY <1>0, <1>2, <1>3 DEF Grounds, Ordered, Newest, Below, KnowsUpto
<1>5. Elsewhere'
  BY <1>0, <1>1 DEF Elsewhere
<1>6. \A o \in Creds : cred[o].refresh <= issued
  BY <1>1, Numbers DEF Grounds
<1>7. Placed(a)'
  <2>1. \A o \in Creds : mem[a].use <= cred[o].refresh
    BY DEF Grounds, Ordered, Placed
  <2>. QED
    BY <1>0, <1>1, <1>2, <1>3, <1>6, <2>1 DEF Placed
<1>8. \A b \in Actors \ {a} : Placed(b)'
  <2>1. \A o \in Creds : cred[o].refresh <= cred'[o].refresh
    BY <1>2
  <2>. QED
    BY <1>0, <1>2, <2>1, OthersPlaced
<1>9. \A o \in Creds : Owed(o)'
  BY <1>2, <1>3 DEF Grounds, Ordered, Owed
<1>. QED
  BY <1>4, <1>5, <1>7, <1>8, <1>9 DEF Ordered

LEMMA PublishOrdered == ASSUME ~Keyed, Grounds, NEW a \in Actors, Publish(a) PROVE Ordered'
<1>0. /\ at[a] = "persisted" /\ at[a] \in Holding /\ Return(a, mem[a].got)
      /\ UNCHANGED <<row, seed, other, live, issued>> /\ Held(a) \in Creds
      /\ cred' = [cred EXCEPT ![Held(a)].refresh = mem[a].got, ![Held(a)].access = mem[a].got,
                              ![Held(a)].fresh = TRUE]
  BY DEF Publish, Holding, Exchanging, backendVars, Grounds, Types, ThreadsOK, Held, Aware
<1>1. mem[a].got \in Nat /\ issued \in Nat /\ row.token \in Nat /\ other \in Nat
      /\ \A o \in Creds : cred[o].refresh \in Nat
  BY Numbers DEF Grounds
<1>2. \A o \in Creds : /\ cred'[o].refresh = mem[a].got /\ cred'[o].access = mem[a].got
                       /\ cred'[o].unpersisted = cred[o].unpersisted
  <2>1. cred \in [Creds -> Fields]
    BY Numbers DEF Grounds
  <2>2. \A o \in Creds : o = Held(a)
    BY <1>0, OneObject
  <2>. QED
    BY <1>0, <2>1, <2>2 DEF Fields
<1>3. PICK p, m : /\ Goto(a, p, m) /\ p \in {"idle", "use"} /\ m.got = 0 /\ m.show = 0
                  /\ m.left = <<>> /\ m.use \in {0, mem[a].got}
  <2>1. CASE a \in Keepers
    BY <1>0, <2>1 DEF Return, Leave, Blank
  <2>2. CASE a \notin Keepers
    <3>. DEFINE m == [Blank EXCEPT !.obj = Held(a), !.use = mem[a].got, !.again = mem[a].again]
    <3>1. Goto(a, "use", m) /\ m.got = 0 /\ m.show = 0 /\ m.left = <<>> /\ m.use = mem[a].got
      BY <1>0, <2>2 DEF Return, Blank
    <3>. HIDE DEF m
    <3>. QED
      BY <3>1
  <2>. QED
    BY <2>1, <2>2
<1>4. /\ at'[a] = p /\ mem'[a] = m
      /\ \A b \in Actors \ {a} : at'[b] = at[b] /\ mem'[b] = mem[b]
  BY <1>3, Numbers DEF Goto, Grounds
<1>5. ASSUME NEW n \in Nat, Below(n) PROVE Below(n)'
  <2>1. 0 \in 0..n /\ <<>> \in Seq(0..n) /\ mem[a].got \in 0..n
    BY <1>5 DEF Below, KnowsUpto
  <2>2. \A b \in Actors : KnowsUpto(b, n)'
    BY <1>3, <1>4, <1>5, <2>1 DEF Below, KnowsUpto
  <2>. QED
    BY <1>0, <1>2, <1>5, <2>1, <2>2 DEF Below
<1>6. Newest'
  BY <1>0, <1>1, <1>5 DEF Grounds, Ordered, Newest
<1>7. Elsewhere'
  <2>1. CASE other = 0
    BY <1>0, <2>1 DEF Elsewhere
  <2>2. CASE other # 0
    <3>1. issued - 1 \in Nat /\ Below(issued - 1) /\ other = issued
          /\ \A o \in Creds : ~cred[o].unpersisted
      BY <1>1, <2>2 DEF Grounds, Ordered, Elsewhere
    <3>. QED
      BY <1>0, <1>2, <1>5, <3>1 DEF Elsewhere
  <2>. QED
    BY <2>1, <2>2
<1>8. /\ Placed(a)
      /\ \A o \in Creds : cred[o].refresh <= mem[a].got
      /\ \A o \in Creds : IF cred[o].unpersisted THEN row.token < mem[a].got
                                                 ELSE mem[a].got <= row.token
  BY <1>0 DEF Grounds, Ordered, Placed
<1>9. Placed(a)'
  <2>1. \A o \in Creds : m.use <= cred'[o].refresh
    BY <1>1, <1>2, <1>3
  <2>. QED
    BY <1>3, <1>4, <2>1 DEF Placed
<1>10. \A b \in Actors \ {a} : Placed(b)'
  BY <1>0, <1>1, <1>2, <1>3, <1>8, OthersPlaced
<1>11. ASSUME NEW o \in Creds PROVE Owed(o)'
  <2>1. mem[a].got <= mem[a].got
    BY <1>1
  <2>2. CASE cred[o].unpersisted
    <3>1. row.token < mem[a].got
      BY <1>8, <2>2
    <3>. QED
      BY <1>0, <1>2, <2>1, <2>2, <3>1 DEF Owed
  <2>3. CASE ~cred[o].unpersisted
    <3>1. mem[a].got <= row.token
      BY <1>8, <2>3
    <3>. QED
      BY <1>0, <1>2, <2>1, <2>3, <3>1 DEF Owed
  <2>. QED
    BY <2>2, <2>3
<1>. QED
  BY <1>6, <1>7, <1>9, <1>10, <1>11 DEF Ordered

\* The late write of the keepalive: what it writes is still the newest the process has.
LEMMA RewriteOrdered ==
    ASSUME ~Keyed, Grounds, NEW k \in Actors, Rewrite(k)
    PROVE  Ordered' /\ (UNCHANGED row \/ row'.token > row.token)
<1>. DEFINE m == [mem[k] EXCEPT !.show = 0]
<1>0. /\ at[k] = "retry" /\ at[k] \in Holding /\ Goto(k, "due", m) /\ mem[k] \in Locals
      /\ UNCHANGED <<seed, other, live, issued>> /\ Held(k) \in Creds /\ mem[k].got = 0
  BY DEF Rewrite, Holding, Exchanging, backendVars, Grounds, Types, ThreadsOK, Held, Aware,
         Safe, ActorOK
<1>1. m.got = 0 /\ m.show = 0 /\ m.left = mem[k].left /\ m.use = mem[k].use
  BY <1>0 DEF Locals
<1>. HIDE DEF m
<1>2. Modest(m)
  <2>1. \A n \in Nat : 0 \in 0..n
    OBVIOUS
  <2>. QED
    BY <1>1, <2>1 DEF Modest, Below, KnowsUpto, Grounds, Ordered, Placed
<1>3. CASE UNCHANGED <<row, cred>>
  <2>1. Motionless /\ Modestly(k)
    BY <1>0, <1>2, <1>3 DEF Motionless, SameObject, Modestly
  <2>. QED
    BY <1>0, <1>3, <2>1, QuietOrdered
<1>4. CASE /\ row' = [row EXCEPT !.token = mem[k].show]
           /\ cred' = [cred EXCEPT ![Held(k)].unpersisted = FALSE]
  <2>1. \A o \in Creds : o = Held(k) /\ cred[o].unpersisted /\ mem[k].show = cred[o].refresh
    BY <1>0, OneObject DEF Grounds, Ordered, Placed, Safe, ActorOK, Held
  <2>2. \A b \in Actors : at[b] # "persisted"
    BY <1>0, OthersOutside DEF Grounds
  <2>3. other = 0
    BY <1>0, <2>1 DEF Grounds, Ordered, Elsewhere
  <2>4. /\ issued \in Nat /\ row.token \in Nat /\ Below(issued)
        /\ \A o \in Creds : cred[o].refresh \in Nat /\ row.token < cred[o].refresh
    BY <2>1, <2>2, Numbers DEF Grounds, Ordered, Owed, Newest
  <2>5. \A o \in Creds : row'.token = cred[o].refresh
    BY <1>4, <2>1, Numbers DEF Grounds
  <2>6. \A o \in Creds : /\ cred'[o].refresh = cred[o].refresh
                         /\ cred'[o].access = cred[o].access /\ ~cred'[o].unpersisted
    <3>1. cred \in [Creds -> Fields]
      BY Numbers DEF Grounds
    <3>. QED
      BY <1>0, <1>4, <2>1, <3>1 DEF Fields
  <2>7. /\ at'[k] = "due" /\ mem'[k] = m
        /\ \A b \in Actors \ {k} : at'[b] = at[b] /\ mem'[b] = mem[b]
    BY <1>0, Numbers DEF Goto, Grounds
  <2>8. Newest'
    <3>1. KnowsUpto(k, issued)'
      BY <1>0, <1>1, <1>2, <2>4, <2>7 DEF Modest, KnowsUpto
    <3>2. \A b \in Actors : KnowsUpto(b, issued)'
      BY <1>0, <2>4, <2>7, <3>1 DEF Below, KnowsUpto
    <3>3. row'.token \in 0..issued /\ \A o \in Creds : cred'[o].refresh \in 0..issued
      BY <1>0, <2>4, <2>5, <2>6 DEF Below
    <3>4. seed' \in 0..issued
      BY <1>0, <2>4 DEF Below
    <3>. QED
      BY <1>0, <3>2, <3>3, <3>4 DEF Grounds, Ordered, Newest, Below, KnowsUpto
  <2>9. Elsewhere'
    BY <1>0, <2>3 DEF Elsewhere
  <2>10. Placed(k)'
    BY <1>1, <2>6, <2>7 DEF Grounds, Ordered, Placed
  <2>11. \A b \in Actors \ {k} : Placed(b)'
    <3>1. \A o \in Creds : cred'[o].refresh \in Nat /\ cred[o].refresh <= cred'[o].refresh
      BY <2>4, <2>6
    <3>. QED
      BY <1>0, <3>1, OthersPlaced
  <2>12. \A o \in Creds : Owed(o)'
    BY <2>4, <2>5, <2>6 DEF Grounds, Ordered, Owed
  <2>13. row'.token > row.token
    BY <1>0, <2>4, <2>5
  <2>. QED
    BY <2>8, <2>9, <2>10, <2>11, <2>12, <2>13 DEF Ordered
<1>. QED
  BY <1>3, <1>4 DEF Rewrite, Stored

\* Another process's renewal, and its write.
LEMMA OtherRenewsOrdered == ASSUME ~Keyed, Grounds, OtherRenews PROVE Ordered'
<1>0. /\ UNCHANGED <<row, cred, at, mem, seed>> /\ other' = issued + 1 /\ Spend(row.token)
  BY DEF OtherRenews, threadVars
<1>1. issued \in Nat /\ live = {issued} /\ Below(issued) /\ row.token = issued
  BY <1>0, Numbers DEF Grounds, Ordered, Newest, Spend
<1>2. issued' = issued + 1 /\ live' = {issued'}
  BY <1>0, <1>1 DEF Spend
<1>3. \A o \in Creds : cred[o].refresh \in 0..issued
  BY <1>1 DEF Below
<1>4. \A b \in Actors : mem[b].got \in 0..issued /\ at[b] # "minted"
  BY <1>1 DEF Grounds, Ordered, Placed, Below, KnowsUpto
<1>5. ASSUME NEW o \in Creds PROVE ~cred[o].unpersisted
  <2>1. SUFFICES ASSUME cred[o].unpersisted PROVE FALSE
    OBVIOUS
  <2>2. PICK b \in Actors : at[b] = "persisted"
    BY <1>1, <1>3, <2>1 DEF Grounds, Ordered, Owed
  <2>3. row.token < mem[b].got
    BY <2>1, <2>2 DEF Grounds, Ordered, Placed
  <2>. QED
    BY <1>1, <1>4, <2>3
<1>6. PICK n \in Nat : n = issued + 1
  BY <1>1
<1>7. Newest'
  <2>1. /\ row.token \in 0..n /\ seed \in 0..n
        /\ \A o \in Creds : cred[o].refresh \in 0..n
    BY <1>1, <1>6 DEF Below
  <2>2. ASSUME NEW b \in Actors PROVE KnowsUpto(b, n)
    <3>1. mem[b].got \in 0..issued /\ mem[b].show \in 0..issued /\ mem[b].left \in Seq(0..issued)
      BY <1>1 DEF Below, KnowsUpto
    <3>. QED
      BY <1>1, <1>6, <3>1, SeqWidens DEF KnowsUpto
  <2>3. Below(n)'
    BY <1>0, <2>1, <2>2 DEF Below, KnowsUpto
  <2>. QED
    BY <1>2, <1>6, <2>3 DEF Newest
<1>8. Elsewhere'
  <2>1. issued' - 1 = issued
    BY <1>1, <1>2
  <2>. QED
    BY <1>0, <1>1, <1>2, <1>5, <2>1 DEF Elsewhere, Below, KnowsUpto
<1>9. \A b \in Actors : Placed(b)'
  BY <1>0, <1>4 DEF Grounds, Ordered, Placed
<1>10. \A o \in Creds : Owed(o)'
  BY <1>0 DEF Grounds, Ordered, Owed
<1>. QED
  BY <1>7, <1>8, <1>9, <1>10 DEF Ordered

LEMMA OtherStoresOrdered ==
    ASSUME ~Keyed, Grounds, OtherStores PROVE Ordered' /\ row'.token > row.token
<1>0. /\ UNCHANGED <<cred, at, mem, seed, live, issued>> /\ other # 0 /\ other' = 0
      /\ row' = [row EXCEPT !.token = other]
  BY DEF OtherStores, threadVars, backendVars, Grounds, Types, StoreOK
<1>1. issued \in Nat /\ other = issued /\ Below(issued - 1) /\ Below(issued)
      /\ \A o \in Creds : ~cred[o].unpersisted
  BY <1>0, Numbers DEF Grounds, Ordered, Elsewhere, Newest
<1>2. row'.token = issued
  BY <1>0, <1>1, Numbers DEF Grounds
<1>3. /\ row.token \in 0..(issued - 1)
      /\ \A o \in Creds : cred[o].refresh \in 0..(issued - 1)
      /\ \A b \in Actors : mem[b].got \in 0..(issued - 1)
  BY <1>1 DEF Below, KnowsUpto
<1>4. Newest'
  BY <1>0, <1>1, <1>2 DEF Grounds, Ordered, Newest, Below, KnowsUpto
<1>5. Elsewhere'
  BY <1>0 DEF Elsewhere
<1>6. ASSUME NEW b \in Actors PROVE Placed(b)'
  <2>1. at[b] # "minted"
    BY <1>1, <1>3 DEF Grounds, Ordered, Placed
  <2>2. mem[b].got <= issued
    BY <1>1, <1>3
  <2>. QED
    BY <1>0, <1>1, <1>2, <2>1, <2>2 DEF Grounds, Ordered, Placed
<1>7. \A o \in Creds : Owed(o)'
  <2>1. \A o \in Creds : cred[o].refresh <= issued
    BY <1>1, <1>3
  <2>. QED
    BY <1>0, <1>1, <1>2, <2>1 DEF Grounds, Ordered, Owed
<1>8. row'.token > row.token
  BY <1>1, <1>2, <1>3
<1>. QED
  BY <1>4, <1>5, <1>6, <1>7, <1>8 DEF Ordered

LEMMA OtherDiesOrdered == ASSUME ~Keyed, Grounds, OtherDies PROVE Ordered' /\ UNCHANGED row
<1>0. UNCHANGED <<row, cred, at, mem, seed, live, issued>> /\ other' = 0
  BY DEF OtherDies, threadVars, backendVars
<1>1. Newest'
  BY <1>0 DEF Grounds, Ordered, Newest, Below, KnowsUpto
<1>2. Elsewhere'
  BY <1>0 DEF Elsewhere
<1>3. \A b \in Actors : Placed(b)'
  BY <1>0 DEF Grounds, Ordered, Placed
<1>4. \A o \in Creds : Owed(o)'
  BY <1>0 DEF Grounds, Ordered, Owed
<1>. QED
  BY <1>0, <1>1, <1>2, <1>3, <1>4 DEF Ordered

LEMMA BlankKnows == Blank.got = 0 /\ Blank.show = 0 /\ Blank.left = <<>> /\ Blank.use = 0
BY DEF Blank

\* A new process knows the row and the configured token, and owes nothing.
LEMMA BootOrdered ==
    ASSUME ~Keyed, Grounds, Boot, UNCHANGED row
    PROVE  /\ \A n \in Nat : row.token \in 0..n /\ seed' \in 0..n => Below(n)'
           /\ \A o \in Creds : ~cred'[o].unpersisted /\ Owed(o)'
           /\ \A b \in Actors : Placed(b)'
<1>1. row.token \in Nat
  BY Numbers DEF Grounds
<1>2. \A o \in Creds : /\ cred'[o].refresh = row.token /\ cred'[o].access = 0
                       /\ ~cred'[o].unpersisted
  BY DEF Boot, Unused
<1>3. \A b \in Actors : at'[b] = "idle" /\ mem'[b] = Blank
  BY DEF Boot
<1>4. ASSUME NEW n \in Nat, row.token \in 0..n, seed' \in 0..n PROVE Below(n)'
  <2>1. 0 \in 0..n /\ <<>> \in Seq(0..n)
    OBVIOUS
  <2>2. \A b \in Actors : KnowsUpto(b, n)'
    BY <1>3, <2>1, BlankKnows DEF KnowsUpto
  <2>. QED
    BY <1>2, <1>4, <2>2 DEF Below
<1>5. \A o \in Creds : ~cred'[o].unpersisted /\ Owed(o)'
  <2>1. 0 <= row.token /\ row.token <= row.token
    BY <1>1
  <2>. QED
    BY <1>2, <2>1 DEF Owed
<1>6. \A b \in Actors : Placed(b)'
  <2>1. 0 <= row.token
    BY <1>1
  <2>. QED
    BY <1>2, <1>3, <2>1 DEF Placed, Blank
<1>. QED
  BY <1>4, <1>5, <1>6

LEMMA RestartOrdered == ASSUME ~Keyed, Grounds, Restart PROVE Ordered' /\ UNCHANGED row
<1>0. Boot /\ UNCHANGED <<row, seed, live, issued, other>>
  BY DEF Restart, backendVars
<1>1. \A n \in Nat : Below(n) => Below(n)'
  BY <1>0, BootOrdered DEF Below
<1>2. issued \in Nat /\ issued' = issued
  BY <1>0, Numbers DEF Grounds
<1>3. Newest'
  BY <1>0, <1>1, <1>2 DEF Grounds, Ordered, Newest
<1>4. Elsewhere'
  <2>1. CASE other = 0
    BY <1>0, <2>1 DEF Elsewhere
  <2>2. CASE other # 0
    <3>1. issued - 1 \in Nat /\ Below(issued - 1) /\ other = issued
      BY <1>2, <2>2, Numbers DEF Grounds, Ordered, Elsewhere
    <3>. QED
      BY <1>0, <1>1, <3>1, BootOrdered DEF Elsewhere
  <2>. QED
    BY <2>1, <2>2
<1>. QED
  BY <1>0, <1>3, <1>4, BootOrdered DEF Ordered

LEMMA ReprovisionOrdered == ASSUME ~Keyed, Grounds, Reprovision PROVE Ordered' /\ UNCHANGED row
<1>0. /\ Boot /\ UNCHANGED <<row, other>> /\ LockedOut
      /\ issued' = issued + 1 /\ live' = {issued + 1} /\ seed' = issued + 1
  BY DEF Reprovision
<1>1. issued \in Nat /\ row.token \in 0..issued /\ live = {issued}
  BY Numbers DEF Grounds, Ordered, Newest, Below
<1>2. other = 0
  <2>1. other \in Reachable
    BY DEF Reachable
  <2>. QED
    BY <1>0, <1>1, <2>1 DEF LockedOut, Grounds, Ordered, Elsewhere
<1>3. PICK n \in Nat : n = issued + 1
  BY <1>1
<1>4. Below(n)'
  <2>1. row.token \in 0..n /\ seed' \in 0..n
    BY <1>0, <1>1, <1>3
  <2>. QED
    BY <1>0, <2>1, BootOrdered
<1>5. Newest'
  BY <1>0, <1>3, <1>4 DEF Newest
<1>6. Elsewhere'
  BY <1>0, <1>2 DEF Elsewhere
<1>. QED
  BY <1>0, <1>5, <1>6, BootOrdered DEF Ordered

-----------------------------------------------------------------------------
LEMMA InitOrdered == ASSUME ~Keyed, Init PROVE Ordered
<1>1. /\ row.token = 1 /\ seed = 1 /\ issued = 1 /\ live = {1} /\ other = 0
  BY DEF Init
<1>2. \A o \in Creds : cred[o].refresh = 1 /\ cred[o].access = 0 /\ ~cred[o].unpersisted
  BY DEF Init, Unused
<1>3. \A a \in Actors : at[a] = "idle" /\ mem[a] = Blank
  BY DEF Init
<1>4. Newest
  <2>1. 0 \in 0..1 /\ <<>> \in Seq(0..1)
    OBVIOUS
  <2>2. \A a \in Actors : KnowsUpto(a, 1)
    BY <1>3, <2>1, BlankKnows DEF KnowsUpto
  <2>. QED
    BY <1>1, <1>2, <2>2 DEF Newest, Below
<1>5. \A a \in Actors : Placed(a)
  BY <1>2, <1>3 DEF Placed, Blank
<1>6. \A o \in Creds : Owed(o)
  BY <1>1, <1>2 DEF Owed
<1>. QED
  BY <1>1, <1>4, <1>5, <1>6 DEF Ordered, Elsewhere

\* Every step keeps the order, and none puts an older token in the row.
LEMMA StepOrdered ==
    ASSUME ~Keyed, Grounds, [Next]_vars
    PROVE  Ordered' /\ (UNCHANGED row \/ row'.token > row.token)
<1>. DEFINE Goal == Ordered' /\ (UNCHANGED row \/ row'.token > row.token)
<1>1. ASSUME NEW t \in Turns, Begin(t) PROVE Goal
  <2>1. t \in Actors
    BY DEF Actors
  <2>. QED
    BY <1>1, <2>1, QuietStep
<1>2. ASSUME NEW a \in Actors, Step(a) PROVE Goal
  <2>1. CASE Rotate(a)
    BY <2>1, RotateOrdered DEF Rotate
  <2>2. CASE Persist(a)
    BY <2>2, PersistOrdered
  <2>3. CASE PersistFails(a)
    BY <2>3, PersistFailsOrdered DEF PersistFails
  <2>4. CASE Publish(a)
    BY <2>4, PublishOrdered DEF Publish
  <2>5. CASE Rewrite(a)
    BY <2>5, RewriteOrdered
  <2>. QED
    BY <1>2, <2>1, <2>2, <2>3, <2>4, <2>5, QuietStep DEF Step, Exchange
<1>3. ASSUME NEW o \in Creds, Expire(o) PROVE Goal
  <2>1. SameObject
    BY <1>3 DEF Expire, SameObject, Grounds, Types, StoreOK, Fields
  <2>2. Motionless /\ UNCHANGED threadVars
    BY <1>3, <2>1 DEF Expire, Motionless, backendVars
  <2>. QED
    BY <2>2, StillOrdered DEF Motionless
<1>4. CASE BeginShutdown \/ CloseWaits \/ Close \/ UNCHANGED vars
  <2>1. Motionless /\ UNCHANGED threadVars
    BY <1>4 DEF BeginShutdown, CloseWaits, Close, vars, backendVars, Motionless, SameObject
  <2>. QED
    BY <2>1, StillOrdered DEF Motionless
<1>5. CASE Other
  <2>1. OtherRenews => UNCHANGED row
    BY DEF OtherRenews
  <2>. QED
    BY <1>5, <2>1, OtherRenewsOrdered, OtherStoresOrdered, OtherDiesOrdered DEF Other
<1>6. CASE Restart \/ Reprovision
  BY <1>6, RestartOrdered, ReprovisionOrdered
<1>. QED
  BY <1>1, <1>2, <1>3, <1>4, <1>5, <1>6 DEF Next, Threads

LEMMA StepGrounds == ASSUME ~Keyed, Grounds, [Next]_vars PROVE Grounds'
BY StepTyped, StepSafe, StepOrdered DEF Grounds

LEMMA InitGrounds == ASSUME ~Keyed, Init PROVE Grounds
BY InitTyped, InitSafe, InitOrdered DEF Grounds

\* What is used is no newer than the object's token, which is stored or known not to be.
LEMMA OrderedStored == ASSUME ~Keyed, Grounds PROVE UsedMeansStored
<1>. SUFFICES ASSUME NEW t \in Turns, at[t] = "use"
              PROVE  row.token >= mem[t].use \/ \E o \in Creds : cred[o].unpersisted
  BY DEF UsedMeansStored
<1>1. t \in Actors
  BY DEF Actors
<1>2. Held(t) \in Creds
  BY <1>1 DEF Grounds, Types, ThreadsOK, Held, Aware
<1>3. mem[t].use <= cred[Held(t)].refresh
  BY <1>1, <1>2 DEF Grounds, Ordered, Placed
<1>4. cred[Held(t)].refresh <= row.token \/ cred[Held(t)].unpersisted
  BY <1>2 DEF Grounds, Ordered, Owed
<1>5. mem[t].use \in Nat /\ cred[Held(t)].refresh \in Nat /\ row.token \in Nat
  BY <1>1, <1>2, Numbers DEF Grounds
<1>6. CASE cred[Held(t)].unpersisted
  BY <1>2, <1>6
<1>7. CASE cred[Held(t)].refresh <= row.token
  BY <1>3, <1>5, <1>7
<1>. QED
  BY <1>4, <1>6, <1>7

\* Persist before use: no request of the default's rides on an access token whose
\* refresh token is neither stored nor known to be unstored, for any number of threads,
\* tokens, failures and restarts (_persist before token_lock in _exchange_refresh_token).
THEOREM UsedStored == ASSUME ~Keyed PROVE Spec => []UsedMeansStored
<1>1. Init => Grounds
  BY InitGrounds
<1>2. Grounds /\ [Next]_vars => Grounds'
  BY StepGrounds
<1>3. Grounds => UsedMeansStored
  BY OrderedStored
<1>. QED
  BY <1>1, <1>2, <1>3, PTL DEF Spec

\* No write of the default's row, by a renewal, by the keepalive's late retry or by
\* another process, puts an older token over a newer one (_retry_pending_persist, #96).
THEOREM StoreOrdered == ASSUME ~Keyed PROVE Spec => StoreAdvances
<1>1. Init => Grounds
  BY InitGrounds
<1>2. Grounds /\ [Next]_vars => Grounds'
  BY StepGrounds
<1>3. Grounds /\ [Next]_vars =>
        [row # None /\ row' # None /\ row'.token # row.token => row'.token > row.token]_vars
  BY StepOrdered
<1>. QED
  BY <1>1, <1>2, <1>3, PTL DEF Spec, StoreAdvances

-----------------------------------------------------------------------------
(* What shutdown waits for, where the tokens shown come from, and what a       *)
(* configured token that is still live says of the rest.                       *)

\* Between a rotation and its write, or about to look for another token.
Writing == {"alternatives", "minted", "persisted"}

\* Tokens that the store or the configuration has, or has had.
Known == {x \in Nat : x <= row.token \/ x <= seed}

\* A token shown after a refusal is one of those.
Traced(p, m) == /\ m.left \in Seq(Known)
                /\ p = "post" /\ m.alternative => m.show \in Known

CloseInv ==
    /\ cached \in Creds
    /\ closing \in {"waiting", "spent"} => drain = Creds
    /\ CloseOutlastsRenewal

Sound == CloseInv /\ \A a \in Actors : Traced(at[a], mem[a])

CustodyInv ==
    /\ Sound
    /\ seed = issued => /\ \A a \in Actors : at[a] # "minted"
                        /\ \A o \in Creds : ~cred[o].unpersisted

\* Where a thread goes: nowhere past a request that a closed client cannot make.
Soundly(a) == \E p, m : /\ Goto(a, p, m) /\ Traced(p, m)
                        /\ p \in Writing => HttpOpen \/ at[a] \in Writing

LEMMA BlankTraced ==
    ASSUME NEW p, NEW m, m.left = <<>>, m.alternative = FALSE PROVE Traced(p, m)
BY DEF Traced

LEMMA LeaveSoundly == ASSUME NEW a \in Actors, NEW p \in Ended, Leave(a, p) PROVE Soundly(a)
<1>1. \A q : Traced(q, Blank)
  <2>1. Blank.left = <<>> /\ Blank.alternative = FALSE
    BY DEF Blank
  <2>. QED
    BY <2>1 DEF Traced
<1>2. p \notin Writing /\ "idle" \notin Writing
  BY DEF Ended, Writing
<1>3. Goto(a, "idle", Blank) \/ Goto(a, p, Blank)
  BY DEF Leave
<1>. QED
  BY <1>1, <1>2, <1>3 DEF Soundly

LEMMA ReturnSoundly == ASSUME NEW a \in Actors, NEW t, Return(a, t) PROVE Soundly(a)
<1>1. CASE a \in Keepers
  BY <1>1, LeaveSoundly DEF Return, Ended
<1>2. CASE a \notin Keepers
  <2>. DEFINE m == [Blank EXCEPT !.obj = Held(a), !.use = t, !.again = mem[a].again]
  <2>1. m.left = <<>> /\ m.alternative = FALSE /\ Goto(a, "use", m)
    BY <1>2 DEF Return, Blank
  <2>2. "use" \notin Writing
    BY DEF Writing
  <2>. HIDE DEF m
  <2>. QED
    BY <2>1, <2>2, BlankTraced DEF Soundly
<1>. QED
  BY <1>1, <1>2

\* A thread that keeps its list of tokens and shows none of it.
LEMMA KeepsTraced ==
    ASSUME NEW a \in Actors, NEW m, NEW p, Traced(at[a], mem[a]),
           m.left = mem[a].left, p # "post", Goto(a, p, m),
           p \in Writing => HttpOpen \/ at[a] \in Writing
    PROVE  Soundly(a)
BY DEF Traced, Soundly

LEMMA AskSoundly ==
    ASSUME ~Keyed, Types, NEW a \in Actors, Traced(at[a], mem[a]),
           \/ Begin(a) \/ Wake(a) \/ Queue(a) \/ Unauthorized(a) \/ RetrySkip(a)
           \/ Look(a) \/ Served(a) \/ Due(a) \/ RetryTake(a) \/ Rewrite(a)
    PROVE  Soundly(a)
<1>0. mem[a] \in Locals
  BY DEF Types, ThreadsOK
<1>1. CASE Leave(a, "done") \/ Return(a, Mine(a).access) \/ Goto(a, "done", Blank)
  <2>1. ASSUME Goto(a, "done", Blank) PROVE Soundly(a)
    <3>1. Blank.left = <<>> /\ Blank.alternative = FALSE
      BY DEF Blank
    <3>2. Traced("done", Blank)
      BY <3>1, BlankTraced
    <3>. QED
      BY <2>1, <3>2 DEF Soundly, Writing
  <2>. QED
    BY <1>1, <2>1, LeaveSoundly, ReturnSoundly DEF Ended
<1>2. ASSUME NEW p \in {"read", "look", "tick", "queue", "wait", "due", "retry"}, NEW m,
             m.left = mem[a].left, Goto(a, p, m)
      PROVE  Soundly(a)
  BY <1>2, KeepsTraced DEF Writing
<1>3. CASE Begin(a) \/ Wake(a)
  <2>. DEFINE p == IF a \in Keepers THEN "tick" ELSE "look"
              m == [mem[a] EXCEPT !.obj = cached, !.rec = None]
  <2>1. FirstLook(a)
    BY <1>3 DEF Begin, Wake
  <2>2. m.left = mem[a].left /\ p \in {"look", "tick"}
    BY <1>0 DEF Locals
  <2>3. Goto(a, p, m) \/ Goto(a, "read", mem[a])
    BY <2>1 DEF FirstLook, Resolved
  <2>. HIDE DEF m, p
  <2>. QED
    BY <1>2, <2>2, <2>3
<1>4. CASE Queue(a)
  <2>. DEFINE m == [mem[a] EXCEPT !.intended = Mine(a).refresh]
  <2>1. m.left = mem[a].left /\ Goto(a, "wait", m)
    BY <1>0, <1>4 DEF Locals, Queue
  <2>. HIDE DEF m
  <2>. QED
    BY <1>2, <2>1
<1>5. CASE Unauthorized(a)
  <2>. DEFINE m == [mem[a] EXCEPT !.seen = mem[a].use, !.use = 0, !.again = TRUE]
  <2>1. m.left = mem[a].left /\ Goto(a, "queue", m)
    BY <1>0, <1>5 DEF Locals, Unauthorized
  <2>. HIDE DEF m
  <2>. QED
    BY <1>2, <2>1
<1>6. CASE Look(a)
  <2>. DEFINE m == [mem[a] EXCEPT !.seen = Mine(a).access]
  <2>1. m.left = mem[a].left
    BY <1>0 DEF Locals
  <2>2. Return(a, Mine(a).access) \/ Goto(a, "queue", m)
    BY <1>6 DEF Look
  <2>. HIDE DEF m
  <2>. QED
    BY <1>1, <1>2, <2>1, <2>2
<1>7. CASE RetryTake(a)
  <2>. DEFINE m == [mem[a] EXCEPT !.show = Mine(a).refresh]
  <2>1. m.left = mem[a].left /\ Goto(a, "retry", m)
    BY <1>0, <1>7 DEF Locals, RetryTake
  <2>. HIDE DEF m
  <2>. QED
    BY <1>2, <2>1
<1>8. CASE Rewrite(a)
  <2>. DEFINE m == [mem[a] EXCEPT !.show = 0]
  <2>1. m.left = mem[a].left /\ Goto(a, "due", m)
    BY <1>0, <1>8 DEF Locals, Rewrite
  <2>. HIDE DEF m
  <2>. QED
    BY <1>2, <2>1
<1>9. CASE RetrySkip(a) \/ Served(a) \/ Due(a)
  BY <1>1, <1>2, <1>9 DEF RetrySkip, Served, Due
<1>. QED
  BY <1>3, <1>4, <1>5, <1>6, <1>7, <1>8, <1>9

LEMMA ShowsTraced ==
    ASSUME NEW p, NEW m, NEW s, s \in Seq(Known), s # <<>>, m.show = Head(s), m.left = Tail(s)
    PROVE  Traced(p, m)
BY DEF Traced

LEMMA ExchangeSoundly ==
    ASSUME ~Keyed, Types, NEW a \in Actors, Traced(at[a], mem[a]), TakeLock(a) \/ Exchange(a)
    PROVE  Soundly(a)
<1>0. mem[a] \in Locals /\ row.token \in Nat /\ seed \in Nat
  BY Numbers DEF Types, ThreadsOK
<1>1. CASE TakeLock(a)
  <2>. DEFINE m == [Blank EXCEPT !.obj = Held(a), !.show = Mine(a).refresh,
                                 !.again = mem[a].again]
  <2>1. m.left = <<>> /\ m.alternative = FALSE
    BY DEF Blank
  <2>2. Return(a, Mine(a).access) \/ Goto(a, "post", m)
    BY <1>1 DEF TakeLock
  <2>. HIDE DEF m
  <2>3. Traced("post", m)
    BY <2>1, BlankTraced
  <2>4. Goto(a, "post", m) => Soundly(a)
    BY <2>3 DEF Soundly, Writing
  <2>. QED
    BY <2>2, <2>4, ReturnSoundly
<1>2. CASE Rotate(a)
  <2>. DEFINE m == [mem[a] EXCEPT !.got = issued + 1, !.show = 0, !.left = <<>>,
                                  !.alternative = FALSE]
  <2>1. m.left = <<>> /\ m.alternative = FALSE /\ Goto(a, "minted", m) /\ HttpOpen
    BY <1>0, <1>2 DEF Locals, Rotate
  <2>. HIDE DEF m
  <2>. QED
    BY <2>1, BlankTraced DEF Soundly
<1>3. CASE AnswerLost(a) \/ Unreached(a)
  BY <1>3, LeaveSoundly DEF AnswerLost, Unreached, Ended
<1>4. CASE Refused(a)
  <2>1. at[a] = "post" /\ HttpOpen
    BY <1>4 DEF Refused
  <2>2. CASE Goto(a, "alternatives", [mem[a] EXCEPT !.alternative = TRUE])
    <3>. DEFINE m == [mem[a] EXCEPT !.alternative = TRUE]
    <3>1. m.left = mem[a].left /\ Goto(a, "alternatives", m)
      BY <1>0, <2>2 DEF Locals
    <3>. HIDE DEF m
    <3>. QED
      BY <2>1, <3>1, KeepsTraced
  <2>3. CASE /\ mem[a].left # <<>>
             /\ Goto(a, "post", [mem[a] EXCEPT !.show = Head(mem[a].left), !.left = Tail(@)])
    <3>. DEFINE m == [mem[a] EXCEPT !.show = Head(mem[a].left), !.left = Tail(mem[a].left)]
    <3>1. m.show = Head(mem[a].left) /\ m.left = Tail(mem[a].left) /\ Goto(a, "post", m)
      BY <1>0, <2>3 DEF Locals
    <3>. HIDE DEF m
    <3>2. Traced("post", m)
      BY <2>3, <3>1, ShowsTraced DEF Traced
    <3>. QED
      BY <3>1, <3>2 DEF Soundly, Writing
  <2>4. CASE Leave(a, "failed")
    BY <2>4, LeaveSoundly DEF Ended
  <2>. QED
    BY <1>4, <2>2, <2>3, <2>4 DEF Refused
<1>5. CASE Alternatives(a)
  <2>1. PICK stored \in {row.token, 0} :
          IF Candidates(a, stored) = <<>>
          THEN Leave(a, "failed") /\ Release(a)
          ELSE Goto(a, "post", [mem[a] EXCEPT !.show = Head(Candidates(a, stored)),
                                              !.left = Tail(Candidates(a, stored))])
    BY <1>5, Zenon DEF Alternatives
  <2>2. CASE Candidates(a, stored) = <<>>
    BY <2>1, <2>2, LeaveSoundly DEF Ended
  <2>3. CASE Candidates(a, stored) # <<>>
    <3>. DEFINE s == Candidates(a, stored)
                m == [mem[a] EXCEPT !.show = Head(s), !.left = Tail(s)]
    <3>1. Goto(a, "post", m) /\ s # <<>>
      BY <2>1, <2>3
    <3>2. stored \in Known /\ seed \in Known
      BY <1>0 DEF Known
    <3>3. s \in Seq(Known)
      <4>1. /\ Unless(stored, {0, Mine(a).refresh}) \in Seq(Known)
            /\ Unless(seed, {0, Mine(a).refresh, stored}) \in Seq(Known)
        BY <3>2, UnlessIn
      <4>. QED
        BY <4>1 DEF Candidates
    <3>. HIDE DEF s
    <3>4. m.show = Head(s) /\ m.left = Tail(s)
      BY <1>0 DEF Locals
    <3>. HIDE DEF m
    <3>5. Traced("post", m)
      BY <3>1, <3>3, <3>4, ShowsTraced
    <3>. QED
      BY <3>1, <3>5 DEF Soundly, Writing
  <2>. QED
    BY <2>2, <2>3
<1>6. CASE Persist(a) \/ PersistFails(a)
  <2>1. at[a] \in Writing /\ Goto(a, "persisted", mem[a])
    BY <1>6 DEF Persist, PersistFails, Writing
  <2>. QED
    BY <2>1, KeepsTraced
<1>7. CASE Publish(a)
  BY <1>7, ReturnSoundly DEF Publish
<1>. QED
  BY <1>1, <1>2, <1>3, <1>4, <1>5, <1>6, <1>7 DEF Exchange

\* The quiet steps, but for an answer lost.
LEMMA QuietModestly ==
    ASSUME ~Keyed, Grounds, NEW a \in Actors,
           \/ Begin(a) \/ Wake(a) \/ Queue(a) \/ Unauthorized(a) \/ RetrySkip(a)
           \/ Look(a) \/ Served(a) \/ Due(a)
           \/ TakeLock(a) \/ RetryTake(a) \/ Unreached(a) \/ Refused(a) \/ Alternatives(a)
    PROVE  Motionless /\ Modestly(a) /\ at[a] \notin {"minted", "persisted"}
<1>1. CASE \/ Begin(a) \/ Wake(a) \/ Queue(a) \/ Unauthorized(a) \/ RetrySkip(a)
           \/ Look(a) \/ Served(a) \/ Due(a)
  <2>1. Motionless /\ at[a] \notin {"minted", "persisted"}
    BY <1>1 DEF Begin, Wake, Queue, Unauthorized, RetrySkip, Look, Served, Due, Motionless,
                SameObject, backendVars
  <2>. QED
    BY <1>1, <2>1, AskModestly DEF Grounds
<1>2. CASE TakeLock(a) \/ RetryTake(a)
  <2>1. Motionless /\ at[a] \notin {"minted", "persisted"}
    BY <1>2 DEF TakeLock, RetryTake, Motionless, SameObject, backendVars
  <2>. QED
    BY <1>2, <2>1, TakeLockModestly, RetryTakeModestly DEF Grounds
<1>3. CASE Unreached(a)
  <2>1. Motionless /\ at[a] \notin {"minted", "persisted"} /\ Leave(a, "failed")
    BY <1>3 DEF Unreached, Motionless, SameObject, backendVars
  <2>. QED
    BY <2>1, LeaveModestly DEF Grounds, Ended
<1>4. CASE Refused(a)
  <2>1. Motionless /\ at[a] \notin {"minted", "persisted"}
    BY <1>4 DEF Refused, Motionless, SameObject, backendVars
  <2>. QED
    BY <1>4, <2>1, RefusedModestly DEF Grounds
<1>5. CASE Alternatives(a)
  <2>1. UNCHANGED cred
    BY <1>5 DEF Alternatives
  <2>2. Motionless /\ at[a] \notin {"minted", "persisted"}
    BY <1>5, <2>1 DEF Alternatives, Motionless, SameObject, backendVars
  <2>. QED
    BY <1>5, <2>2, AlternativesModestly DEF Grounds
<1>. QED
  BY <1>1, <1>2, <1>3, <1>4, <1>5

\* What a thread's step leaves of the cache and of shutdown.
LEMMA ThreadFrame ==
    ASSUME ~Keyed, Types, NEW a \in Actors, Begin(a) \/ Step(a)
    PROVE  /\ UNCHANGED <<cached, seed, drain>>
           /\ \/ UNCHANGED closing
              \/ closing = "waiting" /\ closing' = "spent"
<1>1. row # None
  BY DEF Types, StoreOK
<1>. QED
  BY <1>1 DEF Begin, Step, Exchange, Wake, Queue, Unauthorized, RetrySkip, Look, Served, Due,
     TakeLock, RetryTake, Rewrite, Rotate, AnswerLost, Unreached, Refused, Alternatives,
     Persist, PersistFails, Publish, shutVars, Waited

\* A token the store or the configuration has had stays one that it has had.
LEMMA KnownGrows ==
    ASSUME ~Keyed, Grounds, [Next]_vars
    PROVE  Known \subseteq Known'
<1>1. row.token \in Nat /\ row'.token \in Nat /\ row.token <= row'.token
  <2>1. Grounds'
    BY StepGrounds
  <2>2. row.token \in Nat /\ row'.token \in Nat
    BY <2>1, Numbers DEF Grounds, Types, StoreOK, Rows, Tokens
  <2>. QED
    BY <2>2, StepOrdered
<1>2. seed \in Nat /\ seed' \in Nat /\ seed <= seed'
  <2>1. UNCHANGED seed \/ Reprovision
    <3>1. ASSUME NEW a \in Actors, Begin(a) \/ Step(a) PROVE UNCHANGED seed
      BY <3>1, ThreadFrame DEF Grounds
    <3>2. CASE Threads
      BY <3>1, <3>2 DEF Threads, Actors
    <3>. QED
      BY <3>2 DEF Next, Other, OtherRenews, OtherStores, OtherDies, Expire, BeginShutdown,
         CloseWaits, Close, Restart, vars
  <2>2. seed \in 0..issued /\ issued \in Nat
    BY Numbers DEF Grounds, Ordered, Newest, Below
  <2>. QED
    BY <2>1, <2>2 DEF Reprovision
<1>. QED
  BY <1>1, <1>2 DEF Known

\* The seed is live only until the first renewal after it was provided.
LEMMA SeedStep ==
    ASSUME ~Keyed, Grounds, CustodyInv, [Next]_vars, seed' = issued'
    PROVE  (\A a \in Actors : at'[a] # "minted") /\ (\A o \in Creds : ~cred'[o].unpersisted)
<1>. DEFINE Goal == /\ \A a \in Actors : at'[a] # "minted"
                    /\ \A o \in Creds : ~cred'[o].unpersisted
<1>1. seed \in 0..issued /\ issued \in Nat
  BY Numbers DEF Grounds, Ordered, Newest, Below
<1>2. ASSUME NEW t, Spend(t), UNCHANGED seed PROVE FALSE
  BY <1>1, <1>2 DEF Spend
<1>3. ASSUME UNCHANGED <<seed, issued, at>>, SameObject PROVE Goal
  BY <1>3 DEF CustodyInv, SameObject
<1>4. ASSUME NEW a \in Actors, UNCHANGED <<seed, issued>>, SameObject,
             NEW p, NEW m, Goto(a, p, m), p # "minted"
      PROVE  Goal
  <2>1. \A b \in Actors : at'[b] = "minted" => at[b] = "minted"
    BY <1>4, Numbers DEF Goto, Grounds
  <2>. QED
    BY <1>4, <2>1 DEF CustodyInv, SameObject
<1>5. ASSUME NEW a \in Actors, Begin(a) \/ Step(a) PROVE Goal
  <2>1. UNCHANGED seed
    BY <1>5, ThreadFrame DEF Grounds
  <2>2. CASE Motionless /\ Modestly(a)
    BY <1>4, <2>2 DEF Motionless, Modestly
  <2>3. CASE Rotate(a)
    BY <1>2, <2>1, <2>3 DEF Rotate
  <2>4. CASE AnswerLost(a)
    <3>1. Motionless
      BY <2>4 DEF AnswerLost, Motionless, SameObject, backendVars
    <3>2. Modestly(a)
      BY <2>4, LeaveModestly DEF AnswerLost, Grounds, Ended
    <3>. QED
      BY <2>2, <3>1, <3>2
  <2>5. CASE Persist(a) \/ PersistFails(a)
    BY <2>1, <2>5 DEF Persist, PersistFails, CustodyInv, backendVars
  <2>6. CASE Publish(a) \/ Rewrite(a)
    <3>1. cred \in [Creds -> Fields] /\ UNCHANGED issued
      BY <2>6, Numbers DEF Grounds, Publish, Rewrite, backendVars
    <3>2. \A o \in Creds : cred'[o].unpersisted => cred[o].unpersisted
      BY <2>6, <3>1 DEF Publish, Rewrite, Fields
    <3>3. \E p, m : p # "minted" /\ Goto(a, p, m)
      BY <2>6 DEF Publish, Rewrite, Return, Leave
    <3>4. \A b \in Actors : at'[b] = "minted" => at[b] = "minted"
      BY <3>3, Numbers DEF Goto, Grounds
    <3>. QED
      BY <2>1, <3>1, <3>2, <3>4 DEF CustodyInv
  <2>. QED
    BY <1>5, <2>2, <2>3, <2>4, <2>5, <2>6, QuietModestly DEF Step, Exchange
<1>6. CASE Threads
  BY <1>5, <1>6 DEF Threads, Actors
<1>7. CASE Other
  <2>1. UNCHANGED seed /\ (OtherRenews => Spend(row.token))
    BY <1>7 DEF Other, OtherRenews, OtherStores, OtherDies
  <2>2. OtherStores \/ OtherDies => UNCHANGED <<issued, at, cred>>
    BY DEF OtherStores, OtherDies, threadVars, backendVars
  <2>. QED
    BY <1>2, <1>3, <1>7, <2>1, <2>2 DEF Other, SameObject
<1>8. CASE Restart \/ Reprovision
  <2>1. Boot
    BY <1>8 DEF Restart, Reprovision
  <2>. QED
    BY <2>1 DEF Boot, Unused
<1>9. ASSUME NEW o \in Creds, Expire(o) PROVE Goal
  <2>1. SameObject
    BY <1>9 DEF Expire, SameObject, Grounds, Types, StoreOK, Fields
  <2>. QED
    BY <1>3, <1>9, <2>1 DEF Expire, threadVars, backendVars
<1>10. CASE BeginShutdown \/ CloseWaits \/ Close \/ UNCHANGED vars
  <2>1. UNCHANGED <<seed, issued, at>> /\ SameObject
    BY <1>10 DEF BeginShutdown, CloseWaits, Close, vars, threadVars, backendVars, SameObject
  <2>. QED
    BY <1>3, <2>1
<1>. QED
  BY <1>6, <1>7, <1>8, <1>9, <1>10 DEF Next

\* What is closed stays so, and no thread begins to write after it.
LEMMA ThreadCustody ==
    ASSUME ~Keyed, Grounds, CustodyInv, NEW a \in Actors, Begin(a) \/ Step(a),
           Known \subseteq Known'
    PROVE  Sound'
<1>1. Soundly(a)
  BY AskSoundly, ExchangeSoundly DEF Step, CustodyInv, Sound, Grounds
<1>2. PICK p, m : /\ Goto(a, p, m) /\ Traced(p, m)
                  /\ p \in Writing => HttpOpen \/ at[a] \in Writing
  BY <1>1 DEF Soundly
<1>3. /\ at'[a] = p /\ mem'[a] = m
      /\ \A b \in Actors \ {a} : at'[b] = at[b] /\ mem'[b] = mem[b]
  BY <1>2, Numbers DEF Goto, Grounds
<1>4. ASSUME NEW q, NEW l, Traced(q, l)
      PROVE  /\ l.left \in Seq(Known')
             /\ q = "post" /\ l.alternative => l.show \in Known'
  BY <1>4 DEF Traced
<1>5. ASSUME NEW b \in Actors PROVE Traced(at[b], mem[b])'
  <2>1. /\ mem'[b].left \in Seq(Known')
        /\ at'[b] = "post" /\ mem'[b].alternative => mem'[b].show \in Known'
    <3>1. CASE b = a
      BY <1>2, <1>3, <1>4, <3>1
    <3>2. CASE b # a
      BY <1>3, <1>4, <3>2 DEF CustodyInv, Sound
    <3>. QED
      BY <3>1, <3>2
  <2>. QED
    BY <2>1 DEF Traced
<1>6. /\ UNCHANGED <<cached, drain>>
      /\ \/ UNCHANGED closing
         \/ closing = "waiting" /\ closing' = "spent"
  BY ThreadFrame DEF Grounds
<1>7. CloseOutlastsRenewal'
  <2>1. SUFFICES ASSUME closing' = "closed", NEW b \in Actors, at'[b] \in Writing PROVE FALSE
    BY DEF CloseOutlastsRenewal, Writing
  <2>2. closing = "closed" /\ ~HttpOpen /\ \A c \in Actors : at[c] \notin Writing
    BY <1>6, <2>1 DEF HttpOpen, CustodyInv, Sound, CloseInv, CloseOutlastsRenewal, Writing
  <2>. QED
    BY <1>2, <1>3, <2>1, <2>2
<1>8. CloseInv'
  BY <1>6, <1>7 DEF CustodyInv, Sound, CloseInv
<1>. QED
  BY <1>5, <1>8 DEF Sound

\* close() holds every lock of those it waits for: no thread is inside one.
LEMMA CloseCustody ==
    ASSUME ~Keyed, Grounds, CloseInv, Close PROVE CloseInv'
<1>1. /\ UNCHANGED <<cached, at, drain, lock>> /\ closing \in {"waiting", "spent"}
      /\ closing' \in {"closed", "cut"} /\ (closing' = "closed" => Drained)
  BY DEF Close, threadVars
<1>2. ASSUME Drained, NEW a \in Actors PROVE at[a] \notin Writing
  <2>1. \A o \in Creds : lock[o] = None
    BY <1>1, <1>2 DEF Drained, CloseInv
  <2>2. at[a] \in Holding => mem[a].obj \in Creds /\ lock[mem[a].obj] = a
    BY DEF Grounds, Types, ThreadsOK, Aware, Safe, ActorOK
  <2>. QED
    BY <2>1, <2>2, RotationAssumption DEF Holding, Exchanging, Writing
<1>3. CloseOutlastsRenewal'
  BY <1>1, <1>2 DEF CloseOutlastsRenewal, Writing
<1>. QED
  BY <1>1, <1>3 DEF CloseInv

LEMMA StepSound == ASSUME ~Keyed, Grounds, CustodyInv, [Next]_vars PROVE Sound'
<1>1. Known \subseteq Known'
  BY KnownGrows
<1>2. ASSUME NEW a \in Actors, Begin(a) \/ Step(a) PROVE Sound'
  BY <1>1, <1>2, ThreadCustody, Zenon
<1>3. CASE Threads
  BY <1>2, <1>3 DEF Threads, Actors
<1>4. ASSUME UNCHANGED threadVars PROVE \A b \in Actors : Traced(at[b], mem[b])'
  <2>1. UNCHANGED <<at, mem>>
    BY <1>4 DEF threadVars
  <2>2. \A b \in Actors : /\ mem[b].left \in Seq(Known')
                          /\ at[b] = "post" /\ mem[b].alternative => mem[b].show \in Known'
    BY <1>1 DEF CustodyInv, Sound, Traced
  <2>. QED
    BY <2>1, <2>2 DEF Traced
<1>5. CASE Other \/ UNCHANGED vars \/ \E o \in Creds : Expire(o)
  <2>1. UNCHANGED <<cached, closing, drain, threadVars>>
    BY <1>5 DEF Other, OtherRenews, OtherStores, OtherDies, vars, Expire, shutVars
  <2>. QED
    BY <1>4, <2>1 DEF CustodyInv, Sound, CloseInv, CloseOutlastsRenewal, Traced, threadVars
<1>6. CASE BeginShutdown \/ CloseWaits
  <2>1. /\ UNCHANGED <<cached, threadVars>>
        /\ closing' \in {"stopping", "waiting"}
        /\ closing' = "waiting" => drain' = {cached} \ {None}
    BY <1>6 DEF BeginShutdown, CloseWaits
  <2>2. {cached} \ {None} = Creds
    BY OneObject, RotationAssumption DEF CustodyInv, Sound, CloseInv
  <2>. QED
    BY <1>4, <2>1, <2>2 DEF CustodyInv, Sound, CloseInv, CloseOutlastsRenewal, Traced, threadVars
<1>7. CASE Close
  BY <1>4, <1>7, CloseCustody DEF Close, CustodyInv, Sound, Traced
<1>8. CASE Restart \/ Reprovision
  <2>1. Boot
    BY <1>8 DEF Restart, Reprovision
  <2>2. cached' = cached /\ closing' = "running" /\ mem' = [a \in Actors |-> Blank]
    BY <2>1 DEF Boot
  <2>3. \A b \in Actors : mem'[b].left = <<>> /\ mem'[b].alternative = FALSE
    BY <2>2 DEF Blank
  <2>4. <<>> \in Seq(Known')
    OBVIOUS
  <2>5. ASSUME NEW b \in Actors PROVE Traced(at[b], mem[b])'
    BY <2>3, <2>4 DEF Traced
  <2>. QED
    BY <2>2, <2>5 DEF CustodyInv, Sound, CloseInv, CloseOutlastsRenewal
<1>. QED
  BY <1>3, <1>5, <1>6, <1>7, <1>8 DEF Next

LEMMA StepCustody == ASSUME ~Keyed, Grounds, CustodyInv, [Next]_vars PROVE CustodyInv'
BY StepSound, SeedStep DEF CustodyInv

LEMMA InitCustody == ASSUME ~Keyed, Init PROVE CustodyInv
<1>1. cached \in Creds /\ closing = "running"
  BY DEF Init
<1>2. \A a \in Actors : at[a] = "idle" /\ mem[a].left = <<>> /\ mem[a].alternative = FALSE
  BY DEF Init, Blank
<1>3. \A o \in Creds : ~cred[o].unpersisted
  BY DEF Init, Unused
<1>4. ASSUME NEW a \in Actors PROVE Traced(at[a], mem[a])
  BY <1>2, BlankTraced
<1>5. CloseInv
  BY <1>1, <1>2 DEF CloseInv, CloseOutlastsRenewal
<1>. QED
  BY <1>2, <1>3, <1>4, <1>5 DEF CustodyInv, Sound

\* close() never closes the default's client and store under a renewal that has
\* rotated its token and not stored it, unless its wait's budget was used up, for any
\* number of threads, tokens and failures (close, renew_lock).
THEOREM CloseIsPatient == ASSUME ~Keyed PROVE Spec => []CloseOutlastsRenewal
<1>1. Init => Grounds /\ CustodyInv
  BY InitGrounds, InitCustody
<1>2. Grounds /\ CustodyInv /\ [Next]_vars => Grounds' /\ CustodyInv'
  BY StepGrounds, StepCustody
<1>3. CustodyInv => CloseOutlastsRenewal
  BY DEF CustodyInv, Sound, CloseInv
<1>. QED
  BY <1>1, <1>2, <1>3, PTL DEF Spec

-----------------------------------------------------------------------------
(* The refinement of TokenCustody.  Where asks of each token whether it is live; *)
(* the live one is the last issued, so where it is can be read off the numbers.  *)

Inflight   == \E a \in Actors : at[a] = "minted"
Remembered == \/ \E o \in Creds : cred[o].refresh = issued
              \/ \E a \in Actors : mem[a].got = issued
Whence ==
    IF other # 0 THEN "elsewhere"
    ELSE IF row.token = issued THEN "stored"
    ELSE IF seed = issued THEN "seed"
    ELSE IF Inflight THEN "inflight"
    ELSE IF Remembered THEN "memory"
    ELSE "lost"
AtWhence == Where = Whence

\* What the grounds say of the tokens, number by number.
LEMMA Counts ==
    ASSUME ~Keyed, Grounds
    PROVE  /\ issued \in Nat \ {0} /\ live = {issued} /\ faults \in Nat
           /\ row.token \in 0..issued /\ seed \in 0..issued /\ other \in Nat
           /\ \A o \in Creds : cred[o].refresh \in 0..issued
           /\ \A a \in Actors : mem[a].got \in 0..issued
           /\ \A a \in Actors : mem[a].got # 0 => at[a] \in {"minted", "persisted"}
<1>1. issued \in Nat /\ live = {issued} /\ other \in Nat
  BY Numbers DEF Grounds, Ordered, Newest
<1>2. issued # 0
  BY <1>1 DEF Grounds, Safe, AllIssued
<1>3. faults \in Nat
  BY RotationAssumption DEF Grounds, Types, WorldOK
<1>4. /\ row.token \in 0..issued /\ seed \in 0..issued
      /\ \A o \in Creds : cred[o].refresh \in 0..issued
      /\ \A a \in Actors : mem[a].got \in 0..issued
  BY DEF Grounds, Ordered, Newest, Below, KnowsUpto
<1>5. \A a \in Actors : mem[a].got # 0 => at[a] \in {"minted", "persisted"}
  BY DEF Grounds, Safe, ActorOK
<1>. QED
  BY <1>1, <1>2, <1>3, <1>4, <1>5

\* While the other process holds the live token, nothing here is as new.
LEMMA Behind ==
    ASSUME ~Keyed, Grounds, other # 0
    PROVE  /\ other = issued /\ row.token < issued /\ seed < issued /\ ~Inflight
           /\ \A o \in Creds : cred[o].refresh < issued
           /\ \A a \in Actors : mem[a].got < issued
<1>1. other = issued /\ Below(issued - 1) /\ issued \in Nat
  BY Counts DEF Grounds, Ordered, Elsewhere
<1>2. /\ row.token < issued /\ seed < issued
      /\ \A o \in Creds : cred[o].refresh < issued
      /\ \A a \in Actors : mem[a].got < issued
  BY <1>1 DEF Below, KnowsUpto
<1>3. ~Inflight
  BY MintedAlone DEF Inflight
<1>. QED
  BY <1>1, <1>2, <1>3

LEMMA LiveReachable ==
    ASSUME ~Keyed, Grounds, other = 0, row.token # issued, seed # issued
    PROVE  live \intersect Reachable # {} <=> Remembered
<1>1. issued # 0 /\ live = {issued} /\ row # None
  BY Counts DEF Grounds, Types, StoreOK
<1>2. issued \in Reachable <=> Remembered
  BY <1>1 DEF Reachable, Remembered
<1>. QED
  BY <1>1, <1>2

LEMMA WhereIs == ASSUME ~Keyed, Grounds PROVE AtWhence
<1>1. issued # 0 /\ live = {issued}
  BY Counts
<1>2. (other # 0 /\ other \in live) <=> other # 0
  BY <1>1, Behind
<1>3. (row.token \in live <=> row.token = issued) /\ (seed \in live <=> seed = issued)
  BY <1>1
<1>4. (\E a \in Actors : at[a] = "minted" /\ mem[a].got \in live) <=> Inflight
  BY <1>1, MintedAlone DEF Inflight
<1>5. CASE other # 0
  BY <1>2, <1>5 DEF AtWhence, Where, Whence
<1>6. CASE other = 0 /\ (row.token = issued \/ seed = issued)
  BY <1>3, <1>6 DEF AtWhence, Where, Whence
<1>7. CASE other = 0 /\ row.token # issued /\ seed # issued
  BY <1>3, <1>4, <1>7, LiveReachable DEF AtWhence, Where, Whence
<1>. QED
  BY <1>5, <1>6, <1>7

-----------------------------------------------------------------------------
(* Each step, as it moves the live token. *)

Stays == Whence' = Whence
Goes(from, to) == Whence \in from /\ Whence' = to
Failing == faults' > faults \/ closing = "cut"
Moved == \/ Stays
         \/ Goes({"stored", "seed", "memory"}, "inflight")
         \/ Goes({"inflight"}, "stored")
         \/ Goes({"inflight"}, "memory") /\ Failing
         \/ Goes({"memory"}, "stored")
         \/ Goes({"stored"}, "elsewhere")
         \/ Goes({"elsewhere"}, "stored")
         \/ Goes({"inflight", "memory", "elsewhere"}, "lost") /\ Failing
         \/ Goes({"lost"}, "seed")

\* Nothing that holds a token changes, but for a thread that holds none.
LEMMA NothingMoves ==
    ASSUME Motionless, Inflight' <=> Inflight, \A a \in Actors : mem'[a].got = mem[a].got
    PROVE  Stays
<1>1. Remembered' <=> Remembered
  BY DEF Remembered, Motionless, SameObject
<1>. QED
  BY <1>1 DEF Stays, Whence, Motionless

LEMMA StillStays == ASSUME Motionless, UNCHANGED threadVars PROVE Stays
BY NothingMoves DEF Inflight, threadVars

LEMMA QuietStays ==
    ASSUME ~Keyed, Grounds, NEW a \in Actors, Motionless, Modestly(a),
           at[a] \notin {"minted", "persisted"}
    PROVE  Stays
<1>1. PICK p, m : Goto(a, p, m) /\ Modest(m) /\ p \notin {"minted", "persisted"}
  BY DEF Modestly
<1>2. /\ at'[a] = p /\ mem'[a] = m
      /\ \A b \in Actors \ {a} : at'[b] = at[b] /\ mem'[b] = mem[b]
  BY <1>1, Numbers DEF Goto, Grounds
<1>3. mem[a].got = 0 /\ m.got = 0
  BY <1>1, Counts DEF Modest
<1>4. Inflight' <=> Inflight
  BY <1>1, <1>2 DEF Inflight
<1>. QED
  BY <1>2, <1>3, <1>4, NothingMoves

\* A renewal takes the live token from where a thread may find it.
LEMMA RotateMoves ==
    ASSUME ~Keyed, Grounds, CustodyInv, NEW a \in Actors, Rotate(a)
    PROVE  Moved
<1>1. /\ at[a] = "post" /\ mem[a].show = issued /\ issued' = issued + 1
      /\ UNCHANGED <<row, seed, other>>
  BY Counts DEF Rotate, Spend
<1>2. /\ row.token \in 0..issued /\ seed \in 0..issued /\ issued \in Nat
  BY Counts
<1>3. other = 0
  <2>1. ASSUME other # 0 PROVE FALSE
    <3>1. mem[a].show \in 0..(issued - 1)
      BY <2>1 DEF Grounds, Ordered, Elsewhere, Below, KnowsUpto
    <3>. QED
      BY <1>1, <1>2, <3>1
  <2>. QED
    BY <2>1
<1>4. ~Inflight
  BY <1>1, OthersOutside DEF Inflight, Grounds, Holding, Exchanging
<1>5. row.token = issued \/ seed = issued \/ Remembered
  <2>1. CASE mem[a].alternative
    <3>1. issued <= row.token \/ issued <= seed
      BY <1>1, <2>1 DEF CustodyInv, Sound, Traced, Known
    <3>. QED
      BY <1>2, <3>1
  <2>2. CASE ~mem[a].alternative
    <3>1. mem[a].obj \in Creds
      BY <1>1 DEF Grounds, Types, ThreadsOK, Aware, Holding, Exchanging
    <3>2. mem[a].show = cred[mem[a].obj].refresh
      BY <1>1, <2>2 DEF Grounds, Safe, ActorOK
    <3>. QED
      BY <1>1, <3>1, <3>2 DEF Remembered
  <2>. QED
    BY <2>1, <2>2
<1>6. Whence \in {"stored", "seed", "memory"}
  BY <1>3, <1>4, <1>5 DEF Whence
<1>7. Inflight'
  <2>1. at'[a] = "minted"
    BY Numbers DEF Rotate, Goto, Grounds
  <2>. QED
    BY <2>1 DEF Inflight
<1>8. row'.token # issued' /\ seed' # issued'
  BY <1>1, <1>2
<1>9. Whence' = "inflight"
  BY <1>1, <1>3, <1>7, <1>8 DEF Whence
<1>. QED
  BY <1>6, <1>9 DEF Moved, Goes

\* A token a thread has just been given is nowhere else.
LEMMA InflightOnly ==
    ASSUME ~Keyed, Grounds, CustodyInv, NEW a \in Actors, at[a] = "minted"
    PROVE  /\ Whence = "inflight" /\ other = 0 /\ mem[a].got = issued
           /\ row.token # issued /\ seed # issued
           /\ \A o \in Creds : cred[o].refresh # issued
           /\ \A b \in Actors \ {a} : at[b] # "minted" /\ mem[b].got # issued
<1>1. /\ other = 0 /\ mem[a].got = issued /\ row.token < issued
      /\ \A o \in Creds : cred[o].refresh < issued
  BY MintedAlone
<1>2. row.token # issued /\ \A o \in Creds : cred[o].refresh # issued
  BY <1>1, Counts
<1>3. seed # issued
  BY DEF CustodyInv
<1>4. \A b \in Actors \ {a} : at[b] \notin {"minted", "persisted"}
  BY OthersOutside DEF Grounds, Holding, Exchanging
<1>5. \A b \in Actors \ {a} : mem[b].got # issued
  BY <1>4, Counts
<1>6. Whence = "inflight"
  BY <1>1, <1>2, <1>3 DEF Whence, Inflight
<1>. QED
  BY <1>1, <1>2, <1>3, <1>4, <1>5, <1>6

LEMMA AnswerLostMoves ==
    ASSUME ~Keyed, Grounds, CustodyInv, NEW a \in Actors, AnswerLost(a) PROVE Moved
<1>1. /\ at[a] = "minted" /\ Leave(a, "failed") /\ faults' = faults + 1
      /\ UNCHANGED <<row, cred, seed, issued, other>>
  BY DEF AnswerLost, Fault, backendVars
<1>2. PICK p \in {"idle", "failed"} : Goto(a, p, Blank)
  BY <1>1 DEF Leave
<1>3. /\ at'[a] = p /\ mem'[a].got = 0
      /\ \A b \in Actors \ {a} : at'[b] = at[b] /\ mem'[b] = mem[b]
  BY <1>2, Numbers, BlankKnows DEF Goto, Grounds
<1>4. ~Inflight' /\ ~Remembered'
  BY <1>1, <1>3, InflightOnly, Counts DEF Inflight, Remembered
<1>5. Whence' = "lost"
  BY <1>1, <1>4, InflightOnly DEF Whence
<1>6. Failing
  BY <1>1, Counts DEF Failing
<1>. QED
  BY <1>1, <1>5, <1>6, InflightOnly DEF Moved, Goes

LEMMA PersistMoves ==
    ASSUME ~Keyed, Grounds, CustodyInv, NEW a \in Actors, Persist(a) PROVE Moved
<1>1. /\ at[a] = "minted" /\ row' = [row EXCEPT !.token = mem[a].got]
      /\ UNCHANGED <<issued, other>>
  BY DEF Persist, Stored, backendVars
<1>2. row'.token = issued' /\ other' = 0
  BY <1>1, InflightOnly, Numbers DEF Grounds
<1>3. Whence' = "stored"
  BY <1>2 DEF Whence
<1>. QED
  BY <1>1, <1>3, InflightOnly DEF Moved, Goes

\* A failed write: the store's, or shutdown's, which had cut the renewal short.
LEMMA PersistFailsMoves ==
    ASSUME ~Keyed, Grounds, CustodyInv, NEW a \in Actors, PersistFails(a) PROVE Moved
<1>1. /\ at[a] = "minted" /\ Goto(a, "persisted", mem[a])
      /\ UNCHANGED <<row, seed, issued, other>>
      /\ IF StoreOpen THEN Fault ELSE UNCHANGED faults
  BY DEF PersistFails, backendVars
<1>2. /\ at'[a] = "persisted" /\ mem' = mem
      /\ \A b \in Actors \ {a} : at'[b] = at[b]
  BY <1>1, Numbers DEF Goto, Grounds
<1>3. ~Inflight' /\ Remembered'
  <2>1. mem'[a].got = issued'
    BY <1>1, <1>2, InflightOnly
  <2>. QED
    BY <1>1, <1>2, <2>1, InflightOnly DEF Inflight, Remembered
<1>4. Whence' = "memory"
  BY <1>1, <1>3, InflightOnly DEF Whence
<1>5. Failing
  <2>1. CASE StoreOpen
    BY <1>1, <2>1, Counts DEF Fault, Failing
  <2>2. CASE ~StoreOpen
    <3>1. closing # "closed"
      BY <1>1 DEF CustodyInv, Sound, CloseInv, CloseOutlastsRenewal
    <3>. QED
      BY <2>2, <3>1 DEF StoreOpen, HttpOpen, Failing
  <2>. QED
    BY <2>1, <2>2
<1>. QED
  BY <1>1, <1>4, <1>5, InflightOnly DEF Moved, Goes

\* Publishing moves the token within the process.
LEMMA PublishMoves ==
    ASSUME ~Keyed, Grounds, NEW a \in Actors, Publish(a) PROVE Stays
<1>0. /\ at[a] = "persisted" /\ at[a] \in Holding /\ Return(a, mem[a].got)
      /\ UNCHANGED <<row, seed, other, issued>> /\ Held(a) \in Creds
      /\ cred' = [cred EXCEPT ![Held(a)].refresh = mem[a].got, ![Held(a)].access = mem[a].got,
                              ![Held(a)].fresh = TRUE]
  BY DEF Publish, Holding, Exchanging, backendVars, Grounds, Types, ThreadsOK, Held, Aware
<1>1. \A o \in Creds : cred'[o].refresh = mem[a].got
  <2>1. cred \in [Creds -> Fields] /\ \A o \in Creds : o = Held(a)
    BY <1>0, OneObject, Numbers DEF Grounds
  <2>. QED
    BY <1>0, <2>1 DEF Fields
<1>2. PICK p \in {"idle", "use"} : at' = [at EXCEPT ![a] = p]
  BY <1>0 DEF Return, Leave, Goto
<1>3. \A b \in Actors : mem'[b].got = IF b = a THEN 0 ELSE mem[b].got
  <2>1. PICK m : mem' = [mem EXCEPT ![a] = m] /\ m.got = 0
    <3>1. CASE a \in Keepers
      BY <1>0, <3>1, BlankKnows DEF Return, Leave, Goto
    <3>2. CASE a \notin Keepers
      <4>. DEFINE m == [Blank EXCEPT !.obj = Held(a), !.use = mem[a].got, !.again = mem[a].again]
      <4>1. m.got = 0 /\ mem' = [mem EXCEPT ![a] = m]
        BY <1>0, <3>2 DEF Return, Goto, Blank
      <4>. HIDE DEF m
      <4>. QED
        BY <4>1
    <3>. QED
      BY <3>1, <3>2
  <2>. QED
    BY <2>1, Numbers DEF Grounds
<1>4. Inflight' <=> Inflight
  BY <1>0, <1>2, Numbers DEF Inflight, Grounds
<1>5. \A b \in Actors \ {a} : mem[b].got # issued
  BY <1>0, OthersOutside, Counts DEF Grounds
<1>6. \A o \in Creds : cred[o].refresh = issued => mem[a].got = issued
  <2>1. \A o \in Creds : cred[o].refresh <= mem[a].got
    BY <1>0 DEF Grounds, Ordered, Placed
  <2>. QED
    BY <2>1, Counts
<1>7. Remembered <=> mem[a].got = issued
  BY <1>5, <1>6 DEF Remembered
<1>8. Remembered' <=> mem[a].got = issued
  BY <1>0, <1>1, <1>3, <1>5, Counts DEF Remembered
<1>. QED
  BY <1>0, <1>4, <1>7, <1>8 DEF Stays, Whence

\* The late write stores the live token, unless the process had lost it.
LEMMA RewriteMoves ==
    ASSUME ~Keyed, Grounds, CustodyInv, NEW k \in Actors, Rewrite(k) PROVE Moved
<1>. DEFINE m == [mem[k] EXCEPT !.show = 0]
<1>0. /\ at[k] = "retry" /\ at[k] \in Holding /\ Goto(k, "due", m) /\ mem[k] \in Locals
      /\ UNCHANGED <<seed, other, live, issued>> /\ Held(k) \in Creds /\ mem[k].got = 0
  BY DEF Rewrite, Holding, Exchanging, backendVars, Grounds, Types, ThreadsOK, Held, Aware,
         Safe, ActorOK
<1>1. m.got = 0
  BY <1>0 DEF Locals
<1>. HIDE DEF m
<1>2. /\ at'[k] = "due" /\ mem'[k] = m
      /\ \A b \in Actors \ {k} : at'[b] = at[b] /\ mem'[b] = mem[b]
  BY <1>0, Numbers DEF Goto, Grounds
<1>3. (Inflight' <=> Inflight) /\ \A b \in Actors : mem'[b].got = mem[b].got
  BY <1>0, <1>1, <1>2 DEF Inflight
<1>4. CASE UNCHANGED <<row, cred>>
  <2>1. Motionless
    BY <1>0, <1>4 DEF Motionless, SameObject
  <2>. QED
    BY <1>3, <2>1, NothingMoves DEF Moved
<1>5. CASE /\ row' = [row EXCEPT !.token = mem[k].show]
           /\ cred' = [cred EXCEPT ![Held(k)].unpersisted = FALSE]
  <2>1. \A o \in Creds : o = Held(k) /\ cred[o].unpersisted /\ mem[k].show = cred[o].refresh
    BY <1>0, OneObject DEF Grounds, Ordered, Placed, Safe, ActorOK, Held
  <2>2. other = 0 /\ seed # issued
    BY <1>0, <2>1 DEF Grounds, Ordered, Elsewhere, CustodyInv
  <2>3. \A b \in Actors : at[b] \notin {"minted", "persisted"}
    BY <1>0, OthersOutside DEF Grounds
  <2>4. ~Inflight /\ \A b \in Actors : mem[b].got # issued
    BY <2>3, Counts DEF Inflight
  <2>5. row.token < cred[Held(k)].refresh
    BY <1>0, <2>1, <2>3 DEF Grounds, Ordered, Owed
  <2>6. row.token # issued
    BY <1>0, <2>5, Counts
  <2>7. cred'[Held(k)].refresh = cred[Held(k)].refresh /\ row'.token = cred[Held(k)].refresh
    BY <1>0, <1>5, <2>1, Numbers DEF Grounds, Fields
  <2>8. Remembered <=> cred[Held(k)].refresh = issued
    BY <1>0, <2>1, <2>4 DEF Remembered
  <2>9. Remembered' <=> cred[Held(k)].refresh = issued
    BY <1>0, <1>3, <2>1, <2>4, <2>7 DEF Remembered
  <2>10. CASE cred[Held(k)].refresh = issued
    <3>1. Whence = "memory" /\ Whence' = "stored"
      BY <1>0, <2>2, <2>4, <2>6, <2>7, <2>8, <2>10 DEF Whence
    <3>. QED
      BY <3>1 DEF Moved, Goes
  <2>11. CASE cred[Held(k)].refresh # issued
    <3>1. Whence = "lost" /\ Whence' = "lost"
      BY <1>0, <1>3, <2>2, <2>4, <2>6, <2>7, <2>8, <2>9, <2>11 DEF Whence
    <3>. QED
      BY <3>1 DEF Moved, Stays
  <2>. QED
    BY <2>10, <2>11
<1>. QED
  BY <1>4, <1>5 DEF Rewrite, Stored

LEMMA ThreadMoves ==
    ASSUME ~Keyed, Grounds, CustodyInv, NEW a \in Actors, Begin(a) \/ Step(a) PROVE Moved
<1>1. CASE Motionless /\ Modestly(a) /\ at[a] \notin {"minted", "persisted"}
  BY <1>1, QuietStays DEF Moved
<1>. QED
  BY <1>1, QuietModestly, RotateMoves, AnswerLostMoves, PersistMoves, PersistFailsMoves,
     PublishMoves, RewriteMoves DEF Step, Exchange, Moved

\* Another process takes the stored token, and gives its successor back or loses it.
LEMMA OtherMoves == ASSUME ~Keyed, Grounds, Other PROVE Moved
<1>1. CASE OtherRenews
  <2>1. /\ other = 0 /\ row.token = issued /\ other' # 0
    BY <1>1, Counts DEF OtherRenews, Spend
  <2>2. Whence = "stored" /\ Whence' = "elsewhere"
    BY <2>1 DEF Whence
  <2>. QED
    BY <2>2 DEF Moved, Goes
<1>2. CASE OtherStores
  <2>1. row # None /\ other # 0 /\ other' = 0 /\ UNCHANGED issued
    BY <1>2 DEF OtherStores, backendVars, Grounds, Types, StoreOK
  <2>2. row'.token = issued
    BY <1>2, <2>1, Behind, Numbers DEF OtherStores, Grounds
  <2>3. Whence = "elsewhere" /\ Whence' = "stored"
    BY <2>1, <2>2 DEF Whence
  <2>. QED
    BY <2>3 DEF Moved, Goes
<1>3. CASE OtherDies
  <2>1. /\ other # 0 /\ other' = 0 /\ faults' = faults + 1
        /\ UNCHANGED <<row, cred, at, mem, seed, issued>>
    BY <1>3 DEF OtherDies, Fault, threadVars, backendVars
  <2>2. ~Inflight' /\ ~Remembered'
    BY <2>1, Behind, Counts DEF Inflight, Remembered
  <2>3. row.token # issued /\ seed # issued
    BY <2>1, Behind, Counts
  <2>4. Whence = "elsewhere" /\ Whence' = "lost"
    BY <2>1, <2>2, <2>3 DEF Whence
  <2>5. Failing
    BY <2>1, Counts DEF Failing
  <2>. QED
    BY <2>4, <2>5 DEF Moved, Goes
<1>. QED
  BY <1>1, <1>2, <1>3 DEF Other

\* A new process finds what is stored or configured, and nothing of what was in memory.
LEMMA RestartMoves == ASSUME ~Keyed, Grounds, Restart \/ Reprovision PROVE Moved
<1>1. /\ \A o \in Creds : cred'[o].refresh = row.token
      /\ \A a \in Actors : at'[a] = "idle" /\ mem'[a].got = 0
      /\ UNCHANGED <<row, other>>
  BY BlankKnows DEF Restart, Reprovision, Boot, Unused
<1>2. ~Inflight'
  BY <1>1 DEF Inflight
<1>3. CASE Restart
  <2>1. UNCHANGED <<seed, issued>> /\ faults' = faults + 1
    BY <1>3 DEF Restart, Fault, backendVars
  <2>2. CASE other # 0 \/ row.token = issued \/ seed = issued
    <3>1. Stays
      BY <1>1, <2>1, <2>2 DEF Stays, Whence
    <3>. QED
      BY <3>1 DEF Moved
  <2>3. CASE other = 0 /\ row.token # issued /\ seed # issued
    <3>1. ~Remembered'
      BY <1>1, <2>1, <2>3, Counts DEF Remembered
    <3>2. Whence' = "lost"
      BY <1>1, <1>2, <2>1, <2>3, <3>1 DEF Whence
    <3>3. Whence \in {"inflight", "memory", "lost"}
      BY <2>3 DEF Whence
    <3>4. Failing
      BY <2>1, Counts DEF Failing
    <3>. QED
      BY <3>2, <3>3, <3>4 DEF Moved, Goes, Stays
  <2>. QED
    BY <2>2, <2>3
<1>4. CASE Reprovision
  <2>1. issued' = issued + 1 /\ seed' = issued + 1 /\ live \intersect Reachable = {}
    BY <1>4 DEF Reprovision, LockedOut
  <2>2. other = 0 /\ row.token # issued /\ seed # issued
    <3>1. row.token \in Reachable /\ seed \in Reachable /\ other \in Reachable
      BY DEF Reachable, Grounds, Types, StoreOK
    <3>. QED
      BY <2>1, <3>1, Counts, Behind
  <2>3. ~Remembered
    BY <2>1, <2>2, LiveReachable
  <2>4. ~Inflight
    BY <2>3, MintedAlone DEF Inflight, Remembered
  <2>5. Whence = "lost"
    BY <2>2, <2>3, <2>4 DEF Whence
  <2>6. row'.token # issued'
    BY <1>1, <2>1, Counts
  <2>7. Whence' = "seed"
    BY <1>1, <2>1, <2>2, <2>6 DEF Whence
  <2>. QED
    BY <2>5, <2>7 DEF Moved, Goes
<1>. QED
  BY <1>3, <1>4

LEMMA StepMoves == ASSUME ~Keyed, Grounds, CustodyInv, [Next]_vars PROVE Moved
<1>1. CASE Threads
  BY <1>1, ThreadMoves DEF Threads, Actors
<1>2. ASSUME NEW o \in Creds, Expire(o) PROVE Moved
  <2>1. SameObject
    BY <1>2 DEF Expire, SameObject, Grounds, Types, StoreOK, Fields
  <2>2. Motionless /\ UNCHANGED threadVars
    BY <1>2, <2>1 DEF Expire, Motionless, backendVars
  <2>. QED
    BY <2>2, StillStays DEF Moved
<1>3. CASE BeginShutdown \/ CloseWaits \/ Close \/ UNCHANGED vars
  <2>1. Motionless /\ UNCHANGED threadVars
    BY <1>3 DEF BeginShutdown, CloseWaits, Close, vars, backendVars, Motionless, SameObject
  <2>. QED
    BY <2>1, StillStays DEF Moved
<1>. QED
  BY <1>1, <1>2, <1>3, OtherMoves, RestartMoves DEF Next

\* Rotation keeps custody of the default's live token, for any number of threads, tokens
\* and failures: what is stored stays recoverable, and the live token leaves safe hands
\* only by a failure or a shutdown that cut a renewal short (_exchange_refresh_token,
\* _persist, _alternative_credentials).
THEOREM CustodyKept == ASSUME ~Keyed PROVE Spec => ImplementsTokenCustody
<1>1. Init => Grounds /\ CustodyInv
  BY InitGrounds, InitCustody
<1>2. Grounds /\ CustodyInv /\ [Next]_vars => Grounds' /\ CustodyInv'
  BY StepGrounds, StepCustody
<1>3. Grounds => AtWhence
  BY WhereIs
<1>4. Init => Custody!Init
  <2>1. SUFFICES ASSUME Init PROVE Where = "stored"
    BY DEF Custody!Init
  <2>2. row.token = 1 /\ issued = 1 /\ other = 0
    BY <2>1 DEF Init
  <2>. QED
    BY <2>1, <2>2, InitGrounds, WhereIs DEF AtWhence, Whence
<1>5. Grounds /\ CustodyInv /\ AtWhence /\ AtWhence' /\ [Next]_vars => [Custody!Next]_Where
  <2>1. SUFFICES ASSUME Grounds, CustodyInv, AtWhence, AtWhence', [Next]_vars
                 PROVE  [Custody!Next]_Where
    OBVIOUS
  <2>2. Where = Whence /\ Where' = Whence'
    BY <2>1 DEF AtWhence
  <2>3. Moved
    BY <2>1, StepMoves
  <2>. QED
    BY <2>2, <2>3 DEF Moved, Stays, Goes, Failing, Custody!Next, Custody!Renew, Custody!Keep,
       Custody!Degrade, Custody!Heal, Custody!Take, Custody!Return, Custody!Lose,
       Custody!Provision, Custody!Moves, Custody!Harmed
<1>. QED
  BY <1>1, <1>2, <1>3, <1>4, <1>5, PTL DEF Spec, ImplementsTokenCustody, Custody!Spec
=============================================================================
