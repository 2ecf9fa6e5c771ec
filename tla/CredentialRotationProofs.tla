----------------------- MODULE CredentialRotationProofs -----------------------
(***************************************************************************)
(* What CredentialRotation's runs check on two threads and the keepalive,  *)
(* for any number of threads, tokens and failures.                         *)
(***************************************************************************)
EXTENDS CredentialRotation, TLAPS

-----------------------------------------------------------------------------
(* Types.  TypeOK lets a thread that works on a credential hold none, and the *)
(* default's row be gone; neither happens.                                   *)

Places == {"idle", "read", "insert", "look", "tick", "due", "queue", "wait", "use"}
          \union Holding \union Ended
Allowed(a) == {p \in Places : /\ a \in Turns => p \notin {"tick", "due", "retry"}
                              /\ a \in Keepers => p \notin {"look", "use"} \union Ended}
Aware  == {"look", "tick", "due", "queue", "wait", "use"} \union Holding
Locals == [obj : Creds \union {None}, rec : Rows, seen : Tokens,
           intended : Tokens, show : Tokens, alternative : BOOLEAN,
           left : Seq(Tokens), got : Tokens, use : Tokens, again : BOOLEAN]
Fields == [refresh : Tokens, ent : Enterprises \union {None}, access : Tokens,
           fresh : BOOLEAN, unpersisted : BOOLEAN]

\* Each thread is where it may be, and holds an object from its look-up on.
ThreadsOK ==
    /\ at \in [Actors -> Places] /\ \A a \in Actors : at[a] \in Allowed(a)
    /\ mem \in [Actors -> Locals]
    /\ \A a \in Actors : at[a] \in Aware => mem[a].obj \in Creds

StoreOK ==
    /\ row \in Rows /\ (~Keyed => row # None)
    /\ cred \in [Creds -> Fields]
    /\ lock \in [Creds -> Actors \union {None}]
    /\ cached \in Creds \union {None}
    /\ seed \in Tokens

WorldOK ==
    /\ closing \in {"running", "stopping", "waiting", "spent", "closed", "cut"}
    /\ drain \subseteq Creds
    /\ live \subseteq Tokens /\ issued \in Tokens
    /\ origin \in [Tokens -> Enterprises]
    /\ other \in Tokens
    /\ faults \in 0..MaxFaults

Types == ThreadsOK /\ StoreOK /\ WorldOK

LEMMA TypesTyped == Types => TypeOK
BY DEF Types, ThreadsOK, StoreOK, WorldOK, TypeOK, Places, Allowed, Locals, Fields, Actors

LEMMA TokenZero == 0 \in Tokens /\ 1 \in Tokens
BY RotationAssumption DEF Tokens

LEMMA BlankTyped == Blank \in Locals
BY TokenZero DEF Blank, Locals, Rows

LEMMA UnusedTyped == Unused \in Fields
BY TokenZero DEF Unused, Fields

\* A thread that goes where it may, with locals that are locals.
LEMMA GotoKeeps ==
    ASSUME ThreadsOK, NEW a \in Actors, NEW p \in Allowed(a), NEW m \in Locals,
           p \in Aware => m.obj \in Creds, Goto(a, p, m)
    PROVE  ThreadsOK'
<1>1. /\ at' = [at EXCEPT ![a] = p] /\ mem' = [mem EXCEPT ![a] = m]
      /\ p \in Places
  BY DEF Goto, Allowed
<1>2. at' \in [Actors -> Places] /\ mem' \in [Actors -> Locals]
  BY <1>1 DEF ThreadsOK
<1>3. \A b \in Actors : at'[b] \in Allowed(b)
  BY <1>1 DEF ThreadsOK
<1>4. \A b \in Actors : at'[b] \in Aware => mem'[b].obj \in Creds
  BY <1>1 DEF ThreadsOK
<1>. QED
  BY <1>2, <1>3, <1>4 DEF ThreadsOK

LEMMA LeaveKeeps ==
    ASSUME ThreadsOK, NEW a \in Actors, NEW p \in Ended, Leave(a, p)
    PROVE  ThreadsOK'
<1>1. CASE a \in Keepers
  <2>1. "idle" \in Allowed(a) /\ "idle" \notin Aware
    BY <1>1 DEF Allowed, Places, Aware, Ended, Holding, Exchanging
  <2>2. Goto(a, "idle", Blank)
    BY <1>1 DEF Leave
  <2>. QED
    BY <2>1, <2>2, BlankTyped, GotoKeeps
<1>2. CASE a \notin Keepers
  <2>1. p \in Allowed(a) /\ p \notin Aware
    BY <1>2 DEF Allowed, Places, Aware, Ended, Holding, Exchanging
  <2>2. Goto(a, p, Blank)
    BY <1>2 DEF Leave
  <2>. QED
    BY <2>1, <2>2, BlankTyped, GotoKeeps
<1>. QED
  BY <1>1, <1>2

LEMMA ReturnKeeps ==
    ASSUME ThreadsOK, NEW a \in Actors, at[a] \in Aware, NEW t \in Tokens, Return(a, t)
    PROVE  ThreadsOK'
<1>1. CASE a \in Keepers
  BY <1>1, LeaveKeeps DEF Return, Ended
<1>2. CASE a \notin Keepers
  <2>. DEFINE m == [Blank EXCEPT !.obj = Held(a), !.use = t, !.again = mem[a].again]
  <2>1. Held(a) \in Creds /\ mem[a].again \in BOOLEAN
    BY DEF ThreadsOK, Locals, Held
  <2>2. m \in Locals /\ m.obj \in Creds
    BY <2>1, BlankTyped DEF Locals, Blank
  <2>3. "use" \in Allowed(a)
    BY <1>2 DEF Allowed, Places
  <2>4. Goto(a, "use", m)
    BY <1>2 DEF Return
  <2>. HIDE DEF m
  <2>. QED
    BY <2>2, <2>3, <2>4, GotoKeeps
<1>. QED
  BY <1>1, <1>2

LEMMA InitTyped == Init => Types
<1>. SUFFICES ASSUME Init PROVE Types
  OBVIOUS
<1>1. ThreadsOK
  <2>1. \A a \in Actors : "idle" \in Allowed(a) /\ "idle" \notin Aware
    BY DEF Allowed, Places, Aware, Ended, Holding, Exchanging
  <2>. QED
    BY <2>1, BlankTyped DEF Init, ThreadsOK, Places
<1>2. StoreOK
  <2>1. PICK e \in Enterprises : row = [token |-> 1, ent |-> e]
    BY DEF Init
  <2>2. row \in Rows /\ row # None
    BY <2>1, TokenZero, RotationAssumption DEF Rows, Tokens
  <2>3. [Unused EXCEPT !.refresh = 1] \in Fields
    BY UnusedTyped, TokenZero DEF Fields, Unused
  <2>4. cred \in [Creds -> Fields] /\ cached \in Creds \union {None} /\ seed \in Tokens
    BY <2>3, UnusedTyped, TokenZero DEF Init
  <2>. QED
    BY <2>2, <2>4 DEF Init, StoreOK
<1>3. WorldOK
  BY TokenZero, RotationAssumption DEF Init, WorldOK
<1>. QED
  BY <1>1, <1>2, <1>3 DEF Types

\* The steps that only move a thread, and may take or free a lock.
LEMMA FirstLookKeeps ==
    ASSUME Types, NEW a \in Actors, at[a] = "idle", FirstLook(a)
    PROVE  ThreadsOK'
<1>1. CASE cached # None /\ Resolved(a, cached)
  <2>. DEFINE p == IF a \in Keepers THEN "tick" ELSE "look"
              m == [mem[a] EXCEPT !.obj = cached, !.rec = None]
  <2>1. cached \in Creds /\ mem[a] \in Locals
    BY <1>1 DEF Types, StoreOK, ThreadsOK
  <2>2. m \in Locals /\ m.obj \in Creds
    BY <2>1 DEF Locals, Rows
  <2>3. p \in Allowed(a)
    BY RotationAssumption DEF Allowed, Places, Actors, Ended
  <2>4. Goto(a, p, m)
    BY <1>1 DEF Resolved
  <2>. HIDE DEF p, m
  <2>. QED
    BY <2>2, <2>3, <2>4, GotoKeeps DEF Types
<1>2. CASE Goto(a, "read", mem[a])
  <2>1. "read" \in Allowed(a) /\ "read" \notin Aware /\ mem[a] \in Locals
    BY DEF Types, ThreadsOK, Allowed, Places, Aware, Ended, Holding, Exchanging
  <2>. QED
    BY <1>2, <2>1, GotoKeeps DEF Types
<1>. QED
  BY <1>1, <1>2 DEF FirstLook

\* A lock given back or taken is a lock.
LEMMA ReleaseTyped == ASSUME Types, NEW a \in Actors, Release(a)
                      PROVE  lock' \in [Creds -> Actors \union {None}]
BY DEF Types, StoreOK, Release

LEMMA WaitedTyped ==
    ASSUME Types, Waited
    PROVE  closing' \in {"running", "stopping", "waiting", "spent", "closed", "cut"}
BY DEF Types, WorldOK, Waited

LEMMA FaultTyped == ASSUME Types, Fault PROVE faults' \in 0..MaxFaults
BY RotationAssumption DEF Types, WorldOK, Fault

LEMMA SpendTyped ==
    ASSUME Types, NEW t \in Tokens, Spend(t)
    PROVE  /\ issued' = issued + 1 /\ issued' \in Tokens /\ issued + 1 \in Tokens
           /\ live' \subseteq Tokens
           /\ origin' \in [Tokens -> Enterprises]
<1>1. issued' = issued + 1 /\ issued + 1 \in Tokens
  BY RotationAssumption DEF Types, WorldOK, Spend, Tokens
<1>2. live' \subseteq Tokens
  BY <1>1 DEF Types, WorldOK, Spend
<1>3. origin' \in [Tokens -> Enterprises]
  BY <1>1 DEF Types, WorldOK, Spend
<1>. QED
  BY <1>1, <1>2, <1>3

\* Where a thread works on a credential, it holds an object, whose fields are typed.
LEMMA MineTyped ==
    ASSUME Types, NEW a \in Actors, at[a] \in Aware
    PROVE  /\ Held(a) \in Creds /\ Mine(a) \in Fields /\ mem[a] \in Locals
           /\ Mine(a).refresh \in Tokens /\ Mine(a).access \in Tokens
BY DEF Types, ThreadsOK, StoreOK, Held, Mine, Fields

-----------------------------------------------------------------------------
LEMMA BeginTyped ==
    ASSUME Types, NEW a \in Actors, Begin(a) \/ Wake(a)
    PROVE  Types'
<1>1. ThreadsOK'
  BY FirstLookKeeps DEF Begin, Wake
<1>2. UNCHANGED <<row, cred, lock, cached, seed, shutVars, backendVars, other, faults>>
  BY DEF Begin, Wake
<1>. QED
  BY <1>1, <1>2 DEF Types, StoreOK, WorldOK, shutVars, backendVars

LEMMA LookTyped == ASSUME Types, NEW a \in Turns, Look(a) PROVE Types'
<1>. DEFINE m == [mem[a] EXCEPT !.seen = Mine(a).access]
<1>0. a \in Actors /\ at[a] \in Aware
  BY DEF Look, Actors, Aware
<1>1. m \in Locals /\ m.obj \in Creds
  BY <1>0, MineTyped DEF Locals, Held
<1>2. "queue" \in Allowed(a)
  BY DEF Allowed, Places, Ended
<1>3. ThreadsOK'
  <2>1. CASE Return(a, Mine(a).access)
    BY <1>0, <2>1, MineTyped, ReturnKeeps DEF Types
  <2>2. CASE Goto(a, "queue", m)
    <3>. HIDE DEF m
    <3>. QED
      BY <1>0, <1>1, <1>2, <2>2, GotoKeeps DEF Types
  <2>. QED
    BY <2>1, <2>2 DEF Look
<1>4. UNCHANGED <<row, cred, lock, cached, seed, shutVars, backendVars, other, faults>>
  BY DEF Look
<1>. QED
  BY <1>3, <1>4 DEF Types, StoreOK, WorldOK, shutVars, backendVars

LEMMA QueueTyped == ASSUME Types, NEW a \in Actors, Queue(a) PROVE Types'
<1>. DEFINE m == [mem[a] EXCEPT !.intended = Mine(a).refresh]
<1>0. at[a] \in Aware
  BY DEF Queue, Aware
<1>1. m \in Locals /\ m.obj \in Creds
  BY <1>0, MineTyped DEF Locals, Held
<1>2. "wait" \in Allowed(a)
  BY DEF Allowed, Places, Ended
<1>3. Goto(a, "wait", m)
  BY DEF Queue
<1>4. ThreadsOK'
  <2>. HIDE DEF m
  <2>. QED
    BY <1>1, <1>2, <1>3, GotoKeeps DEF Types
<1>5. UNCHANGED <<row, cred, lock, cached, seed, shutVars, backendVars, other, faults>>
  BY DEF Queue
<1>. QED
  BY <1>4, <1>5 DEF Types, StoreOK, WorldOK, shutVars, backendVars

LEMMA TakeLockTyped == ASSUME Types, NEW a \in Actors, TakeLock(a) PROVE Types'
<1>. DEFINE m == [Blank EXCEPT !.obj = Held(a), !.show = Mine(a).refresh, !.again = mem[a].again]
<1>0. at[a] \in Aware
  BY DEF TakeLock, Aware
<1>1. m \in Locals /\ m.obj \in Creds
  BY <1>0, MineTyped, BlankTyped DEF Locals, Blank
<1>2. "post" \in Allowed(a)
  BY DEF Allowed, Places, Ended, Holding, Exchanging
<1>3. ThreadsOK' /\ lock' \in [Creds -> Actors \union {None}]
  <2>1. CASE Return(a, Mine(a).access) /\ UNCHANGED lock
    BY <1>0, <2>1, MineTyped, ReturnKeeps DEF Types, StoreOK
  <2>2. CASE lock' = [lock EXCEPT ![Held(a)] = a] /\ Goto(a, "post", m)
    <3>1. lock' \in [Creds -> Actors \union {None}]
      BY <2>2 DEF Types, StoreOK
    <3>. HIDE DEF m
    <3>. QED
      BY <1>1, <1>2, <2>2, <3>1, GotoKeeps DEF Types
  <2>. QED
    BY <2>1, <2>2 DEF TakeLock
<1>4. UNCHANGED <<row, cred, cached, seed, shutVars, backendVars, other, faults>>
  BY DEF TakeLock
<1>. QED
  BY <1>3, <1>4 DEF Types, StoreOK, WorldOK, shutVars, backendVars

LEMMA RotateTyped == ASSUME Types, NEW a \in Actors, Rotate(a) PROVE Types'
<1>. DEFINE m == [mem[a] EXCEPT !.got = issued + 1, !.show = 0, !.left = <<>>,
                                !.alternative = FALSE]
<1>0. at[a] \in Aware
  BY DEF Rotate, Aware, Holding, Exchanging
<1>1. mem[a] \in Locals /\ mem[a].obj \in Creds /\ mem[a].show \in Tokens
  BY <1>0, MineTyped DEF Locals, Held
<1>2. /\ issued' \in Tokens /\ issued + 1 \in Tokens /\ live' \subseteq Tokens
      /\ origin' \in [Tokens -> Enterprises]
  BY <1>1, SpendTyped DEF Rotate
<1>3. m \in Locals /\ m.obj \in Creds
  <2>1. <<>> \in Seq(Tokens)
    OBVIOUS
  <2>. QED
    BY <1>1, <1>2, <2>1, TokenZero DEF Locals
<1>4. "minted" \in Allowed(a)
  BY DEF Allowed, Places, Ended, Holding, Exchanging
<1>5. Goto(a, "minted", m)
  BY DEF Rotate
<1>6. ThreadsOK'
  <2>. HIDE DEF m
  <2>. QED
    BY <1>3, <1>4, <1>5, GotoKeeps DEF Types
<1>7. UNCHANGED <<row, cred, lock, cached, seed, shutVars, other, faults>>
  BY DEF Rotate
<1>. QED
  BY <1>2, <1>6, <1>7 DEF Types, StoreOK, WorldOK, shutVars

\* An exchange that fails: the thread leaves and gives the lock back.
LEMMA FailTyped ==
    ASSUME Types, NEW a \in Actors, Leave(a, "failed"), Release(a), Waited,
           UNCHANGED <<row, cred, cached, seed, drain, backendVars, other>>,
           faults' \in 0..MaxFaults
    PROVE  Types'
<1>1. ThreadsOK'
  BY LeaveKeeps DEF Types, Ended
<1>2. StoreOK'
  BY ReleaseTyped DEF Types, StoreOK
<1>3. WorldOK'
  BY WaitedTyped DEF Types, WorldOK, backendVars
<1>. QED
  BY <1>1, <1>2, <1>3 DEF Types

LEMMA AnswerLostTyped == ASSUME Types, NEW a \in Actors, AnswerLost(a) PROVE Types'
BY FailTyped, FaultTyped DEF AnswerLost

LEMMA UnreachedTyped == ASSUME Types, NEW a \in Actors, Unreached(a) PROVE Types'
<1>1. faults' \in 0..MaxFaults
  BY FaultTyped DEF Unreached, Types, WorldOK
<1>. QED
  BY <1>1, FailTyped DEF Unreached

LEMMA RefusedTyped == ASSUME Types, NEW a \in Actors, Refused(a) PROVE Types'
<1>0. at[a] \in Aware
  BY DEF Refused, Aware, Holding, Exchanging
<1>1. mem[a] \in Locals /\ mem[a].obj \in Creds /\ mem[a].left \in Seq(Tokens)
  BY <1>0, MineTyped DEF Locals, Held
<1>2. "alternatives" \in Allowed(a) /\ "post" \in Allowed(a)
  BY DEF Allowed, Places, Ended, Holding, Exchanging
<1>3. CASE Leave(a, "failed") /\ Release(a)
  <2>1. faults' \in 0..MaxFaults
    BY DEF Refused, Types, WorldOK
  <2>. QED
    BY <1>3, <2>1, FailTyped DEF Refused
<1>4. CASE Goto(a, "alternatives", [mem[a] EXCEPT !.alternative = TRUE]) /\ UNCHANGED lock
  <2>. DEFINE m == [mem[a] EXCEPT !.alternative = TRUE]
  <2>1. m \in Locals /\ m.obj \in Creds
    BY <1>1 DEF Locals
  <2>2. Goto(a, "alternatives", m)
    BY <1>4
  <2>3. ThreadsOK'
    <3>. HIDE DEF m
    <3>. QED
      BY <1>2, <2>1, <2>2, GotoKeeps DEF Types
  <2>. QED
    BY <1>4, <2>3, WaitedTyped DEF Refused, Types, StoreOK, WorldOK, backendVars
<1>5. CASE /\ mem[a].left # <<>> /\ UNCHANGED lock
           /\ Goto(a, "post", [mem[a] EXCEPT !.show = Head(mem[a].left), !.left = Tail(@)])
  <2>. DEFINE m == [mem[a] EXCEPT !.show = Head(mem[a].left), !.left = Tail(mem[a].left)]
  <2>1. Head(mem[a].left) \in Tokens /\ Tail(mem[a].left) \in Seq(Tokens)
    BY <1>1, <1>5
  <2>2. m \in Locals /\ m.obj \in Creds
    BY <1>1, <2>1 DEF Locals
  <2>3. Goto(a, "post", m)
    BY <1>5
  <2>4. ThreadsOK'
    <3>. HIDE DEF m
    <3>. QED
      BY <1>2, <2>2, <2>3, GotoKeeps DEF Types
  <2>. QED
    BY <1>5, <2>4, WaitedTyped DEF Refused, Types, StoreOK, WorldOK, backendVars
<1>. QED
  BY <1>3, <1>4, <1>5 DEF Refused

\* The alternatives are tokens.
LEMMA CandidatesTyped ==
    ASSUME Types, NEW a \in Actors, NEW t \in Tokens
    PROVE  Candidates(a, t) \in Seq(Tokens)
<1>1. ASSUME NEW u \in Tokens, NEW S PROVE Unless(u, S) \in Seq(Tokens)
  BY DEF Unless
<1>2. seed \in Tokens
  BY DEF Types, StoreOK
<1>3. /\ Unless(t, {0, Mine(a).refresh}) \in Seq(Tokens)
      /\ Unless(seed, {0, Mine(a).refresh, t}) \in Seq(Tokens)
  BY <1>1, <1>2
<1>. QED
  BY <1>3 DEF Candidates

LEMMA AlternativesTyped == ASSUME Types, NEW a \in Actors, Alternatives(a) PROVE Types'
<1>0. at[a] \in Aware
  BY DEF Alternatives, Aware, Holding, Exchanging
<1>1. mem[a] \in Locals /\ mem[a].obj \in Creds /\ Held(a) \in Creds
  BY <1>0, MineTyped DEF Locals, Held
<1>2. "post" \in Allowed(a)
  BY DEF Allowed, Places, Ended, Holding, Exchanging
<1>3. PICK readable \in {TRUE, FALSE} :
        LET stored == IF readable /\ row # None THEN row.token ELSE 0
            left   == Candidates(a, stored) IN
        /\ IF readable THEN StoreOpen /\ UNCHANGED faults
           ELSE IF StoreOpen THEN Fault ELSE UNCHANGED faults
        /\ cached' = IF readable /\ row = None THEN None ELSE cached
        /\ cred' = IF readable /\ row # None /\ Keyed
                   THEN [cred EXCEPT ![Held(a)].ent = Adopted(a, row.ent)] ELSE cred
        /\ IF left = <<>>
           THEN Leave(a, "failed") /\ Release(a)
           ELSE /\ Goto(a, "post", [mem[a] EXCEPT !.show = Head(left), !.left = Tail(left)])
                /\ UNCHANGED lock
  BY DEF Alternatives
<1>. DEFINE stored == IF readable /\ row # None THEN row.token ELSE 0
            left   == Candidates(a, stored)
            m      == [mem[a] EXCEPT !.show = Head(left), !.left = Tail(left)]
<1>4. stored \in Tokens /\ (row # None => row.ent \in Enterprises)
  BY TokenZero DEF Types, StoreOK, Rows
<1>5. left \in Seq(Tokens)
  <2>. HIDE DEF stored
  <2>. QED
    BY <1>4, CandidatesTyped
<1>6. faults' \in 0..MaxFaults
  BY <1>3, FaultTyped DEF Types, WorldOK
<1>7. cached' \in Creds \union {None} /\ cred' \in [Creds -> Fields]
  <2>1. CASE readable /\ row # None /\ Keyed
    <3>1. cred' = [cred EXCEPT ![Held(a)].ent = row.ent]
      BY <1>3, <2>1 DEF Adopted
    <3>2. [cred[Held(a)] EXCEPT !.ent = row.ent] \in Fields
      BY <1>1, <1>4, <2>1 DEF Types, StoreOK, Fields
    <3>3. cred' \in [Creds -> Fields]
      BY <1>1, <3>1, <3>2 DEF Types, StoreOK
    <3>. QED
      BY <1>3, <3>3 DEF Types, StoreOK
  <2>2. CASE ~(readable /\ row # None /\ Keyed)
    BY <1>3, <2>2 DEF Types, StoreOK
  <2>. QED
    BY <2>1, <2>2
<1>8. ThreadsOK' /\ lock' \in [Creds -> Actors \union {None}]
  <2>1. CASE left = <<>>
    BY <1>3, <2>1, LeaveKeeps, ReleaseTyped DEF Types, Ended
  <2>2. CASE left # <<>>
    <3>1. Head(left) \in Tokens /\ Tail(left) \in Seq(Tokens)
      <4>. HIDE DEF left
      <4>. QED
        BY <1>5, <2>2
    <3>2. m \in Locals /\ m.obj \in Creds
      <4>. HIDE DEF left
      <4>. QED
        BY <1>1, <3>1 DEF Locals
    <3>3. Goto(a, "post", m) /\ UNCHANGED lock
      BY <1>3, <2>2
    <3>. HIDE DEF m
    <3>. QED
      BY <1>2, <3>2, <3>3, GotoKeeps DEF Types, StoreOK
  <2>. QED
    BY <2>1, <2>2
<1>9. UNCHANGED <<row, seed, shutVars, backendVars, other>>
  BY DEF Alternatives
<1>. QED
  BY <1>6, <1>7, <1>8, <1>9 DEF Types, StoreOK, WorldOK, shutVars, backendVars

\* A write to the store leaves a row.
LEMMA StoredTyped ==
    ASSUME Types, NEW t \in Tokens, Stored(t)
    PROVE  row' \in Rows /\ row' # None
<1>1. row \in [token : Tokens, ent : Enterprises] /\ row' = [row EXCEPT !.token = t]
  BY DEF Stored, Types, StoreOK, Rows
<1>2. row' \in [token : Tokens, ent : Enterprises]
  BY <1>1
<1>3. row' \in [token : Nat, ent : Enterprises]
  BY <1>2 DEF Tokens
<1>. QED
  BY <1>2, <1>3, RotationAssumption DEF Rows

\* A field of the object a thread works on.
LEMMA FlagTyped ==
    ASSUME Types, NEW a \in Actors, at[a] \in Aware, NEW f \in BOOLEAN,
           cred' = [cred EXCEPT ![Held(a)].unpersisted = f]
    PROVE  cred' \in [Creds -> Fields]
<1>1. Held(a) \in Creds /\ cred \in [Creds -> Fields]
  BY MineTyped DEF Types, StoreOK
<1>2. [cred[Held(a)] EXCEPT !.unpersisted = f] \in Fields
  BY <1>1 DEF Fields
<1>. QED
  BY <1>1, <1>2

LEMMA PersistTyped == ASSUME Types, NEW a \in Actors, Persist(a) PROVE Types'
<1>0. at[a] \in Aware
  BY DEF Persist, Aware, Holding, Exchanging
<1>1. mem[a] \in Locals /\ mem[a].obj \in Creds /\ mem[a].got \in Tokens
  BY <1>0, MineTyped DEF Locals, Held
<1>2. ThreadsOK'
  <2>1. "persisted" \in Allowed(a)
    BY DEF Allowed, Places, Ended, Holding, Exchanging
  <2>. QED
    BY <1>1, <2>1, GotoKeeps DEF Persist, Types
<1>3. row' \in Rows /\ row' # None
  BY <1>1, StoredTyped DEF Persist
<1>4. cred' \in [Creds -> Fields]
  BY <1>0, FlagTyped DEF Persist
<1>5. UNCHANGED <<lock, cached, seed, shutVars, backendVars, other, faults>>
  BY DEF Persist
<1>. QED
  BY <1>2, <1>3, <1>4, <1>5 DEF Types, StoreOK, WorldOK, shutVars, backendVars

LEMMA PersistFailsTyped == ASSUME Types, NEW a \in Actors, PersistFails(a) PROVE Types'
<1>0. at[a] \in Aware
  BY DEF PersistFails, Aware, Holding, Exchanging
<1>1. mem[a] \in Locals /\ mem[a].obj \in Creds
  BY <1>0, MineTyped DEF Held
<1>2. ThreadsOK'
  <2>1. "persisted" \in Allowed(a)
    BY DEF Allowed, Places, Ended, Holding, Exchanging
  <2>. QED
    BY <1>1, <2>1, GotoKeeps DEF PersistFails, Types
<1>3. cred' \in [Creds -> Fields]
  BY <1>0, FlagTyped DEF PersistFails
<1>4. faults' \in 0..MaxFaults
  BY FaultTyped DEF PersistFails, Types, WorldOK
<1>5. UNCHANGED <<row, lock, cached, seed, shutVars, backendVars, other>>
  BY DEF PersistFails
<1>. QED
  BY <1>2, <1>3, <1>4, <1>5 DEF Types, StoreOK, WorldOK, shutVars, backendVars

LEMMA PublishTyped == ASSUME Types, NEW a \in Actors, Publish(a) PROVE Types'
<1>0. at[a] \in Aware
  BY DEF Publish, Aware, Holding, Exchanging
<1>1. mem[a].got \in Tokens /\ Held(a) \in Creds /\ cred \in [Creds -> Fields]
  BY <1>0, MineTyped DEF Locals, Types, StoreOK
<1>2. ThreadsOK'
  BY <1>0, <1>1, ReturnKeeps DEF Publish, Types
<1>3. cred' \in [Creds -> Fields]
  <2>1. [cred[Held(a)] EXCEPT !.refresh = mem[a].got, !.access = mem[a].got, !.fresh = TRUE]
        \in Fields
    BY <1>1 DEF Fields
  <2>2. cred' = [cred EXCEPT ![Held(a)] =
            [cred[Held(a)] EXCEPT !.refresh = mem[a].got, !.access = mem[a].got, !.fresh = TRUE]]
    BY <1>1 DEF Publish
  <2>. QED
    BY <1>1, <2>1, <2>2
<1>4. lock' \in [Creds -> Actors \union {None}]
  BY ReleaseTyped DEF Publish
<1>5. UNCHANGED <<row, cached, seed, drain, backendVars, other, faults>> /\ Waited
  BY DEF Publish
<1>. QED
  BY <1>2, <1>3, <1>4, <1>5, WaitedTyped DEF Types, StoreOK, WorldOK, backendVars

LEMMA ServedTyped == ASSUME Types, NEW a \in Turns, Served(a) PROVE Types'
<1>1. ThreadsOK'
  <2>1. a \in Actors /\ "done" \in Allowed(a) /\ "done" \notin Aware
    BY RotationAssumption DEF Actors, Allowed, Places, Aware, Ended, Holding, Exchanging
  <2>. QED
    BY <2>1, BlankTyped, GotoKeeps DEF Served, Types
<1>2. UNCHANGED <<row, cred, lock, cached, seed, shutVars, backendVars, other, faults>>
  BY DEF Served
<1>. QED
  BY <1>1, <1>2 DEF Types, StoreOK, WorldOK, shutVars, backendVars

LEMMA UnauthorizedTyped == ASSUME Types, NEW a \in Turns, Unauthorized(a) PROVE Types'
<1>. DEFINE m == [mem[a] EXCEPT !.seen = mem[a].use, !.use = 0, !.again = TRUE]
<1>0. a \in Actors /\ at[a] \in Aware
  BY DEF Unauthorized, Actors, Aware
<1>1. m \in Locals /\ m.obj \in Creds
  BY <1>0, MineTyped, TokenZero DEF Locals, Held
<1>2. "queue" \in Allowed(a)
  BY DEF Allowed, Places, Ended
<1>3. Goto(a, "queue", m)
  BY DEF Unauthorized
<1>4. ThreadsOK'
  <2>. HIDE DEF m
  <2>. QED
    BY <1>0, <1>1, <1>2, <1>3, GotoKeeps DEF Types
<1>5. faults' \in 0..MaxFaults
  BY FaultTyped DEF Unauthorized
<1>6. UNCHANGED <<row, cred, lock, cached, seed, shutVars, backendVars, other>>
  BY DEF Unauthorized
<1>. QED
  BY <1>4, <1>5, <1>6 DEF Types, StoreOK, WorldOK, shutVars, backendVars

LEMMA RetryTakeTyped == ASSUME Types, NEW k \in Keepers, RetryTake(k) PROVE Types'
<1>. DEFINE m == [mem[k] EXCEPT !.show = Mine(k).refresh]
<1>0. k \in Actors /\ at[k] \in Aware
  BY DEF RetryTake, Actors, Aware
<1>1. m \in Locals /\ m.obj \in Creds
  BY <1>0, MineTyped DEF Locals, Held
<1>2. "retry" \in Allowed(k)
  BY RotationAssumption DEF Allowed, Places, Ended, Holding, Exchanging
<1>3. Goto(k, "retry", m)
  BY DEF RetryTake
<1>4. ThreadsOK'
  <2>. HIDE DEF m
  <2>. QED
    BY <1>0, <1>1, <1>2, <1>3, GotoKeeps DEF Types
<1>5. lock' \in [Creds -> Actors \union {None}]
  BY <1>0 DEF RetryTake, Types, StoreOK
<1>6. UNCHANGED <<row, cred, cached, seed, shutVars, backendVars, other, faults>>
  BY DEF RetryTake
<1>. QED
  BY <1>4, <1>5, <1>6 DEF Types, StoreOK, WorldOK, shutVars, backendVars

LEMMA RetrySkipTyped == ASSUME Types, NEW k \in Keepers, RetrySkip(k) PROVE Types'
<1>0. k \in Actors /\ at[k] \in Aware
  BY DEF RetrySkip, Actors, Aware
<1>1. mem[k] \in Locals /\ mem[k].obj \in Creds /\ "due" \in Allowed(k)
  BY <1>0, MineTyped, RotationAssumption DEF Held, Allowed, Places, Ended
<1>2. ThreadsOK'
  BY <1>0, <1>1, GotoKeeps DEF RetrySkip, Types
<1>3. UNCHANGED <<row, cred, lock, cached, seed, shutVars, backendVars, other, faults>>
  BY DEF RetrySkip
<1>. QED
  BY <1>2, <1>3 DEF Types, StoreOK, WorldOK, shutVars, backendVars

LEMMA RewriteTyped == ASSUME Types, NEW k \in Keepers, Rewrite(k) PROVE Types'
<1>. DEFINE m == [mem[k] EXCEPT !.show = 0]
<1>0. k \in Actors /\ at[k] \in Aware
  BY DEF Rewrite, Actors, Aware, Holding
<1>1. m \in Locals /\ m.obj \in Creds /\ mem[k].show \in Tokens
  BY <1>0, MineTyped, TokenZero DEF Locals, Held
<1>2. "due" \in Allowed(k)
  BY RotationAssumption DEF Allowed, Places, Ended
<1>3. Goto(k, "due", m)
  BY DEF Rewrite
<1>4. ThreadsOK'
  <2>. HIDE DEF m
  <2>. QED
    BY <1>0, <1>1, <1>2, <1>3, GotoKeeps DEF Types
<1>5. /\ row' \in Rows /\ (~Keyed => row' # None)
      /\ cred' \in [Creds -> Fields] /\ faults' \in 0..MaxFaults
  <2>1. CASE /\ Stored(mem[k].show) /\ UNCHANGED faults
             /\ cred' = [cred EXCEPT ![Held(k)].unpersisted = FALSE]
    BY <1>0, <1>1, <2>1, StoredTyped, FlagTyped DEF Types, WorldOK
  <2>2. CASE /\ IF StoreOpen /\ row # None THEN Fault ELSE UNCHANGED faults
             /\ UNCHANGED <<row, cred>>
    BY <2>2, FaultTyped DEF Types, StoreOK, WorldOK
  <2>. QED
    BY <2>1, <2>2 DEF Rewrite
<1>6. lock' \in [Creds -> Actors \union {None}]
  BY <1>0, ReleaseTyped DEF Rewrite
<1>7. UNCHANGED <<cached, seed, shutVars, backendVars, other>>
  BY DEF Rewrite
<1>. QED
  BY <1>4, <1>5, <1>6, <1>7 DEF Types, StoreOK, WorldOK, shutVars, backendVars

LEMMA DueTyped == ASSUME Types, NEW k \in Keepers, Due(k) PROVE Types'
<1>0. k \in Actors /\ at[k] \in Aware
  BY DEF Due, Actors, Aware
<1>1. mem[k] \in Locals /\ mem[k].obj \in Creds /\ "queue" \in Allowed(k)
  BY <1>0, MineTyped DEF Held, Allowed, Places, Ended
<1>2. ThreadsOK'
  <2>1. CASE Leave(k, "done")
    BY <1>0, <2>1, LeaveKeeps DEF Types, Ended
  <2>2. CASE Goto(k, "queue", mem[k])
    BY <1>0, <1>1, <2>2, GotoKeeps DEF Types
  <2>. QED
    BY <2>1, <2>2 DEF Due
<1>3. UNCHANGED <<row, cred, lock, cached, seed, shutVars, backendVars, other, faults>>
  BY DEF Due
<1>. QED
  BY <1>2, <1>3 DEF Types, StoreOK, WorldOK, shutVars, backendVars

\* A process that boots: everybody idle, on what outlived the last one.
LEMMA BootTyped ==
    ASSUME Types, Boot, UNCHANGED <<row, other>>, seed' \in Tokens, live' \subseteq Tokens,
           issued' \in Tokens, origin' = origin, faults' \in 0..MaxFaults
    PROVE  Types'
<1>1. ThreadsOK'
  <2>1. \A a \in Actors : "idle" \in Allowed(a) /\ "idle" \notin Aware
    BY DEF Allowed, Places, Aware, Ended, Holding, Exchanging
  <2>. QED
    BY <2>1, BlankTyped DEF Boot, ThreadsOK, Places
<1>2. cred' \in [Creds -> Fields]
  <2>1. CASE Keyed
    BY <2>1, UnusedTyped DEF Boot
  <2>2. CASE ~Keyed
    <3>1. row.token \in Tokens
      BY <2>2 DEF Types, StoreOK, Rows
    <3>2. [Unused EXCEPT !.refresh = row.token] \in Fields
      BY <3>1, UnusedTyped DEF Fields, Unused
    <3>. QED
      BY <2>2, <3>2 DEF Boot
  <2>. QED
    BY <2>1, <2>2
<1>3. StoreOK'
  BY <1>2 DEF Boot, Types, StoreOK
<1>4. WorldOK'
  BY DEF Boot, Types, WorldOK
<1>. QED
  BY <1>1, <1>3, <1>4 DEF Types

LEMMA RestartTyped == ASSUME Types, Restart PROVE Types'
<1>1. /\ UNCHANGED <<row, other>> /\ seed' \in Tokens /\ live' \subseteq Tokens
      /\ issued' \in Tokens /\ origin' = origin
  BY DEF Restart, Types, StoreOK, WorldOK, backendVars
<1>2. faults' \in 0..MaxFaults /\ Boot
  BY FaultTyped DEF Restart
<1>. QED
  BY <1>1, <1>2, BootTyped

LEMMA ReprovisionTyped == ASSUME Types, Reprovision PROVE Types'
<1>1. issued + 1 \in Tokens
  BY RotationAssumption DEF Reprovision, Types, WorldOK, Tokens
<1>2. /\ UNCHANGED <<row, other>> /\ seed' \in Tokens /\ live' \subseteq Tokens
      /\ issued' \in Tokens /\ origin' = origin /\ faults' \in 0..MaxFaults /\ Boot
  BY <1>1 DEF Reprovision, Types, WorldOK
<1>. QED
  BY <1>2, BootTyped

LEMMA ExpireTyped == ASSUME Types, NEW o \in Creds, Expire(o) PROVE Types'
<1>1. cred' \in [Creds -> Fields]
  <2>1. [cred[o] EXCEPT !.fresh = FALSE] \in Fields
    BY DEF Types, StoreOK, Fields
  <2>. QED
    BY <2>1 DEF Expire, Types, StoreOK
<1>2. UNCHANGED <<row, lock, cached, threadVars, seed, shutVars, backendVars, other, faults>>
  BY DEF Expire
<1>. QED
  BY <1>1, <1>2 DEF Types, ThreadsOK, StoreOK, WorldOK, threadVars, shutVars, backendVars

LEMMA OtherTyped == ASSUME Types, Other PROVE Types'
<1>1. CASE OtherRenews
  <2>1. row.token \in Tokens
    BY <1>1 DEF OtherRenews, Types, StoreOK, Rows
  <2>2. /\ issued' \in Tokens /\ issued + 1 \in Tokens /\ live' \subseteq Tokens
        /\ origin' \in [Tokens -> Enterprises]
    BY <1>1, <2>1, SpendTyped DEF OtherRenews
  <2>3. other' \in Tokens /\ faults' \in 0..MaxFaults
    BY <1>1, <2>2, FaultTyped DEF OtherRenews
  <2>4. UNCHANGED <<row, cred, lock, cached, threadVars, seed, shutVars>>
    BY <1>1 DEF OtherRenews
  <2>. QED
    BY <2>2, <2>3, <2>4 DEF Types, ThreadsOK, StoreOK, WorldOK, threadVars, shutVars
<1>2. CASE OtherStores
  <2>1. row' \in Rows /\ (~Keyed => row' # None)
    <3>1. CASE row = None
      BY <1>2, <3>1 DEF OtherStores, Types, StoreOK
    <3>2. CASE row # None
      <4>1. row \in [token : Tokens, ent : Enterprises] /\ row' = [row EXCEPT !.token = other]
            /\ other \in Tokens
        BY <1>2, <3>2 DEF OtherStores, Types, StoreOK, WorldOK, Rows
      <4>2. row' \in [token : Tokens, ent : Enterprises]
        BY <4>1
      <4>3. row' \in [token : Nat, ent : Enterprises]
        BY <4>2 DEF Tokens
      <4>. QED
        BY <4>2, <4>3, RotationAssumption DEF Rows
    <3>. QED
      BY <3>1, <3>2
  <2>2. UNCHANGED <<cred, lock, cached, threadVars, seed, shutVars, backendVars, faults>>
        /\ other' = 0
    BY <1>2 DEF OtherStores
  <2>. QED
    BY <2>1, <2>2, TokenZero
    DEF Types, ThreadsOK, StoreOK, WorldOK, threadVars, shutVars, backendVars
<1>3. CASE OtherDies
  <2>1. faults' \in 0..MaxFaults /\ other' = 0
        /\ UNCHANGED <<row, cred, lock, cached, threadVars, seed, shutVars, backendVars>>
    BY <1>3, FaultTyped DEF OtherDies
  <2>. QED
    BY <2>1, TokenZero DEF Types, ThreadsOK, StoreOK, WorldOK, threadVars, shutVars, backendVars
<1>. QED
  BY <1>1, <1>2, <1>3 DEF Other

LEMMA ShutdownTyped == ASSUME Types, BeginShutdown \/ CloseWaits \/ Close PROVE Types'
<1>1. /\ UNCHANGED <<row, cred, lock, cached, threadVars, seed, backendVars, other, faults>>
      /\ closing' \in {"stopping", "waiting", "closed", "cut"}
      /\ drain' = drain \/ drain' = {cached} \ {None}
  BY DEF BeginShutdown, CloseWaits, Close
<1>2. drain' \subseteq Creds
  BY <1>1 DEF Types, StoreOK, WorldOK
<1>. QED
  BY <1>1, <1>2 DEF Types, ThreadsOK, StoreOK, WorldOK, threadVars, backendVars

LEMMA StepTyped == ASSUME Types, [Next]_vars PROVE Types'
<1>1. ASSUME NEW t \in Turns, Begin(t) PROVE Types'
  <2>1. t \in Actors
    BY DEF Actors
  <2>. QED
    BY <1>1, <2>1, BeginTyped
<1>2. ASSUME NEW a \in Actors, Step(a) PROVE Types'
  <2>1. CASE Queue(a) \/ TakeLock(a)
    BY <2>1, QueueTyped, TakeLockTyped
  <2>2. CASE Exchange(a)
    BY <2>2, RotateTyped, AnswerLostTyped, UnreachedTyped, RefusedTyped, AlternativesTyped,
       PersistTyped, PersistFailsTyped, PublishTyped DEF Exchange
  <2>3. CASE a \in Turns /\ (Look(a) \/ Served(a) \/ Unauthorized(a))
    BY <2>3, LookTyped, ServedTyped, UnauthorizedTyped
  <2>4. CASE a \in Keepers /\ (Wake(a) \/ RetryTake(a) \/ RetrySkip(a) \/ Rewrite(a) \/ Due(a))
    BY <2>4, BeginTyped, RetryTakeTyped, RetrySkipTyped, RewriteTyped, DueTyped
  <2>. QED
    BY <1>2, <2>1, <2>2, <2>3, <2>4 DEF Step
<1>3. CASE UNCHANGED vars
  BY <1>3 DEF vars, Types, ThreadsOK, StoreOK, WorldOK, threadVars, shutVars, backendVars
<1>. QED
  BY <1>1, <1>2, <1>3, OtherTyped, ExpireTyped, ShutdownTyped, RestartTyped, ReprovisionTyped
  DEF Next, Threads

LEMMA TypesHold == Spec => []Types
<1>. QED
  BY InitTyped, StepTyped, PTL DEF Spec

\* Type correctness of the rotation, with every thread where its kind may be
\* (_credential_for, _renew, _exchange_refresh_token, _keepalive_loop, close).
THEOREM RotationTyped == Spec => []TypeOK
<1>. QED
  BY TypesHold, TypesTyped, PTL

-----------------------------------------------------------------------------
(* One renewal at a time.  PresentsLive is not inductive: it holds because the *)
(* renew_lock covers the exchange, so that the token shown is the object's own *)
(* until it has been refused, and one refused is never accepted again.         *)

\* What a thread's place says of the lock and of the tokens it holds.
ActorOK(a) ==
    /\ at[a] \in Holding => lock[mem[a].obj] = a
    /\ mem[a].got # 0 => at[a] \in {"minted", "persisted"}
    /\ at[a] = "retry" \/ (at[a] = "post" /\ ~mem[a].alternative)
          => mem[a].show = cred[mem[a].obj].refresh
    /\ at[a] = "alternatives" => mem[a].alternative
    /\ at[a] \in {"post", "alternatives"} /\ mem[a].alternative
          => cred[mem[a].obj].refresh \notin live
    /\ mem[a].got <= issued

\* Every token anyone keeps has been issued.
AllIssued ==
    /\ live \subseteq 1..issued
    /\ \A o \in Creds : cred[o].refresh <= issued
    /\ row # None => row.token <= issued
    /\ other <= issued

Safe == (\A a \in Actors : ActorOK(a)) /\ AllIssued

\* The default is one object.
LEMMA OneObject == ASSUME ~Keyed, NEW o \in Creds, NEW q \in Creds PROVE o = q
BY RotationAssumption

\* Two threads are never inside the lock together.
LEMMA OneInside ==
    ASSUME ~Keyed, Types, NEW a \in Actors, NEW b \in Actors, ActorOK(a), ActorOK(b),
           at[a] \in Holding, at[b] \in Holding
    PROVE  a = b
<1>1. mem[a].obj \in Creds /\ mem[b].obj \in Creds
  BY DEF Types, ThreadsOK, Aware
<1>2. mem[a].obj = mem[b].obj
  BY <1>1, OneObject
<1>. QED
  BY <1>2 DEF ActorOK

\* No token is spent twice, and none comes back.
LEMMA IssuedStays ==
    ASSUME Types, AllIssued, NEW t \in Tokens, Spend(t)
    PROVE  /\ issued' = issued + 1 /\ issued \in Nat
           /\ live' \subseteq 1..issued'
           /\ \A n \in Tokens : n <= issued /\ n \notin live => n \notin live'
<1>1. issued' = issued + 1 /\ issued \in Nat /\ live' = (live \ {t}) \union {issued + 1}
  BY DEF Spend, Types, WorldOK, Tokens
<1>2. live' \subseteq 1..issued'
  <2>1. 1..issued \subseteq 1..issued' /\ issued + 1 \in 1..issued'
    BY <1>1
  <2>. QED
    BY <1>1, <2>1 DEF AllIssued
<1>3. \A n \in Tokens : n <= issued /\ n \notin live => n \notin live'
  BY <1>1 DEF Tokens
<1>. QED
  BY <1>1, <1>2, <1>3

\* A thread's step leaves the others as they are, whatever it does inside the lock.
LEMMA OthersKeep ==
    ASSUME ~Keyed, Types, Safe, NEW a \in Actors, NEW b \in Actors, b # a,
           at'[b] = at[b], mem'[b] = mem[b],
           issued' \in Nat, issued <= issued',
           \A o \in Creds : lock[o] = b => lock'[o] = b,
           at[a] \in Holding \/ \A o \in Creds : cred'[o].refresh = cred[o].refresh,
           \A n \in Tokens : n <= issued /\ n \notin live => n \notin live'
    PROVE  ActorOK(b)'
<1>0. ActorOK(a) /\ ActorOK(b)
  BY DEF Safe
<1>1. CASE at[b] \in Holding
  <2>1. at[a] \notin Holding
    BY <1>0, <1>1, OneInside
  <2>2. mem[b].obj \in Creds
    BY <1>1 DEF Types, ThreadsOK, Aware
  <2>3. cred'[mem[b].obj].refresh = cred[mem[b].obj].refresh
    BY <2>1, <2>2
  <2>4. cred[mem[b].obj].refresh \in Tokens /\ cred[mem[b].obj].refresh <= issued
    BY <2>2 DEF Types, StoreOK, Fields, Safe, AllIssued
  <2>5. mem[b].got \in Nat /\ issued \in Nat
    BY DEF Types, ThreadsOK, WorldOK, Locals, Tokens
  <2>6. mem[b].got <= issued'
    BY <1>0, <2>5 DEF ActorOK
  <2>7. lock'[mem'[b].obj] = b
    BY <1>0, <1>1, <2>2 DEF ActorOK
  <2>8. cred[mem[b].obj].refresh \notin live => cred'[mem[b].obj].refresh \notin live'
    BY <2>3, <2>4
  <2>. QED
    BY <1>0, <2>3, <2>6, <2>7, <2>8 DEF ActorOK
<1>2. CASE at[b] \notin Holding
  <2>1. mem[b].got \in Nat /\ issued \in Nat
    BY DEF Types, ThreadsOK, WorldOK, Locals, Tokens
  <2>2. mem[b].got <= issued'
    BY <1>0, <2>1 DEF ActorOK
  <2>. QED
    BY <1>0, <1>2, <2>2 DEF ActorOK, Holding, Exchanging
<1>. QED
  BY <1>1, <1>2

\* Nothing that bears on another thread's claims moves, but the tokens it has not got.
Undisturbed(a) ==
    /\ \A b \in Actors \ {a}, o \in Creds : lock[o] = b => lock'[o] = b
    /\ at[a] \in Holding \/ \A o \in Creds : cred'[o].refresh = cred[o].refresh
    /\ issued' \in Nat /\ issued <= issued'
    /\ \A n \in Tokens : n <= issued /\ n \notin live => n \notin live'

\* So a thread's step is safe if it is so for the thread.
LEMMA StepSafely ==
    ASSUME ~Keyed, Types, Safe, NEW a \in Actors, NEW p, NEW m, Goto(a, p, m),
           Undisturbed(a), ActorOK(a)', AllIssued'
    PROVE  Safe'
<1>1. ASSUME NEW b \in Actors, b # a PROVE ActorOK(b)'
  <2>1. at'[b] = at[b] /\ mem'[b] = mem[b]
    BY <1>1 DEF Goto, Types, ThreadsOK
  <2>. QED
    BY <1>1, <2>1, OthersKeep DEF Undisturbed
<1>. QED
  BY <1>1 DEF Safe

\* A thread that goes outside the lock, holding no new token.
Outside(a) == \E p \in Places \ Holding, m \in Locals : m.got = 0 /\ Goto(a, p, m)

LEMMA OutsideSafe ==
    ASSUME ~Keyed, Types, Safe, NEW a \in Actors, Outside(a), Undisturbed(a), AllIssued'
    PROVE  Safe'
<1>1. PICK p \in Places \ Holding, m \in Locals : m.got = 0 /\ Goto(a, p, m)
  BY DEF Outside
<1>2. at'[a] \notin Holding /\ mem'[a].got = 0
  BY <1>1 DEF Goto, Types, ThreadsOK
<1>3. 0 <= issued'
  BY DEF Undisturbed
<1>4. ActorOK(a)'
  BY <1>2, <1>3 DEF ActorOK, Holding, Exchanging
<1>. QED
  BY <1>1, <1>4, StepSafely

LEMMA LeaveOutside == ASSUME NEW a \in Actors, NEW p \in Ended, Leave(a, p) PROVE Outside(a)
<1>1. "idle" \in Places \ Holding /\ p \in Places \ Holding /\ Blank.got = 0
  BY DEF Places, Holding, Exchanging, Ended, Blank
<1>. QED
  BY <1>1, BlankTyped DEF Leave, Outside

LEMMA ReturnOutside ==
    ASSUME Types, NEW a \in Actors, at[a] \in Aware, NEW t \in Tokens, Return(a, t)
    PROVE  Outside(a)
<1>1. CASE a \in Keepers
  BY <1>1, LeaveOutside DEF Return, Ended
<1>2. CASE a \notin Keepers
  <2>. DEFINE m == [Blank EXCEPT !.obj = Held(a), !.use = t, !.again = mem[a].again]
  <2>1. Held(a) \in Creds /\ mem[a].again \in BOOLEAN
    BY MineTyped DEF Locals
  <2>2. m \in Locals /\ m.got = 0
    BY <2>1, BlankTyped DEF Locals, Blank
  <2>3. "use" \in Places \ Holding
    BY DEF Places, Holding, Exchanging
  <2>4. Goto(a, "use", m)
    BY <1>2 DEF Return
  <2>. HIDE DEF m
  <2>. QED
    BY <2>2, <2>3, <2>4 DEF Outside
<1>. QED
  BY <1>1, <1>2

\* The backend and the store stand still.
Still == UNCHANGED <<live, issued, row, other>>
SameRefresh == \A o \in Creds : cred'[o].refresh = cred[o].refresh

LEMMA StillIssued == ASSUME Safe, Still, SameRefresh PROVE AllIssued'
BY DEF Safe, Still, SameRefresh, AllIssued

LEMMA StillUndisturbed ==
    ASSUME Types, NEW a \in Actors, Still, at[a] \in Holding \/ SameRefresh,
           Release(a) \/ UNCHANGED lock
    PROVE  Undisturbed(a)
<1>1. issued' = issued /\ issued \in Nat /\ live' = live
  BY DEF Still, Types, WorldOK, Tokens
<1>2. \A b \in Actors \ {a}, o \in Creds : lock[o] = b => lock'[o] = b
  BY DEF Release
<1>. QED
  BY <1>1, <1>2 DEF Undisturbed, SameRefresh

\* The steps before and after the exchange, and those that give it up.
LEMMA QuietSafe ==
    ASSUME ~Keyed, Types, Safe, NEW a \in Actors, Outside(a), Still, SameRefresh,
           Release(a) \/ UNCHANGED lock
    PROVE  Safe'
BY StillIssued, StillUndisturbed, OutsideSafe

LEMMA OutsideStepsSafe ==
    ASSUME ~Keyed, Types, Safe, NEW a \in Actors,
           \/ Begin(a) \/ Wake(a) \/ Queue(a) \/ Unauthorized(a) \/ RetrySkip(a)
           \/ Look(a) \/ Served(a) \/ Due(a)
    PROVE  Safe'
<1>0. mem[a].got = 0 \/ at[a] \in {"minted", "persisted"}
  BY DEF Safe, ActorOK
<1>1. mem[a] \in Locals
  BY DEF Types, ThreadsOK
<1>2. {"read", "look", "tick", "queue", "wait", "due", "done"} \subseteq Places \ Holding
  BY DEF Places, Holding, Exchanging, Ended
<1>3. Still /\ SameRefresh /\ UNCHANGED lock
  BY DEF Begin, Wake, Queue, Unauthorized, RetrySkip, Look, Served, Due, Still, SameRefresh,
         backendVars
<1>4. ASSUME Begin(a) \/ Wake(a) PROVE Outside(a)
  <2>1. at[a] = "idle" /\ FirstLook(a) /\ mem[a].got = 0
    BY <1>0, <1>4 DEF Begin, Wake
  <2>2. CASE cached # None /\ Resolved(a, cached)
    <3>. DEFINE p == IF a \in Keepers THEN "tick" ELSE "look"
                m == [mem[a] EXCEPT !.obj = cached, !.rec = None]
    <3>1. m \in Locals /\ m.got = 0
      BY <1>1, <2>1, <2>2 DEF Locals, Rows, Types, StoreOK
    <3>2. p \in Places \ Holding /\ Goto(a, p, m)
      BY <1>2, <2>2 DEF Resolved
    <3>. HIDE DEF m, p
    <3>. QED
      BY <3>1, <3>2 DEF Outside
  <2>3. CASE Goto(a, "read", mem[a])
    BY <1>1, <1>2, <2>1, <2>3 DEF Outside
  <2>. QED
    BY <2>1, <2>2, <2>3 DEF FirstLook
<1>5. ASSUME Look(a) PROVE Outside(a)
  <2>. DEFINE m == [mem[a] EXCEPT !.seen = Mine(a).access]
  <2>1. at[a] \in Aware /\ mem[a].got = 0
    BY <1>0, <1>5 DEF Look, Aware
  <2>2. m \in Locals /\ m.got = 0
    BY <1>1, <2>1, MineTyped DEF Locals
  <2>3. CASE Return(a, Mine(a).access)
    BY <2>1, <2>3, MineTyped, ReturnOutside
  <2>4. CASE Goto(a, "queue", m)
    <3>. HIDE DEF m
    <3>. QED
      BY <1>2, <2>2, <2>4 DEF Outside
  <2>. QED
    BY <1>5, <2>3, <2>4 DEF Look
<1>6. ASSUME Queue(a) PROVE Outside(a)
  <2>. DEFINE m == [mem[a] EXCEPT !.intended = Mine(a).refresh]
  <2>1. at[a] \in Aware /\ mem[a].got = 0
    BY <1>0, <1>6 DEF Queue, Aware
  <2>2. m \in Locals /\ m.got = 0 /\ Goto(a, "wait", m)
    BY <1>1, <1>6, <2>1, MineTyped DEF Locals, Queue
  <2>. HIDE DEF m
  <2>. QED
    BY <1>2, <2>2 DEF Outside
<1>7. ASSUME Unauthorized(a) PROVE Outside(a)
  <2>. DEFINE m == [mem[a] EXCEPT !.seen = mem[a].use, !.use = 0, !.again = TRUE]
  <2>1. mem[a].got = 0
    BY <1>0, <1>7 DEF Unauthorized
  <2>2. m \in Locals /\ m.got = 0 /\ Goto(a, "queue", m)
    BY <1>1, <1>7, <2>1, TokenZero DEF Locals, Unauthorized
  <2>. HIDE DEF m
  <2>. QED
    BY <1>2, <2>2 DEF Outside
<1>8. ASSUME RetrySkip(a) PROVE Outside(a)
  BY <1>0, <1>1, <1>2, <1>8 DEF RetrySkip, Outside
<1>9. ASSUME Served(a) PROVE Outside(a)
  BY <1>2, <1>9, BlankTyped DEF Served, Outside, Blank
<1>10. ASSUME Due(a) PROVE Outside(a)
  <2>1. CASE Leave(a, "done")
    BY <2>1, LeaveOutside DEF Ended
  <2>2. CASE Goto(a, "queue", mem[a])
    BY <1>0, <1>1, <1>2, <1>10, <2>2 DEF Due, Outside
  <2>. QED
    BY <1>10, <2>1, <2>2 DEF Due
<1>. QED
  BY <1>3, <1>4, <1>5, <1>6, <1>7, <1>8, <1>9, <1>10, QuietSafe

\* A thread inside the lock stays there, on the same object.
LEMMA InsideSafe ==
    ASSUME ~Keyed, Types, Safe, NEW a \in Actors, NEW p, NEW m, Goto(a, p, m),
           at[a] \in Holding, m.obj = mem[a].obj, UNCHANGED lock, Undisturbed(a), AllIssued',
           m.got # 0 => p \in {"minted", "persisted"}, m.got <= issued',
           p = "post" => m.alternative, p # "retry",
           p = "alternatives" => m.alternative,
           p \in {"post", "alternatives"} => cred'[m.obj].refresh \notin live'
    PROVE  Safe'
<1>1. at'[a] = p /\ mem'[a] = m
  BY DEF Goto, Types, ThreadsOK
<1>2. lock'[m.obj] = a
  BY DEF Safe, ActorOK
<1>3. ActorOK(a)'
  BY <1>1, <1>2 DEF ActorOK
<1>. QED
  BY <1>3, StepSafely

\* A thread that takes the free lock, to show the object's own token.
LEMMA TakesSafe ==
    ASSUME ~Keyed, Types, Safe, NEW a \in Actors, NEW p \in {"post", "retry"}, NEW m \in Locals,
           Goto(a, p, m), at[a] \in Aware \ Holding, m.obj = Held(a),
           lock[Held(a)] = None, lock' = [lock EXCEPT ![Held(a)] = a],
           m.show = Mine(a).refresh, p = "post" => ~m.alternative, m.got = 0, Still, UNCHANGED cred
    PROVE  Safe'
<1>1. at'[a] = p /\ mem'[a] = m /\ Held(a) \in Creds
  BY MineTyped DEF Goto, Types, ThreadsOK
<1>2. lock'[m.obj] = a
  BY <1>1 DEF Types, StoreOK
<1>3. \A b \in Actors \ {a}, o \in Creds : lock[o] = b => lock'[o] = b
  BY <1>1, RotationAssumption DEF Types, StoreOK
<1>4. issued' = issued /\ issued \in Nat /\ live' = live
  BY DEF Still, Types, WorldOK, Tokens
<1>5. Undisturbed(a)
  BY <1>3, <1>4 DEF Undisturbed
<1>6. ActorOK(a)'
  BY <1>1, <1>2, <1>4 DEF ActorOK, Mine, Held
<1>7. AllIssued'
  BY StillIssued DEF SameRefresh
<1>. QED
  BY <1>5, <1>6, <1>7, StepSafely

LEMMA TakeLockSafe == ASSUME ~Keyed, Types, Safe, NEW a \in Actors, TakeLock(a) PROVE Safe'
<1>. DEFINE m == [Blank EXCEPT !.obj = Held(a), !.show = Mine(a).refresh, !.again = mem[a].again]
<1>0. at[a] \in Aware \ Holding /\ LockFree(a) /\ Still /\ UNCHANGED cred
  BY DEF TakeLock, Aware, Holding, Exchanging, Still, backendVars
<1>1. CASE Return(a, Mine(a).access) /\ UNCHANGED lock
  <2>1. Outside(a) /\ SameRefresh
    BY <1>0, <1>1, MineTyped, ReturnOutside DEF SameRefresh
  <2>. QED
    BY <1>0, <1>1, <2>1, QuietSafe
<1>2. CASE lock' = [lock EXCEPT ![Held(a)] = a] /\ Goto(a, "post", m)
  <2>1. /\ m \in Locals /\ m.obj = Held(a) /\ m.show = Mine(a).refresh
        /\ ~m.alternative /\ m.got = 0
    BY <1>0, MineTyped, BlankTyped DEF Locals, Blank
  <2>2. lock[Held(a)] = None
    BY <1>0 DEF LockFree
  <2>. HIDE DEF m
  <2>. QED
    BY <1>0, <1>2, <2>1, <2>2, TakesSafe
<1>. QED
  BY <1>1, <1>2 DEF TakeLock

LEMMA RetryTakeSafe == ASSUME ~Keyed, Types, Safe, NEW k \in Actors, RetryTake(k) PROVE Safe'
<1>. DEFINE m == [mem[k] EXCEPT !.show = Mine(k).refresh]
<1>0. /\ at[k] \in Aware \ Holding /\ lock[Held(k)] = None /\ Still /\ UNCHANGED cred
      /\ lock' = [lock EXCEPT ![Held(k)] = k] /\ at[k] = "tick"
  BY DEF RetryTake, CanRetry, Aware, Holding, Exchanging, Still, backendVars
<1>1. m \in Locals /\ m.obj = Held(k) /\ m.show = Mine(k).refresh /\ m.got = 0
  BY <1>0, MineTyped DEF Locals, Held, Safe, ActorOK
<1>2. Goto(k, "retry", m)
  BY DEF RetryTake
<1>. HIDE DEF m
<1>. QED
  BY <1>0, <1>1, <1>2, TakesSafe

LEMMA RewriteSafe == ASSUME ~Keyed, Types, Safe, NEW k \in Actors, Rewrite(k) PROVE Safe'
<1>. DEFINE m == [mem[k] EXCEPT !.show = 0]
<1>0. /\ at[k] = "retry" /\ at[k] \in Aware /\ at[k] \in Holding
      /\ Release(k) /\ UNCHANGED <<live, issued, other>>
  BY DEF Rewrite, Aware, Holding, backendVars
<1>1. Held(k) \in Creds /\ mem[k] \in Locals /\ mem[k].got = 0
      /\ mem[k].show = cred[Held(k)].refresh
  BY <1>0, MineTyped DEF Held, Safe, ActorOK
<1>2. m \in Locals /\ m.got = 0
  BY <1>1, TokenZero DEF Locals
<1>3. Outside(k)
  <2>1. "due" \in Places \ Holding /\ Goto(k, "due", m)
    BY DEF Rewrite, Places, Holding, Exchanging
  <2>. HIDE DEF m
  <2>. QED
    BY <1>2, <2>1 DEF Outside
<1>4. SameRefresh
  BY <1>1 DEF Rewrite, SameRefresh, Types, StoreOK, Fields
<1>5. row' # None => row'.token <= issued
  <2>1. CASE Stored(mem[k].show)
    <3>1. row \in [token : Tokens, ent : Enterprises] /\ row' = [row EXCEPT !.token = mem[k].show]
      BY <2>1 DEF Stored, Types, StoreOK, Rows
    <3>2. mem[k].show <= issued
      BY <1>1 DEF Safe, AllIssued
    <3>. QED
      BY <3>1, <3>2
  <2>2. CASE UNCHANGED <<row, cred>>
    BY <2>2 DEF Safe, AllIssued
  <2>. QED
    BY <2>1, <2>2 DEF Rewrite
<1>6. AllIssued'
  BY <1>0, <1>4, <1>5 DEF Safe, AllIssued, SameRefresh
<1>7. Undisturbed(k)
  <2>1. issued' = issued /\ issued \in Nat /\ live' = live
    BY <1>0 DEF Types, WorldOK, Tokens
  <2>2. \A b \in Actors \ {k}, o \in Creds : lock[o] = b => lock'[o] = b
    BY <1>0 DEF Release
  <2>. QED
    BY <1>0, <2>1, <2>2 DEF Undisturbed
<1>. QED
  BY <1>3, <1>6, <1>7, OutsideSafe

LEMMA RotateSafe == ASSUME ~Keyed, Types, Safe, NEW a \in Actors, Rotate(a) PROVE Safe'
<1>. DEFINE m == [mem[a] EXCEPT !.got = issued + 1, !.show = 0, !.left = <<>>,
                                !.alternative = FALSE]
<1>0. /\ at[a] \in Holding /\ at[a] \in Aware /\ Goto(a, "minted", m)
      /\ UNCHANGED <<row, cred, lock, other>>
  BY DEF Rotate, Aware, Holding, Exchanging
<1>1. mem[a] \in Locals /\ mem[a].show \in Tokens
  BY <1>0, MineTyped DEF Locals
<1>2. /\ issued' = issued + 1 /\ issued \in Nat /\ live' \subseteq 1..issued'
      /\ \A n \in Tokens : n <= issued /\ n \notin live => n \notin live'
  BY <1>1, IssuedStays DEF Rotate, Safe
<1>3. m.obj = mem[a].obj /\ m.got = issued + 1
  BY <1>1 DEF Locals
<1>4. Undisturbed(a)
  BY <1>0, <1>2 DEF Undisturbed
<1>5. AllIssued'
  <2>1. \A o \in Creds : cred[o].refresh \in Nat /\ cred[o].refresh <= issued
    BY DEF Types, StoreOK, Fields, Tokens, Safe, AllIssued
  <2>2. /\ row # None => row.token \in Nat /\ row.token <= issued
        /\ other \in Nat /\ other <= issued
    BY DEF Types, StoreOK, WorldOK, Rows, Tokens, Safe, AllIssued
  <2>. QED
    BY <1>0, <1>2, <2>1, <2>2 DEF AllIssued
<1>. HIDE DEF m
<1>. QED
  BY <1>0, <1>2, <1>3, <1>4, <1>5, InsideSafe

\* The answer came to nothing, or was refused to the end: the lock is free again.
LEMMA FailSafe ==
    ASSUME ~Keyed, Types, Safe, NEW a \in Actors, Leave(a, "failed"), Release(a), Still,
           SameRefresh
    PROVE  Safe'
BY LeaveOutside, QuietSafe DEF Ended

LEMMA LostSafe ==
    ASSUME ~Keyed, Types, Safe, NEW a \in Actors, AnswerLost(a) \/ Unreached(a)
    PROVE  Safe'
BY FailSafe DEF AnswerLost, Unreached, Still, SameRefresh, backendVars

LEMMA RefusedSafe == ASSUME ~Keyed, Types, Safe, NEW a \in Actors, Refused(a) PROVE Safe'
<1>0. /\ at[a] = "post" /\ at[a] \in Holding /\ at[a] \in Aware /\ mem[a].show \notin live
      /\ Still /\ SameRefresh /\ UNCHANGED cred
  BY DEF Refused, Aware, Holding, Exchanging, Still, SameRefresh, backendVars
<1>1. mem[a] \in Locals /\ mem[a].got = 0 /\ issued' \in Nat
  BY <1>0, MineTyped DEF Safe, ActorOK, Still, Types, WorldOK, Tokens
<1>2. cred[mem[a].obj].refresh \notin live
  BY <1>0 DEF Safe, ActorOK
<1>3. AllIssued' /\ (UNCHANGED lock => Undisturbed(a))
  BY <1>0, StillIssued, StillUndisturbed
<1>4. CASE Leave(a, "failed") /\ Release(a)
  BY <1>0, <1>4, FailSafe
<1>5. CASE Goto(a, "alternatives", [mem[a] EXCEPT !.alternative = TRUE]) /\ UNCHANGED lock
  <2>. DEFINE m == [mem[a] EXCEPT !.alternative = TRUE]
  <2>1. m.obj = mem[a].obj /\ m.got = 0 /\ m.alternative /\ Goto(a, "alternatives", m)
    BY <1>1, <1>5 DEF Locals
  <2>. HIDE DEF m
  <2>. QED
    BY <1>0, <1>1, <1>2, <1>3, <1>5, <2>1, InsideSafe DEF Still
<1>6. CASE /\ mem[a].alternative /\ UNCHANGED lock
           /\ Goto(a, "post", [mem[a] EXCEPT !.show = Head(mem[a].left), !.left = Tail(@)])
  <2>. DEFINE m == [mem[a] EXCEPT !.show = Head(mem[a].left), !.left = Tail(mem[a].left)]
  <2>1. m.obj = mem[a].obj /\ m.got = 0 /\ m.alternative /\ Goto(a, "post", m)
    BY <1>1, <1>6 DEF Locals
  <2>. HIDE DEF m
  <2>. QED
    BY <1>0, <1>1, <1>2, <1>3, <1>6, <2>1, InsideSafe DEF Still
<1>. QED
  BY <1>4, <1>5, <1>6 DEF Refused

LEMMA AlternativesSafe == ASSUME ~Keyed, Types, Safe, NEW a \in Actors, Alternatives(a) PROVE Safe'
<1>0. /\ at[a] = "alternatives" /\ at[a] \in Holding /\ at[a] \in Aware
      /\ Still /\ UNCHANGED cred /\ SameRefresh
  BY DEF Alternatives, Aware, Holding, Exchanging, Still, SameRefresh, backendVars
<1>1. mem[a] \in Locals /\ mem[a].got = 0 /\ mem[a].alternative /\ issued' \in Nat
  BY <1>0, MineTyped DEF Safe, ActorOK, Still, Types, WorldOK, Tokens
<1>2. cred[mem[a].obj].refresh \notin live
  BY <1>0, <1>1 DEF Safe, ActorOK
<1>3. AllIssued' /\ (UNCHANGED lock => Undisturbed(a))
  BY <1>0, StillIssued, StillUndisturbed
<1>4. PICK left :
        IF left = <<>>
        THEN Leave(a, "failed") /\ Release(a)
        ELSE /\ Goto(a, "post", [mem[a] EXCEPT !.show = Head(left), !.left = Tail(left)])
             /\ UNCHANGED lock
  BY Zenon DEF Alternatives
<1>5. CASE Leave(a, "failed") /\ Release(a)
  BY <1>0, <1>5, FailSafe
<1>6. CASE /\ Goto(a, "post", [mem[a] EXCEPT !.show = Head(left), !.left = Tail(left)])
           /\ UNCHANGED lock
  <2>. DEFINE m == [mem[a] EXCEPT !.show = Head(left), !.left = Tail(left)]
  <2>1. m.obj = mem[a].obj /\ m.got = 0 /\ m.alternative /\ Goto(a, "post", m)
    BY <1>1, <1>6 DEF Locals
  <2>. HIDE DEF m
  <2>. QED
    BY <1>0, <1>1, <1>2, <1>3, <1>6, <2>1, InsideSafe DEF Still
<1>. QED
  BY <1>4, <1>5, <1>6

\* Stored or not, the answer is on its way into the object.
LEMMA PersistSafe ==
    ASSUME ~Keyed, Types, Safe, NEW a \in Actors, Persist(a) \/ PersistFails(a)
    PROVE  Safe'
<1>0. /\ at[a] \in Holding /\ at[a] \in Aware /\ Goto(a, "persisted", mem[a])
      /\ UNCHANGED <<live, issued, other, lock>>
  BY DEF Persist, PersistFails, Aware, Holding, Exchanging, backendVars
<1>1. /\ mem[a] \in Locals /\ mem[a].got \in Tokens /\ mem[a].got <= issued
      /\ issued' = issued /\ issued \in Nat /\ live' = live /\ Held(a) \in Creds
  BY <1>0, MineTyped DEF Locals, Safe, ActorOK, Types, WorldOK, Tokens
<1>2. SameRefresh
  BY <1>1 DEF Persist, PersistFails, SameRefresh, Types, StoreOK, Fields
<1>3. row' # None => row'.token <= issued
  <2>1. CASE Persist(a)
    <3>1. row \in [token : Tokens, ent : Enterprises] /\ row' = [row EXCEPT !.token = mem[a].got]
      BY <2>1 DEF Persist, Stored, Types, StoreOK, Rows
    <3>. QED
      BY <1>1, <3>1
  <2>2. CASE PersistFails(a)
    BY <2>2 DEF PersistFails, Safe, AllIssued
  <2>. QED
    BY <2>1, <2>2
<1>4. AllIssued'
  BY <1>0, <1>2, <1>3 DEF Safe, AllIssued, SameRefresh
<1>5. Undisturbed(a)
  BY <1>0, <1>1 DEF Undisturbed
<1>. QED
  BY <1>0, <1>1, <1>4, <1>5, InsideSafe

LEMMA PublishSafe == ASSUME ~Keyed, Types, Safe, NEW a \in Actors, Publish(a) PROVE Safe'
<1>0. /\ at[a] \in Holding /\ at[a] \in Aware /\ Return(a, mem[a].got) /\ Release(a)
      /\ UNCHANGED <<live, issued, row, other>> /\ Still
  BY DEF Publish, Aware, Holding, Exchanging, backendVars, Still
<1>1. mem[a].got \in Tokens /\ mem[a].got <= issued /\ Held(a) \in Creds
  BY <1>0, MineTyped DEF Locals, Safe, ActorOK
<1>2. Outside(a)
  BY <1>0, <1>1, ReturnOutside
<1>3. Undisturbed(a)
  BY <1>0, StillUndisturbed
<1>4. \A o \in Creds : cred'[o].refresh <= issued
  <2>1. cred \in [Creds -> Fields] /\ \A o \in Creds : cred[o].refresh <= issued
    BY DEF Types, StoreOK, Safe, AllIssued
  <2>2. cred'[Held(a)].refresh = mem[a].got
    BY <1>1, <2>1 DEF Publish, Fields
  <2>3. \A o \in Creds : o # Held(a) => cred'[o] = cred[o]
    BY <1>1, <2>1 DEF Publish
  <2>. QED
    BY <1>1, <2>1, <2>2, <2>3
<1>5. AllIssued'
  BY <1>0, <1>4 DEF Safe, AllIssued
<1>. QED
  BY <1>2, <1>3, <1>5, OutsideSafe

LEMMA ThreadSafe ==
    ASSUME ~Keyed, Types, Safe, NEW a \in Actors, Begin(a) \/ Step(a) PROVE Safe'
<1>1. CASE Exchange(a)
  BY <1>1, RotateSafe, LostSafe, RefusedSafe, AlternativesSafe, PersistSafe, PublishSafe
  DEF Exchange
<1>2. CASE Begin(a) \/ Wake(a) \/ Queue(a) \/ Unauthorized(a) \/ RetrySkip(a) \/ Look(a)
           \/ Served(a) \/ Due(a)
  BY <1>2, OutsideStepsSafe
<1>3. CASE TakeLock(a) \/ RetryTake(a) \/ Rewrite(a)
  BY <1>3, TakeLockSafe, RetryTakeSafe, RewriteSafe
<1>. QED
  BY <1>1, <1>2, <1>3 DEF Step

\* What moves no thread.
LEMMA ElsewhereSafe ==
    ASSUME ~Keyed, Types, Safe, UNCHANGED <<threadVars, lock>>, SameRefresh, AllIssued',
           issued' \in Nat, issued <= issued',
           \A n \in Tokens : n <= issued /\ n \notin live => n \notin live'
    PROVE  Safe'
<1>1. ASSUME NEW b \in Actors PROVE ActorOK(b)'
  <2>1. at'[b] = at[b] /\ mem'[b] = mem[b] /\ ActorOK(b)
    BY DEF threadVars, Safe
  <2>2. mem[b].got <= issued'
    <3>1. mem[b].got \in Nat /\ issued \in Nat
      BY DEF Types, ThreadsOK, WorldOK, Locals, Tokens
    <3>. QED
      BY <2>1, <3>1 DEF ActorOK
  <2>3. CASE at[b] \in Holding
    <3>1. mem[b].obj \in Creds
      BY <2>3 DEF Types, ThreadsOK, Aware
    <3>2. cred'[mem[b].obj].refresh = cred[mem[b].obj].refresh
      BY <3>1 DEF SameRefresh
    <3>3. cred[mem[b].obj].refresh \in Tokens /\ cred[mem[b].obj].refresh <= issued
      BY <3>1 DEF Types, StoreOK, Fields, Safe, AllIssued
    <3>4. cred[mem[b].obj].refresh \notin live => cred'[mem[b].obj].refresh \notin live'
      BY <3>2, <3>3
    <3>. QED
      BY <2>1, <2>2, <3>2, <3>4 DEF ActorOK
  <2>4. CASE at[b] \notin Holding
    BY <2>1, <2>2, <2>4 DEF ActorOK, Holding, Exchanging
  <2>. QED
    BY <2>3, <2>4
<1>. QED
  BY <1>1 DEF Safe

LEMMA QuietlySafe ==
    ASSUME ~Keyed, Types, Safe, UNCHANGED <<threadVars, lock, live, issued>>, SameRefresh,
           row' # None => row'.token <= issued, other' <= issued
    PROVE  Safe'
<1>1. issued' = issued /\ issued \in Nat /\ live' = live
  BY DEF Types, WorldOK, Tokens
<1>2. AllIssued'
  BY <1>1 DEF Safe, AllIssued, SameRefresh
<1>. QED
  BY <1>1, <1>2, ElsewhereSafe

LEMMA OtherSafe == ASSUME ~Keyed, Types, Safe, Other PROVE Safe'
<1>0. /\ row # None => row.token \in Tokens /\ row.token <= issued
      /\ other \in Tokens /\ other <= issued /\ issued \in Nat
  BY DEF Types, StoreOK, WorldOK, Rows, Tokens, Safe, AllIssued
<1>1. CASE OtherRenews
  <2>1. /\ UNCHANGED <<row, cred, lock, threadVars>> /\ other' = issued + 1
        /\ Spend(row.token) /\ row # None
    BY <1>1 DEF OtherRenews
  <2>2. /\ issued' = issued + 1 /\ live' \subseteq 1..issued'
        /\ \A n \in Tokens : n <= issued /\ n \notin live => n \notin live'
    BY <1>0, <2>1, IssuedStays DEF Safe
  <2>3. AllIssued'
    <3>1. \A o \in Creds : cred[o].refresh \in Nat /\ cred[o].refresh <= issued
      BY DEF Types, StoreOK, Fields, Tokens, Safe, AllIssued
    <3>2. row.token \in Nat
      BY <1>0, <2>1 DEF Tokens
    <3>. QED
      BY <1>0, <2>1, <2>2, <3>1, <3>2 DEF AllIssued
  <2>. QED
    BY <1>0, <2>1, <2>2, <2>3, ElsewhereSafe DEF SameRefresh
<1>2. CASE OtherStores
  <2>1. row' # None => row'.token = other
    BY <1>2 DEF OtherStores, Types, StoreOK, Rows
  <2>2. UNCHANGED <<threadVars, lock, live, issued>> /\ SameRefresh /\ other' = 0
    BY <1>2 DEF OtherStores, backendVars, SameRefresh
  <2>. QED
    BY <1>0, <2>1, <2>2, QuietlySafe
<1>3. CASE OtherDies
  <2>1. UNCHANGED <<threadVars, lock, live, issued, row>> /\ SameRefresh /\ other' = 0
    BY <1>3 DEF OtherDies, backendVars, SameRefresh
  <2>. QED
    BY <1>0, <2>1, QuietlySafe
<1>. QED
  BY <1>1, <1>2, <1>3 DEF Other

LEMMA BootSafe ==
    ASSUME ~Keyed, Types, Safe, Boot, UNCHANGED <<row, other>>, issued' \in Nat,
           issued <= issued', live' \subseteq 1..issued'
    PROVE  Safe'
<1>0. /\ row # None /\ row.token \in Nat /\ row.token <= issued
      /\ other \in Nat /\ other <= issued /\ issued \in Nat
  BY DEF Types, StoreOK, WorldOK, Rows, Tokens, Safe, AllIssued
<1>1. \A a \in Actors : at'[a] = "idle" /\ mem'[a].got = 0
  BY DEF Boot, Blank
<1>2. \A a \in Actors : ActorOK(a)'
  BY <1>1 DEF ActorOK, Holding, Exchanging
<1>3. \A o \in Creds : cred'[o].refresh = row.token
  BY DEF Boot, Unused
<1>4. AllIssued'
  BY <1>0, <1>3 DEF AllIssued
<1>. QED
  BY <1>2, <1>4 DEF Safe

LEMMA RestartSafe == ASSUME ~Keyed, Types, Safe, Restart \/ Reprovision PROVE Safe'
<1>0. issued \in Nat /\ live \subseteq 1..issued
  BY DEF Types, WorldOK, Tokens, Safe, AllIssued
<1>1. /\ Boot /\ UNCHANGED <<row, other>>
      /\ \/ issued' = issued /\ live' = live
         \/ issued' = issued + 1 /\ live' = {issued + 1}
  BY DEF Restart, Reprovision, backendVars
<1>2. CASE issued' = issued /\ live' = live
  <2>1. issued' \in Nat /\ issued <= issued' /\ live' \subseteq 1..issued'
    BY <1>0, <1>2
  <2>. QED
    BY <1>1, <2>1, BootSafe
<1>3. CASE issued' = issued + 1 /\ live' = {issued + 1}
  <2>1. issued + 1 \in Nat /\ issued <= issued + 1 /\ issued + 1 \in 1..(issued + 1)
    BY <1>0
  <2>2. issued' \in Nat /\ issued <= issued' /\ live' \subseteq 1..issued'
    BY <1>3, <2>1
  <2>. QED
    BY <1>1, <2>2, BootSafe
<1>. QED
  BY <1>1, <1>2, <1>3

LEMMA StepSafe == ASSUME ~Keyed, Types, Safe, [Next]_vars PROVE Safe'
<1>0. (row # None => row.token <= issued) /\ other <= issued
  BY DEF Safe, AllIssued
<1>1. ASSUME NEW t \in Turns, Begin(t) PROVE Safe'
  <2>1. t \in Actors
    BY DEF Actors
  <2>. QED
    BY <1>1, <2>1, ThreadSafe
<1>2. ASSUME NEW a \in Actors, Step(a) PROVE Safe'
  BY <1>2, ThreadSafe
<1>3. ASSUME NEW o \in Creds, Expire(o) PROVE Safe'
  <2>1. UNCHANGED <<threadVars, lock, live, issued, row, other>>
    BY <1>3 DEF Expire, backendVars
  <2>2. SameRefresh
    BY <1>3 DEF Expire, SameRefresh, Types, StoreOK, Fields
  <2>. QED
    BY <1>0, <2>1, <2>2, QuietlySafe
<1>4. CASE BeginShutdown \/ CloseWaits \/ Close \/ UNCHANGED vars
  <2>1. UNCHANGED <<threadVars, lock, live, issued, row, other>> /\ SameRefresh
    BY <1>4 DEF BeginShutdown, CloseWaits, Close, vars, backendVars, SameRefresh
  <2>. QED
    BY <1>0, <2>1, QuietlySafe
<1>. QED
  BY <1>1, <1>2, <1>3, <1>4, OtherSafe, RestartSafe DEF Next, Threads

LEMMA InitSafe == ASSUME ~Keyed, Init PROVE Safe
<1>1. \A a \in Actors : at[a] = "idle" /\ mem[a].got = 0
  BY DEF Init, Blank
<1>2. issued = 1 /\ live = {1} /\ other = 0 /\ row.token = 1
  BY DEF Init
<1>3. \A o \in Creds : cred[o].refresh = 1
  BY DEF Init, Unused
<1>4. \A a \in Actors : ActorOK(a)
  BY <1>1, <1>2 DEF ActorOK, Holding, Exchanging
<1>5. AllIssued
  BY <1>2, <1>3 DEF AllIssued
<1>. QED
  BY <1>4, <1>5 DEF Safe

\* A thread at its request has the lock to itself, and shows the object's own token or,
\* that one refused, another: so what it shows is spent only if the object's is, and
\* nobody has been given another.
LEMMA SafePresents == ASSUME ~Keyed, Types, Safe PROVE PresentsLive
<1>. SUFFICES ASSUME NEW a \in Actors, at[a] = "post", mem[a].show \notin live
              PROVE  /\ \A o \in Creds : cred[o].refresh \notin live
                     /\ \A b \in Actors : mem[b].got \notin live
  BY DEF PresentsLive
<1>0. at[a] \in Holding /\ ActorOK(a) /\ mem[a].obj \in Creds
  BY DEF Safe, Types, ThreadsOK, Aware, Holding, Exchanging
<1>1. cred[mem[a].obj].refresh \notin live
  BY <1>0 DEF ActorOK
<1>2. \A o \in Creds : cred[o].refresh \notin live
  BY <1>0, <1>1, OneObject
<1>3. ASSUME NEW b \in Actors PROVE mem[b].got \notin live
  <2>1. mem[b].got = 0
    <3>1. at[b] \notin {"minted", "persisted"}
      <4>1. CASE a = b
        BY <4>1
      <4>2. CASE a # b
        BY <1>0, <4>2, OneInside DEF Safe, Holding, Exchanging
      <4>. QED
        BY <4>1, <4>2
    <3>. QED
      BY <3>1 DEF Safe, ActorOK
  <2>2. 0 \notin live
    BY DEF Safe, AllIssued, Types, WorldOK, Tokens
  <2>. QED
    BY <2>1, <2>2
<1>. QED
  BY <1>2, <1>3

\* The process-wide default presents a spent refresh token only when the process has
\* lost the live one, for any number of threads, tokens and failures (renew_lock held
\* across the exchange, intended, _alternative_credentials).
THEOREM OneRenewal == ASSUME ~Keyed PROVE Spec => []PresentsLive
<1>1. Init => Types /\ Safe
  BY InitTyped, InitSafe
<1>2. Types /\ Safe /\ [Next]_vars => Types' /\ Safe'
  BY StepTyped, StepSafe
<1>3. Types /\ Safe => PresentsLive
  BY SafePresents
<1>. QED
  BY <1>1, <1>2, <1>3, PTL DEF Spec
=============================================================================
