--------------------------- MODULE ThreadLinkProofs ---------------------------
(***************************************************************************)
(* More theorems of ThreadTurns: what the row says of its case, what the   *)
(* thread was told, and that the row implements CaseLink.  They rest on    *)
(* the types and the gate of ThreadTurnsProofs: only the interaction that  *)
(* holds the thread writes its row.                                        *)
(***************************************************************************)
EXTENDS ThreadTurnsProofs

-----------------------------------------------------------------------------
(* The holder's steps. *)

\* While e steps under the gate, no other interaction is under it.
LEMMA OthersRest ==
    ASSUME TypeInv, OneTurnPerThread, NEW e \in Events, Inside(e)
    PROVE  \A f \in Events : f # e => /\ pc'[f] = pc[f] /\ job'[f] = job[f]
                                      /\ pc[f] \notin Gated
<1>1. pc \in [Events -> {"idle", "done"} \union Waiting \union Gated]
  BY DEF TypeInv, TypeOK
<1>2. \A f \in Events : f # e => pc[f] \notin Gated
  BY DEF OneTurnPerThread, Inside, Holds
<1> QED BY <1>1, <1>2 DEF Inside, Frame

\* q says of the thread's case what r does.
SameCase(q, r) == SameLink(q, r) /\ q.seeded = r.seeded

LEMMA SameCaseReads ==
    ASSUME NEW q, NEW r, SameCase(q, r)
    PROVE  /\ get(q) = get(r) /\ is_unlinked(q) = is_unlinked(r)
           /\ is_seeded(q) = is_seeded(r)
           /\ q.present = r.present /\ q.case = r.case /\ q.seeded = r.seeded
  BY DEF SameCase, SameLink, get, is_unlinked, is_seeded, Linked

-----------------------------------------------------------------------------
(* The row and the case of the turn in flight. *)

\* Where a turn runs on the case it read, and where that turn has committed.
InTurn   == {"submit", "unlink", "seed", "announce", "clear", "deliver", "record"}
Answered == {"seed", "announce", "clear", "deliver", "record"}

\* What the row, the pointers and the backend agree on.
RowTrue ==
    /\ row.seeded => row.case \in landed
    /\ row.present => cases[row.case] # "unborn"
    /\ \A i \in DOMAIN pointers : pointers[i] \in landed
    /\ \A c \in landed : cases[c] # "unborn"

\* What a worker has established where it stands: no mapping while it opens a
\* case, its own case from there on, and the catch-up unless the row is seeded.
Stands(e) ==
    /\ pc[e] \in {"create", "map"} => get(row) = None
    /\ pc[e] = "map" => cases[job[e].case] # "unborn"
    /\ pc[e] \in InTurn => get(row) = job[e].case
    /\ pc[e] \in Answered => job[e].case \in landed
    /\ pc[e] = "mark" => row.present /\ row.case \in landed
    /\ pc[e] \in {"place", "find", "create", "map", "submit"}
           /\ Kind(e) \in {"mention", "followup"} => job[e].tried \/ is_seeded(row)

LinkInv == RowTrue /\ \A e \in Events : Stands(e)

LEMMA LinkLocked ==
    ASSUME TypeInv, LinkInv, NEW e \in Events, Locked(e)
    PROVE  RowTrue' /\ Stands(e)'
<1>a. RowTrue /\ Stands(e)
  BY DEF LinkInv
<1>b. /\ row \in Row /\ job \in [Events -> Job] /\ job[e] \in Job
      /\ cases \in [Cases -> {"unborn", "live", "gone"}] /\ landed \subseteq Cases
      /\ pc \in [Events -> {"idle", "done"} \union Waiting \union Gated]
      /\ pointers \in Seq(Cases)
      /\ pc[e] \in InCase => job[e].case \in Cases
  BY DEF TypeInv, TypeOK, JobOK
<1>c. /\ get(row) \in Cases \union {None}
      /\ get(row) # None => row.present /\ get(row) = row.case
      /\ is_seeded(row) => get(row) # None /\ row.seeded
      /\ is_unlinked(row) => get(row) = None /\ row.present
  BY <1>b, Reads DEF Linked
<1> USE <1>a, <1>b, <1>c, NoneAssumption
        DEF RowTrue, Stands, InTurn, Answered, InCase, At, Goto, Escape, Kind, Fail,
            storeVars, procVars, backVars, slackVars, logVars
<1>1. ASSUME StartWorker(e) PROVE RowTrue' /\ Stands(e)'
  BY <1>1 DEF StartWorker
<1>2. ASSUME StartFails(e) PROVE RowTrue' /\ Stands(e)'
  BY <1>2 DEF StartFails
<1>3. ASSUME PostPlaceholder(e) PROVE RowTrue' /\ Stands(e)'
  BY <1>3 DEF PostPlaceholder
<1>4. ASSUME BeginClick(e) PROVE RowTrue' /\ Stands(e)'
  BY <1>4 DEF BeginClick
<1>5. ASSUME BeginBox(e) PROVE RowTrue' /\ Stands(e)'
  BY <1>5 DEF BeginBox
<1>6. ASSUME TellMissing(e) PROVE RowTrue' /\ Stands(e)'
  BY <1>6 DEF TellMissing
<1>41. ASSUME ForgetThread(e) PROVE RowTrue' /\ Stands(e)'
  BY <1>41, NoRowFields DEF ForgetThread
<1>7. ASSUME BeginAssistant(e) PROVE RowTrue' /\ Stands(e)'
  BY <1>7 DEF BeginAssistant
<1>8. ASSUME BeginFollowup(e) PROVE RowTrue' /\ Stands(e)'
  BY <1>8 DEF BeginFollowup
<1>9. ASSUME ClaimNotice(e) PROVE RowTrue' /\ Stands(e)'
  <2>1. SameCase(row', row)
    BY <1>9, NoticeRow DEF ClaimNotice, SameCase
  <2>2. /\ get(row') = get(row) /\ is_seeded(row') = is_seeded(row)
        /\ row'.present = row.present /\ row'.case = row.case /\ row'.seeded = row.seeded
    BY <2>1, SameCaseReads
  <2> QED BY <1>9, <2>2 DEF ClaimNotice
<1>10. ASSUME PostNotice(e) PROVE RowTrue' /\ Stands(e)'
  <2>1. SameCase(row', row)
    BY <1>10, NoticeRow DEF PostNotice, SameCase, SameLink
  <2>2. /\ get(row') = get(row) /\ is_seeded(row') = is_seeded(row)
        /\ row'.present = row.present /\ row'.case = row.case /\ row'.seeded = row.seeded
    BY <2>1, SameCaseReads
  <2> QED BY <1>10, <2>2 DEF PostNotice
<1>11. ASSUME RecoverLostCase(e) PROVE RowTrue' /\ Stands(e)'
  <2>1. Head(pointers) \in landed
    BY <1>11 DEF RecoverLostCase
  <2>2. /\ row' \in Row /\ row'.present /\ row'.case = Head(pointers) /\ ~row'.seeded
        /\ get(row') = Head(pointers)
    BY <1>11, <2>1, PutRow, StoredFields DEF RecoverLostCase, Row
  <2>3. /\ RowTrue' /\ pc'[e] = "mark"
    BY <1>11, <2>1, <2>2 DEF RecoverLostCase
  <2> QED BY <1>11, <2>1, <2>2, <2>3 DEF RecoverLostCase
<1>12. ASSUME MarkRecovered(e) PROVE RowTrue' /\ Stands(e)'
  <2>1. SameLink(row', row) /\ row.case \in landed
    BY <1>12, SeededRow DEF MarkRecovered
  <2>2. row'.present = row.present /\ row'.case = row.case
    BY <2>1 DEF SameLink
  <2> QED BY <1>12, <2>1, <2>2 DEF MarkRecovered
<1>13. ASSUME RecoverNothing(e) PROVE RowTrue' /\ Stands(e)'
  BY <1>13 DEF RecoverNothing
<1>14. ASSUME OrphanRaises(e) PROVE RowTrue' /\ Stands(e)'
  BY <1>14 DEF OrphanRaises
<1>15. ASSUME ReadThread(e) PROVE RowTrue' /\ Stands(e)'
  <2>1. /\ Moves(e)
        /\ job'[e].tried = (Kind(e) \in {"mention", "followup"} /\ ~is_seeded(row))
    BY <1>15, ReadThreadJob
  <2> QED BY <1>15, <2>1 DEF ReadThread, Moves
<1>16. ASSUME ReadRaises(e) PROVE RowTrue' /\ Stands(e)'
  BY <1>16 DEF ReadRaises
<1>17. ASSUME Decline(e) PROVE RowTrue' /\ Stands(e)'
  BY <1>17 DEF Decline
<1>18. ASSUME FindCase(e) PROVE RowTrue' /\ Stands(e)'
  <2>1. /\ Moves(e) /\ job'[e].case = get(row) /\ get(row) \in Cases
        /\ job'[e].tried = job[e].tried
    BY <1>18, FindCaseJob
  <2> QED BY <1>18, <2>1 DEF FindCase, Moves
<1>19. ASSUME FindNone(e) PROVE RowTrue' /\ Stands(e)'
  <2>1. Moves(e) /\ job'[e].tried = job[e].tried
    BY <1>19, FindNoneJob
  <2> QED BY <1>19, <2>1 DEF FindNone, Moves
<1>20. ASSUME ClickFindsNone(e) PROVE RowTrue' /\ Stands(e)'
  BY <1>20 DEF ClickFindsNone
<1>21. ASSUME FindRaises(e) PROVE RowTrue' /\ Stands(e)'
  BY <1>21 DEF FindRaises
<1>22. ASSUME Create(e) PROVE RowTrue' /\ Stands(e)'
  <2>1. PICK c \in Cases : /\ cases[c] = "unborn" /\ cases' = [cases EXCEPT ![c] = "live"]
                           /\ Moves(e) /\ job'[e].case = c
                           /\ job'[e].tried = job[e].tried
    BY <1>22, CreateJob
  <2>2. \A d \in Cases : cases[d] # "unborn" => cases'[d] # "unborn"
    BY <2>1
  <2>3. cases'[c] # "unborn"
    BY <2>1
  <2>4. row.present => row.case \in Cases
    BY Reads, StoredFields
  <2>5. RowTrue'
    BY <1>22, <2>2, <2>4 DEF Create
  <2>6. Stands(e)'
    BY <1>22, <2>1, <2>3 DEF Create, Moves
  <2> QED BY <2>5, <2>6
<1>23. ASSUME CreateFails(e) PROVE RowTrue' /\ Stands(e)'
  <2>1. /\ UNCHANGED <<row, landed, pointers>> /\ pc'[e] = "finish"
        /\ \A d \in Cases : cases[d] # "unborn" => cases'[d] # "unborn"
    BY <1>23 DEF CreateFails
  <2>2. row.present => row.case \in Cases
    BY Reads, StoredFields
  <2>3. RowTrue'
    BY <2>1, <2>2
  <2>4. Stands(e)'
    BY <2>1
  <2> QED BY <2>3, <2>4
<1>24. ASSUME MapRaises(e) PROVE RowTrue' /\ Stands(e)'
  BY <1>24 DEF MapRaises
<1>25. ASSUME MapThread(e) PROVE RowTrue' /\ Stands(e)'
  <2>1. /\ row' \in Stored /\ row'.case = job[e].case /\ get(row') = job[e].case
        /\ ~row'.seeded
    BY <1>25, PutRow DEF MapThread
  <2>2. job[e].tried \/ Kind(e) \notin {"mention", "followup"}
    BY <1>25 DEF MapThread
  <2>3. RowTrue'
    BY <1>25, <2>1 DEF MapThread
  <2>4. pc'[e] = "submit" /\ job' = job
    BY <1>25 DEF MapThread
  <2> QED BY <2>1, <2>2, <2>3, <2>4
<1>26. ASSUME SubmitCommits(e) PROVE RowTrue' /\ Stands(e)'
  <2>1. /\ landed' = landed \union {job[e].case} /\ cases[job[e].case] = "live"
        /\ UNCHANGED <<row, cases, job, pointers>>
        /\ pc'[e] \in {"deliver", "seed"}
    BY <1>26 DEF SubmitCommits, Commits
  <2>2. RowTrue'
    BY <2>1
  <2>3. Stands(e)'
    BY <1>26, <2>1 DEF SubmitCommits
  <2> QED BY <2>2, <2>3
<1>27. ASSUME SubmitReplayLost(e) PROVE RowTrue' /\ Stands(e)'
  <2>1. /\ landed' = landed \union {job[e].case} /\ cases[job[e].case] = "live"
        /\ UNCHANGED <<row, cases, pointers>>
        /\ pc'[e] \in {"finish", "seed"}
    BY <1>27 DEF SubmitReplayLost, Commits
  <2>2. RowTrue'
    BY <2>1
  <2>3. job' = job \/ (Moves(e) /\ job'[e].case = job[e].case)
    BY <1>27, ReplayLostJob
  <2>4. job'[e].case = job[e].case
    BY <2>3
  <2>5. Stands(e)'
    BY <1>27, <2>1, <2>4 DEF SubmitReplayLost
  <2> QED BY <2>2, <2>5
<1>28. ASSUME SubmitRefused(e) PROVE RowTrue' /\ Stands(e)'
  BY <1>28 DEF SubmitRefused
<1>29. ASSUME SubmitUnknown(e) PROVE RowTrue' /\ Stands(e)'
  BY <1>29 DEF SubmitUnknown
<1>30. ASSUME SubmitEmptyRefused(e) PROVE RowTrue' /\ Stands(e)'
  BY <1>30 DEF SubmitEmptyRefused
<1>31. ASSUME SubmitNotFound(e) PROVE RowTrue' /\ Stands(e)'
  BY <1>31 DEF SubmitNotFound
<1>32. ASSUME UnlinkStaleCase(e) PROVE RowTrue' /\ Stands(e)'
  <2>1. row'.seeded = row.seeded /\ row'.case = row.case /\ (row'.present => row.present)
    BY <1>32, TombstoneRow DEF UnlinkStaleCase
  <2> QED BY <1>32, <2>1 DEF UnlinkStaleCase
<1>33. ASSUME UnlinkRaises(e) PROVE RowTrue' /\ Stands(e)'
  BY <1>33 DEF UnlinkRaises
<1>34. ASSUME Seed(e) PROVE RowTrue' /\ Stands(e)'
  <2>1. SameLink(row', row)
    BY <1>34, SeededRow DEF Seed, SameLink
  <2>2. /\ get(row') = get(row) /\ row'.present = row.present /\ row'.case = row.case
    BY <2>1, SameLinkReads DEF SameLink
  <2>3. row.case \in landed
    BY <1>34 DEF Seed
  <2>4. UNCHANGED <<job, cases, landed, pointers>> /\ pc'[e] \in {"announce", "explain"}
    BY <1>34 DEF Seed, AfterSeed
  <2>5. RowTrue'
    BY <2>2, <2>3, <2>4
  <2>6. Stands(e)'
    BY <1>34, <2>2, <2>4 DEF Seed
  <2> QED BY <2>5, <2>6
<1>42. ASSUME Explain(e) PROVE RowTrue' /\ Stands(e)'
  BY <1>42 DEF Explain
<1>35. ASSUME Announce(e) PROVE RowTrue' /\ Stands(e)'
  BY <1>35 DEF Announce
<1>43. ASSUME ClearActions(e) PROVE RowTrue' /\ Stands(e)'
  <2>1. SameCase(row', row)
    BY <1>43, MarkedRow DEF ClearActions, SameCase, SameLink
  <2>2. /\ get(row') = get(row) /\ is_seeded(row') = is_seeded(row)
        /\ row'.present = row.present /\ row'.case = row.case /\ row'.seeded = row.seeded
    BY <2>1, SameCaseReads
  <2> QED BY <1>43, <2>2 DEF ClearActions
<1>36. ASSUME AnnounceRaises(e) PROVE RowTrue' /\ Stands(e)'
  BY <1>36 DEF AnnounceRaises
<1>37. ASSUME DeliverBlocks(e) PROVE RowTrue' /\ Stands(e)'
  BY <1>37 DEF DeliverBlocks
<1>38. ASSUME DeliverDegraded(e) PROVE RowTrue' /\ Stands(e)'
  BY <1>38 DEF DeliverDegraded
<1>39. ASSUME Record(e) PROVE RowTrue' /\ Stands(e)'
  <2>1. /\ job[e].ts \in Events \union {None}
        /\ (IF job[e].buttons THEN e ELSE None) \in Events \union {None}
    BY JobFields
  <2>2. PICK t \in Events \union {None}, a \in Events \union {None} :
            row' = IF open THEN record_turn(row, t, a) ELSE row
    BY <1>39, <2>1 DEF Record
  <2>3. SameCase(row', row)
    <3>1. SameCase(record_turn(row, t, a), row)
      BY MarkedRow DEF SameCase
    <3>2. SameCase(row, row)
      BY DEF SameCase, SameLink
    <3> QED BY <2>2, <3>1, <3>2
  <2>4. /\ get(row') = get(row) /\ is_seeded(row') = is_seeded(row)
        /\ row'.present = row.present /\ row'.case = row.case /\ row'.seeded = row.seeded
    BY <2>3, SameCaseReads
  <2> QED BY <1>39, <2>4 DEF Record
<1>40. ASSUME Finish(e) PROVE RowTrue' /\ Stands(e)'
  BY <1>40 DEF Finish
<1> QED
  BY <1>1, <1>2, <1>3, <1>4, <1>5, <1>6, <1>7, <1>8, <1>9, <1>10, <1>11, <1>12, <1>13,
     <1>14, <1>15, <1>16, <1>17, <1>18, <1>19, <1>20, <1>21, <1>22, <1>23, <1>24, <1>25,
     <1>26, <1>27, <1>28, <1>29, <1>30, <1>31, <1>32, <1>33, <1>34, <1>35, <1>36, <1>37,
     <1>38, <1>39, <1>40, <1>41, <1>42, <1>43 DEF Locked

\* A step that leaves what the row stands for, and e's place, keeps e's part.
LEMMA StandsStill ==
    ASSUME NEW e \in Events, Stands(e), UNCHANGED <<row, cases, landed>>,
           pc'[e] = pc[e], job'[e] = job[e]
    PROVE  Stands(e)'
  BY DEF Stands, Kind

\* Nothing is asked of an interaction that does not hold the thread.
LEMMA StandsOutside ==
    ASSUME NEW e \in Events, pc[e] \notin Gated
    PROVE  Stands(e)
  BY DEF Stands, InTurn, Answered, Gated

LEMMA LinkInit == Init => LinkInv
<1> SUFFICES ASSUME Init PROVE LinkInv
  OBVIOUS
<1>1. RowTrue
  BY NoRowFields DEF Init, RowTrue
<1>2. \A e \in Events : pc[e] \notin Gated
  BY DEF Init, Gated
<1> QED BY <1>1, <1>2, StandsOutside DEF LinkInv

LEMMA LinkNext == TypeInv /\ OneTurnPerThread /\ LinkInv /\ [Next]_vars => LinkInv'
<1> SUFFICES ASSUME TypeInv, OneTurnPerThread, LinkInv, [Next]_vars PROVE LinkInv'
  OBVIOUS
<1>0. /\ RowTrue /\ \A e \in Events : Stands(e)
      /\ pc \in [Events -> {"idle", "done"} \union Waiting \union Gated]
      /\ cases \in [Cases -> {"unborn", "live", "gone"}]
  BY DEF LinkInv, TypeInv, TypeOK
<1>a. \A e \in Events : pc'[e] \notin Gated => Stands(e)'
  BY DEF Stands, InTurn, Answered, Gated
<1>1. ASSUME NEW e \in Events, Outside(e) PROVE LinkInv'
  <2>1. RowTrue'
    BY <1>0, <1>1 DEF Outside, RowTrue
  <2>2. ASSUME NEW f \in Events PROVE Stands(f)'
    <3>1. CASE f = e
      BY <1>1, <1>a, <3>1 DEF Outside
    <3>2. CASE f # e
      BY <1>0, <1>1, <3>2, StandsStill DEF Outside, Frame
    <3> QED BY <3>1, <3>2
  <2> QED BY <2>1, <2>2 DEF LinkInv
<1>2. ASSUME NEW e \in Events, Enters(e) PROVE LinkInv'
  <2>1. RowTrue'
    BY <1>0, <1>2 DEF Enters, RowTrue, backVars, slackVars
  <2>2. ASSUME NEW f \in Events PROVE Stands(f)'
    <3>1. CASE f = e
      BY <1>2, <3>1 DEF Enters, Stands, InTurn, Answered
    <3>2. CASE f # e
      BY <1>0, <1>2, <3>2, StandsStill DEF Enters, Frame, backVars
    <3> QED BY <3>1, <3>2
  <2> QED BY <2>1, <2>2 DEF LinkInv
<1>3. ASSUME NEW e \in Events, Locked(e), Inside(e) PROVE LinkInv'
  <2>1. RowTrue' /\ Stands(e)'
    BY <1>3, LinkLocked
  <2>2. \A f \in Events : f # e => Stands(f)'
    BY <1>3, <1>a, OthersRest
  <2> QED BY <2>1, <2>2 DEF LinkInv
<1>4. ASSUME NEW c \in Cases, DeleteCase(c) PROVE LinkInv'
  <2>1. /\ UNCHANGED <<row, landed, pointers, pc, job>>
        /\ \A d \in Cases : cases[d] # "unborn" => cases'[d] # "unborn"
    BY <1>0, <1>4 DEF DeleteCase, slackVars, storeVars
  <2>2. row.present => row.case \in Cases
    BY Reads, StoredFields DEF TypeInv, TypeOK
  <2>3. RowTrue'
    BY <1>0, <2>1, <2>2 DEF RowTrue, TypeInv, TypeOK
  <2>4. \A e \in Events : Stands(e)'
    BY <1>0, <2>1 DEF Stands, Kind, TypeInv, JobOK, InCase
  <2> QED BY <2>3, <2>4 DEF LinkInv
<1>5. ASSUME Shutdown \/ UNCHANGED vars PROVE LinkInv'
  <2>1. UNCHANGED <<row, cases, landed, pointers, pc, job>>
    BY <1>5 DEF Shutdown, vars, storeVars, backVars, slackVars
  <2>2. RowTrue'
    BY <1>0, <2>1 DEF RowTrue
  <2> QED BY <1>0, <2>1, <2>2, StandsStill DEF LinkInv
<1>6. ASSUME NEW kept \in BOOLEAN, Restart(kept) PROVE LinkInv'
  <2>1. RowTrue'
    BY <1>0, <1>6, NoRowFields DEF Restart, RowTrue, backVars
  <2>2. \A e \in Events : pc'[e] \notin Gated
    BY <1>6 DEF Restart, Gated
  <2> QED BY <1>a, <2>1, <2>2 DEF LinkInv
<1> QED BY <1>1, <1>2, <1>3, <1>4, <1>5, <1>6, StepCases

\* All of it together is inductive.
LEMMA Linking == Spec => [](TypeInv /\ OneTurnPerThread /\ LinkInv)
<1>1. Init => TypeInv /\ OneTurnPerThread /\ LinkInv
  BY TypeInit, GateInit, LinkInit
<1>2. TypeInv /\ OneTurnPerThread /\ LinkInv /\ [Next]_vars
          => (TypeInv /\ OneTurnPerThread /\ LinkInv)'
  BY TypeNext, GateNext, LinkNext
<1> QED BY <1>1, <1>2, PTL DEF Spec

\* run_turn works on the case it read once: whatever other interactions, a
\* deleted case, the closing store or a restart do meanwhile, the row still links
\* the thread to the case of the turn in flight.
THEOREM TurnKeepsItsCase == Spec => []TurnOnMappedCase
<1>1. LinkInv => TurnOnMappedCase
  BY DEF LinkInv, Stands, InTurn, TurnOnMappedCase
<1> QED BY <1>1, Linking, PTL

\* A row says seeded, and a thread shows a pointer, only for a case holding a
\* committed turn: mark_seeded runs after the commit, and recovery from the
\* thread only trusts a pointer that an answered turn posted.
THEOREM SeededCasesLanded == Spec => []SeededMeansLanded
<1>1. LinkInv => SeededMeansLanded
  BY DEF LinkInv, RowTrue, SeededMeansLanded
<1> QED BY <1>1, Linking, PTL

\* A mention or a reply submitted to a case with no committed turn asked for the
\* discussion so far: "not seeded" is read under the gate, and the row cannot
\* become another case's before the turn is submitted.
THEOREM CatchUpHolds == Spec => []CatchUpDelivered
<1>1. TypeInv /\ LinkInv => CatchUpDelivered
  <2> SUFFICES ASSUME TypeInv, LinkInv, NEW e \in Events, pc[e] = "submit",
                      Kind(e) \in {"mention", "followup"}
               PROVE  job[e].case \in landed \/ job[e].tried
    BY DEF CatchUpDelivered
  <2>1. RowTrue /\ Stands(e) /\ row \in Row
    BY DEF LinkInv, TypeInv, TypeOK
  <2>2. get(row) = job[e].case /\ (job[e].tried \/ is_seeded(row))
    BY <2>1 DEF Stands, InTurn
  <2>3. is_seeded(row) => get(row) = row.case /\ row.seeded
    BY <2>1, Reads
  <2> QED BY <2>1, <2>2, <2>3 DEF RowTrue
<1> QED BY <1>1, Linking, PTL

-----------------------------------------------------------------------------
(* Who writes the row, and what becomes of an explanation owed. *)

RowWrite(e) ==
    \/ ForgetThread(e) \/ ClaimNotice(e) \/ PostNotice(e) \/ RecoverLostCase(e)
    \/ MarkRecovered(e) \/ MapThread(e) \/ UnlinkStaleCase(e) \/ Seed(e)
    \/ ClearActions(e) \/ Record(e)

\* The other steps under the gate leave the row alone.
LEMMA RowWrites ==
    ASSUME TypeInv, NEW e \in Events, Locked(e)
    PROVE  RowWrite(e) \/ row' = row
<1> USE DEF RowWrite, storeVars
<1>1. CASE \/ StartWorker(e) \/ StartFails(e) \/ PostPlaceholder(e) \/ BeginClick(e)
           \/ BeginBox(e) \/ BeginAssistant(e) \/ TellMissing(e) \/ BeginFollowup(e)
           \/ RecoverNothing(e) \/ OrphanRaises(e) \/ ReadThread(e) \/ ReadRaises(e) \/ Decline(e)
  BY <1>1 DEF StartWorker, StartFails, PostPlaceholder, BeginClick, BeginBox, BeginAssistant,
              TellMissing, BeginFollowup, RecoverNothing, OrphanRaises, ReadThread, ReadRaises,
              Decline
<1>2. CASE \/ FindCase(e) \/ FindNone(e) \/ ClickFindsNone(e) \/ FindRaises(e) \/ Create(e)
           \/ CreateFails(e) \/ MapRaises(e)
  BY <1>2 DEF FindCase, FindNone, ClickFindsNone, FindRaises, Create, CreateFails, MapRaises
<1>3. CASE \/ SubmitCommits(e) \/ SubmitReplayLost(e) \/ SubmitRefused(e) \/ SubmitUnknown(e)
           \/ SubmitEmptyRefused(e) \/ SubmitNotFound(e) \/ UnlinkRaises(e)
           \/ Explain(e) \/ Announce(e) \/ AnnounceRaises(e) \/ DeliverBlocks(e)
           \/ DeliverDegraded(e) \/ Finish(e)
  BY <1>3 DEF SubmitCommits, SubmitReplayLost, SubmitRefused, SubmitUnknown,
              SubmitEmptyRefused, SubmitNotFound, UnlinkRaises, Explain, Announce,
              AnnounceRaises, DeliverBlocks, DeliverDegraded, Finish
<1> QED BY <1>1, <1>2, <1>3 DEF Locked

\* What was owed is still owed, or a turn has landed, or the row is gone.
DebtKept == restart_pending(row) /\ row'.present /\ ~restart_pending(row')
                => row'.seeded /\ row'.case \in landed'

LEMMA DebtWrite ==
    ASSUME TypeInv, LinkInv, NEW e \in Events, RowWrite(e)
    PROVE  DebtKept
<1>a. row \in Row /\ RowTrue /\ Stands(e) /\ (pc[e] \in InCase => job[e].case \in Cases)
  BY DEF LinkInv, TypeInv, TypeOK, JobOK
<1>b. row.present /\ row.restart /\ row'.restart = row.restart => DebtKept
  BY DEF DebtKept, restart_pending
<1>c. ~(row.present /\ row.restart) \/ ~row'.present => DebtKept
  BY DEF DebtKept, restart_pending
<1>1. ASSUME ForgetThread(e) PROVE DebtKept
  BY <1>1, <1>b, <1>c, NoRowFields DEF ForgetThread
<1>2. ASSUME ClaimNotice(e) PROVE DebtKept
  BY <1>2, <1>a, <1>b, <1>c, NoticeRow DEF ClaimNotice
<1>3. ASSUME PostNotice(e) PROVE DebtKept
  BY <1>3, <1>a, <1>b, <1>c, NoticeRow DEF PostNotice
<1>4. ASSUME RecoverLostCase(e) PROVE DebtKept
  <2>1. get(row) = None /\ ~is_unlinked(row)
    BY <1>4 DEF RecoverLostCase, NoRowYet
  <2>2. ~row.present
    BY <1>a, <2>1, Reads, NoRowFields
  <2> QED BY <1>c, <2>2
<1>5. ASSUME MarkRecovered(e) PROVE DebtKept
  <2>1. row.present /\ row.case \in landed /\ row' = mark_seeded(row) /\ landed' = landed
    BY <1>5, <1>a DEF MarkRecovered, Stands, At, backVars
  <2>2. row'.seeded /\ row'.case = row.case
    BY <1>a, <2>1, SeededRow DEF SameLink
  <2> QED BY <2>1, <2>2 DEF DebtKept
<1>6. ASSUME MapThread(e) PROVE DebtKept
  <2>1. row' = put(row, job[e].case) /\ job[e].case \in Cases
    BY <1>6, <1>a DEF MapThread, InCase, At
  <2>2. row'.restart = row.restart
    BY <1>a, <2>1, PutRow
  <2> QED BY <1>b, <1>c, <2>2
<1>7. ASSUME UnlinkStaleCase(e) PROVE DebtKept
  BY <1>7, <1>a, <1>c, TombstoneRow, Reads DEF UnlinkStaleCase, DebtKept, restart_pending,
     is_unlinked
<1>8. ASSUME Seed(e) PROVE DebtKept
  <2>1. CASE open
    <3>1. /\ row' = mark_seeded(row) /\ landed' = landed /\ pc[e] = "seed"
      BY <1>8, <2>1 DEF Seed, At, backVars
    <3>2. get(row) = job[e].case /\ job[e].case \in landed /\ job[e].case \in Cases
      BY <1>a, <3>1 DEF Stands, InTurn, Answered, InCase
    <3>3. row.present /\ row.case \in landed
      BY <1>a, <3>2, Reads, NoneAssumption DEF Linked
    <3>4. row'.seeded /\ row'.case = row.case
      BY <1>a, <3>1, <3>3, SeededRow DEF SameLink
    <3> QED BY <3>1, <3>3, <3>4 DEF DebtKept
  <2>2. CASE ~open
    BY <1>8, <2>2, <1>b, <1>c DEF Seed
  <2> QED BY <2>1, <2>2
<1>9. ASSUME ClearActions(e) PROVE DebtKept
  BY <1>9, <1>a, <1>b, <1>c, MarkedRow DEF ClearActions, SameNotice
<1>10. ASSUME Record(e) PROVE DebtKept
  <2>1. /\ job[e].ts \in Events \union {None}
        /\ (IF job[e].buttons THEN e ELSE None) \in Events \union {None}
    BY JobFields, JobTypes
  <2>2. PICK t \in Events \union {None}, a \in Events \union {None} :
            row' = IF open THEN record_turn(row, t, a) ELSE row
    BY <1>10, <2>1 DEF Record
  <2>3. record_turn(row, t, a).restart = row.restart
    BY <1>a, MarkedRow DEF SameNotice
  <2> QED BY <1>b, <1>c, <2>2, <2>3
<1> QED BY <1>1, <1>2, <1>3, <1>4, <1>5, <1>6, <1>7, <1>8, <1>9, <1>10 DEF RowWrite

LEMMA DebtNext == TypeInv /\ LinkInv /\ [Next]_vars => DebtKept
<1> SUFFICES ASSUME TypeInv, LinkInv, [Next]_vars PROVE DebtKept
  OBVIOUS
<1>1. row' = row => DebtKept
  BY DEF DebtKept
<1>2. ASSUME NEW e \in Events, Outside(e) \/ Enters(e) PROVE DebtKept
  BY <1>1, <1>2 DEF Outside, Enters
<1>3. ASSUME NEW e \in Events, Locked(e) PROVE DebtKept
  BY <1>1, <1>3, RowWrites, DebtWrite
<1>4. ASSUME NEW c \in Cases, DeleteCase(c) PROVE DebtKept
  BY <1>1, <1>4 DEF DeleteCase, storeVars
<1>5. ASSUME Shutdown \/ UNCHANGED vars PROVE DebtKept
  BY <1>1, <1>5 DEF Shutdown, vars, storeVars
<1>6. ASSUME NEW kept \in BOOLEAN, Restart(kept) PROVE DebtKept
  BY <1>1, <1>6, NoRowFields DEF Restart, DebtKept
<1> QED BY <1>2, <1>3, <1>4, <1>5, <1>6, StepCases

\* restart_pending outlives everything but a landed turn, or the row itself: the
\* write that opens the replacement case keeps it, and the only write that clears
\* it marks the row seeded for a case holding a committed turn.
THEOREM RestartStaysOwed == Spec => RestartOwedUntilLanded
<1>1. TypeInv /\ LinkInv /\ [Next]_vars
          => [restart_pending(row) /\ row'.present /\ ~restart_pending(row')
                  => row'.seeded /\ row'.case \in landed']_vars
  BY DebtNext DEF DebtKept
<1> QED BY <1>1, Linking, PTL DEF Spec, RestartOwedUntilLanded

-----------------------------------------------------------------------------
(* Which surface tells the thread that its case is missing. *)

\* A handler stays on its surface: a reply that found no mapping is a follow-up,
\* a notice is posted for one, and only the panel tells and forgets.
Surface(e) ==
    /\ Kind(e) \in Kinds \union {"none"}
    /\ At(e, "idle") => ~job[e].orphan
    /\ pc[e] \in {"route", "weigh", "notice"} \/ job[e].orphan => Kind(e) = "followup"
    /\ pc[e] \in {"tell", "forget"} => Kind(e) = "assistant"

SurfaceInv == \A e \in Events : Surface(e)

SameSurface(k, j) == k.kind = j.kind /\ k.orphan = j.orphan

\* What a worker writes in its locals leaves its surface alone.
LEMMA SurfaceEdits ==
    ASSUME NEW j \in Job, NEW k,
           \E a, b, c, d :
               \/ k = [j EXCEPT !.case = a]
               \/ k = [j EXCEPT !.first = a]
               \/ k = [j EXCEPT !.lost = a]
               \/ k = [j EXCEPT !.empty = a]
               \/ k = [j EXCEPT !.restarted = a]
               \/ k = [j EXCEPT !.ts = a]
               \/ k = [j EXCEPT !.ts = a, !.buttons = b, !.replied = c, !.note = d]
    PROVE  SameSurface(k, j)
<1>1. PICK a, b, c, d :
          \/ k = [j EXCEPT !.case = a]
          \/ k = [j EXCEPT !.first = a]
          \/ k = [j EXCEPT !.lost = a]
          \/ k = [j EXCEPT !.empty = a]
          \/ k = [j EXCEPT !.restarted = a]
          \/ k = [j EXCEPT !.ts = a]
          \/ k = [j EXCEPT !.ts = a, !.buttons = b, !.replied = c, !.note = d]
  OBVIOUS
<1> USE DEF Job, SameSurface
<1>2. CASE k = [j EXCEPT !.case = a]
  BY <1>2
<1>3. CASE k = [j EXCEPT !.first = a]
  BY <1>3
<1>4. CASE k = [j EXCEPT !.lost = a]
  BY <1>4
<1>5. CASE k = [j EXCEPT !.empty = a]
  BY <1>5
<1>6. CASE k = [j EXCEPT !.restarted = a]
  BY <1>6
<1>7. CASE k = [j EXCEPT !.ts = a]
  BY <1>7
<1>8. CASE k = [j EXCEPT !.ts = a, !.buttons = b, !.replied = c, !.note = d]
  BY <1>8
<1> HIDE DEF Job, SameSurface
<1> QED BY <1>1, <1>2, <1>3, <1>4, <1>5, <1>6, <1>7, <1>8

LEMMA DispatchEdit ==
    ASSUME NEW j \in Job, NEW k, NEW a, NEW b, k = [j EXCEPT !.kind = a, !.msg = b]
    PROVE  k.orphan = j.orphan
  BY DEF Job

\* A step under the gate keeps its handler's surface, or ends the handler.
LEMMA SurfaceLocals ==
    ASSUME TypeInv, NEW e \in Events, Locked(e)
    PROVE  \/ SameSurface(job'[e], job[e])
           \/ job'[e].kind = "none" /\ ~job'[e].orphan /\ pc'[e] = "done"
<1>a. /\ job \in [Events -> Job] /\ job[e] \in Job
      /\ pc \in [Events -> {"idle", "done"} \union Waiting \union Gated]
  BY JobTypes DEF TypeInv, TypeOK
<1>b. SameSurface(job[e], job[e])
  BY DEF SameSurface
<1>1. CASE job' = job
  BY <1>1, <1>b
<1>2. CASE StartFails(e) \/ Finish(e)
  BY <1>2, <1>a, NoJobFields DEF StartFails, Finish, Goto
<1>3. CASE FindCase(e) \/ Create(e)
  <2>1. \E c : job'[e] = [job[e] EXCEPT !.case = c]
    BY <1>3, <1>a DEF FindCase, Create
  <2> QED BY <1>a, <2>1, SurfaceEdits
<1>4. CASE FindNone(e)
  <2>1. \E a : job'[e] = [job[e] EXCEPT !.first = a]
    BY <1>4, <1>a DEF FindNone
  <2> QED BY <1>a, <2>1, SurfaceEdits
<1>5. CASE SubmitReplayLost(e)
  <2>1. job' = job \/ \E a : job'[e] = [job[e] EXCEPT !.lost = a]
    BY <1>5, <1>a DEF SubmitReplayLost
  <2> QED BY <1>a, <1>1, <2>1, SurfaceEdits
<1>6. CASE SubmitEmptyRefused(e)
  <2>1. \E a : job'[e] = [job[e] EXCEPT !.empty = a]
    BY <1>6, <1>a DEF SubmitEmptyRefused
  <2> QED BY <1>a, <2>1, SurfaceEdits
<1>7. CASE ReadThread(e)
  <2>1. PICK c \in BOOLEAN :
            job' = [job EXCEPT ![e] = [job[e] EXCEPT
                !.tried = Kind(e) \in {"mention", "followup"} /\ ~is_seeded(row),
                !.restarted = IF Kind(e) = "mention" THEN restart_pending(row)
                              ELSE job[e].restarted,
                !.empty = c]]
    BY <1>7, <1>a DEF ReadThread
  <2> DEFINE a == Kind(e) \in {"mention", "followup"} /\ ~is_seeded(row)
             b == IF Kind(e) = "mention" THEN restart_pending(row) ELSE job[e].restarted
  <2>2. job'[e] = [job[e] EXCEPT !.tried = a, !.restarted = b, !.empty = c]
    BY <1>a, <2>1
  <2> HIDE DEF a, b
  <2> DEFINE j == job[e]
             k == job'[e]
  <2>3. j \in Job /\ k = [j EXCEPT !.tried = a, !.restarted = b, !.empty = c]
    BY <1>a, <2>2
  <2>4. SameSurface(k, j)
    <3> HIDE DEF j, k
    <3> QED BY <2>3 DEF Job, SameSurface
  <2> QED BY <2>4
<1>8. CASE DeliverBlocks(e)
  <2> DEFINE n == job[e].first /\ job[e].restarted
  <2>2. PICK b \in BOOLEAN :
            job' = [job EXCEPT ![e] = [job[e] EXCEPT
                !.ts = e, !.buttons = b, !.replied = TRUE, !.note = n]]
    BY <1>8, <1>a DEF DeliverBlocks
  <2> HIDE DEF n
  <2>1. \E x, y, z, w : job'[e] = [job[e] EXCEPT !.ts = x, !.buttons = y,
                                                 !.replied = z, !.note = w]
    BY <1>a, <2>2
  <2> QED BY <1>a, <2>1, SurfaceEdits
<1>9. CASE DeliverDegraded(e)
  <2>1. \E a : job'[e] = [job[e] EXCEPT !.ts = a]
    BY <1>9, <1>a DEF DeliverDegraded
  <2> QED BY <1>a, <2>1, SurfaceEdits
<1>10. CASE \/ StartWorker(e) \/ PostPlaceholder(e) \/ BeginClick(e) \/ BeginBox(e)
            \/ BeginAssistant(e) \/ TellMissing(e) \/ ForgetThread(e) \/ BeginFollowup(e)
            \/ ClaimNotice(e) \/ PostNotice(e) \/ RecoverLostCase(e) \/ MarkRecovered(e)
            \/ RecoverNothing(e) \/ OrphanRaises(e) \/ ReadRaises(e) \/ Decline(e)
  BY <1>1, <1>10 DEF StartWorker, PostPlaceholder, BeginClick, BeginBox, BeginAssistant,
     TellMissing, ForgetThread, BeginFollowup, ClaimNotice, PostNotice, RecoverLostCase,
     MarkRecovered, RecoverNothing, OrphanRaises, ReadRaises, Decline, Escape
<1>11. CASE \/ ClickFindsNone(e) \/ FindRaises(e) \/ CreateFails(e) \/ MapRaises(e)
            \/ MapThread(e) \/ SubmitCommits(e) \/ SubmitRefused(e) \/ SubmitUnknown(e)
            \/ SubmitNotFound(e) \/ UnlinkStaleCase(e) \/ UnlinkRaises(e) \/ Seed(e)
            \/ Explain(e) \/ Announce(e) \/ ClearActions(e) \/ AnnounceRaises(e)
            \/ Record(e)
  BY <1>1, <1>11 DEF ClickFindsNone, FindRaises, CreateFails, MapRaises, MapThread,
     SubmitCommits, SubmitRefused, SubmitUnknown, SubmitNotFound, UnlinkStaleCase,
     UnlinkRaises, Seed, Explain, Announce, ClearActions, AnnounceRaises, Record, Escape
<1> QED BY <1>2, <1>3, <1>4, <1>5, <1>6, <1>7, <1>8, <1>9, <1>10, <1>11 DEF Locked

\* Where a missing case is told of, and by which step.
LEMMA Telling ==
    ASSUME TypeInv, NEW e \in Events, Locked(e)
    PROVE  /\ pc[e] = "tell" => TellMissing(e)
           /\ pc[e] = "forget" => ForgetThread(e)
           /\ pc[e] = "notice" => PostNotice(e)
           /\ pc'[e] = "tell" => BeginAssistant(e)
           /\ pc'[e] = "forget" => TellMissing(e)
           /\ pc'[e] = "notice" => ClaimNotice(e)
           /\ notices' = notices \/ TellMissing(e) \/ PostNotice(e) \/ UnlinkStaleCase(e)
<1>0. pc \in [Events -> {"idle", "done"} \union Waiting \union Gated]
  BY DEF TypeInv, TypeOK
<1> DEFINE Elsewhere == /\ pc[e] \notin {"tell", "forget", "notice"}
                        /\ pc'[e] \notin {"tell", "forget", "notice"}
                        /\ notices' = notices
<1> USE <1>0 DEF At, Goto, Escape, Fail, slackVars
<1>1. CASE \/ StartWorker(e) \/ StartFails(e) \/ PostPlaceholder(e) \/ BeginClick(e)
           \/ BeginBox(e) \/ BeginFollowup(e) \/ RecoverLostCase(e) \/ MarkRecovered(e)
           \/ RecoverNothing(e) \/ OrphanRaises(e) \/ ReadThread(e) \/ ReadRaises(e)
           \/ Decline(e)
  <2>1. Elsewhere
    BY <1>1 DEF StartWorker, StartFails, PostPlaceholder, BeginClick, BeginBox, BeginFollowup,
       RecoverLostCase, MarkRecovered, RecoverNothing, OrphanRaises, ReadThread, ReadRaises,
       Decline, NoRowYet
  <2> QED BY <2>1
<1>2. CASE \/ FindCase(e) \/ FindNone(e) \/ ClickFindsNone(e) \/ FindRaises(e) \/ Create(e)
           \/ CreateFails(e) \/ MapRaises(e) \/ MapThread(e)
  <2>1. Elsewhere
    BY <1>2 DEF FindCase, FindNone, ClickFindsNone, FindRaises, Create, CreateFails,
       MapRaises, MapThread
  <2> QED BY <2>1
<1>3. CASE \/ SubmitCommits(e) \/ SubmitReplayLost(e) \/ SubmitRefused(e) \/ SubmitUnknown(e)
           \/ SubmitEmptyRefused(e) \/ SubmitNotFound(e) \/ UnlinkRaises(e) \/ Seed(e)
           \/ Explain(e)
  <2>1. Elsewhere
    BY <1>3 DEF SubmitCommits, SubmitReplayLost, SubmitRefused, SubmitUnknown,
       SubmitEmptyRefused, SubmitNotFound, UnlinkRaises, Seed, AfterSeed, Explain
  <2> QED BY <2>1
<1>4. CASE \/ Announce(e) \/ ClearActions(e) \/ AnnounceRaises(e) \/ DeliverBlocks(e)
           \/ DeliverDegraded(e) \/ Record(e) \/ Finish(e)
  <2>1. Elsewhere
    BY <1>4 DEF Announce, ClearActions, AnnounceRaises, DeliverBlocks, DeliverDegraded,
       Record, Finish
  <2> QED BY <2>1
<1>5. CASE BeginAssistant(e)
  BY <1>5 DEF BeginAssistant
<1>6. CASE TellMissing(e)
  BY <1>6 DEF TellMissing
<1>7. CASE ForgetThread(e)
  BY <1>7 DEF ForgetThread
<1>8. CASE ClaimNotice(e)
  BY <1>8 DEF ClaimNotice
<1>9. CASE PostNotice(e)
  BY <1>9 DEF PostNotice
<1>10. CASE UnlinkStaleCase(e)
  BY <1>10 DEF UnlinkStaleCase
<1> HIDE DEF Elsewhere
<1> QED
  BY <1>1, <1>2, <1>3, <1>4, <1>5, <1>6, <1>7, <1>8, <1>9, <1>10 DEF Locked

LEMMA SurfaceLocked ==
    ASSUME TypeInv, NEW e \in Events, Surface(e), Locked(e)
    PROVE  Surface(e)'
<1>1. pc'[e] \in Gated \union {"done"}
  BY InsideSteps DEF Inside
<1>2. CASE job'[e].kind = "none" /\ ~job'[e].orphan /\ pc'[e] = "done"
  BY <1>2 DEF Surface, At, Kind
<1>3. CASE SameSurface(job'[e], job[e])
  <2>1. /\ job'[e].kind \in Kinds \union {"none"}
        /\ job'[e].orphan => job'[e].kind = "followup"
    BY <1>3 DEF Surface, SameSurface, Kind
  <2>2. pc'[e] = "notice" => job'[e].kind = "followup"
    BY <1>3, Telling DEF ClaimNotice, Surface, SameSurface, Kind
  <2>3. pc'[e] \in {"tell", "forget"} => job'[e].kind = "assistant"
    <3>1. pc'[e] = "tell" => Kind(e) = "assistant"
      BY Telling DEF BeginAssistant
    <3>2. pc'[e] = "forget" => Kind(e) = "assistant"
      BY Telling DEF TellMissing, Surface, At
    <3> QED BY <1>3, <3>1, <3>2 DEF SameSurface, Kind
  <2> QED BY <1>1, <2>1, <2>2, <2>3 DEF Surface, At, Kind, Gated
<1> QED BY <1>2, <1>3, SurfaceLocals

LEMMA SurfaceListens ==
    ASSUME TypeInv, NEW e \in Events, Surface(e),
           \/ \E k \in Kinds : Dispatch(e, k)
           \/ SubmitBox(e) \/ AcceptClick(e) \/ RefuseStaleClick(e) \/ ListenShortcut(e)
           \/ ListenFollowup(e) \/ RouteFollowup(e) \/ WeighFollowup(e) \/ EnterGate(e)
           \/ TurnedAway(e)
    PROVE  Surface(e)'
<1>a. /\ job \in [Events -> Job] /\ job[e] \in Job
      /\ pc \in [Events -> {"idle", "done"} \union Waiting \union Gated]
  BY JobTypes DEF TypeInv, TypeOK
<1>1. ASSUME NEW k \in Kinds, Dispatch(e, k) PROVE Surface(e)'
  <2>1. \E m : job'[e] = [job[e] EXCEPT !.kind = k, !.msg = m]
    BY <1>1, <1>a DEF Dispatch
  <2>2. job'[e].kind = k
    BY <1>1, DispatchJob
  <2>4. job'[e].orphan = job[e].orphan
    <3>1. PICK m : job'[e] = [job[e] EXCEPT !.kind = k, !.msg = m]
      BY <2>1
    <3> DEFINE i == job'[e]
    <3>2. i = [job[e] EXCEPT !.kind = k, !.msg = m]
      BY <3>1
    <3> HIDE DEF i
    <3>3. i.orphan = job[e].orphan
      BY <1>a, <3>2, DispatchEdit
    <3> QED BY <3>3 DEF i
  <2>5. ~job[e].orphan
    BY <1>1 DEF Surface, Dispatch
  <2>3. pc'[e] \in {"enter", "listen"}
    BY <1>1, <1>a DEF Dispatch, Goto
  <2> QED BY <2>2, <2>3, <2>4, <2>5 DEF Surface, At, Kind
<1>2. CASE job' = job /\ pc'[e] \in {"done", "enter", "modal", "start"}
  BY <1>2, <1>a DEF Surface, At, Kind
<1>3. ASSUME SubmitBox(e) \/ AcceptClick(e) \/ RefuseStaleClick(e) \/ EnterGate(e)
                 \/ TurnedAway(e)
      PROVE  Surface(e)'
  BY <1>2, <1>3, <1>a
     DEF SubmitBox, AcceptClick, RefuseStaleClick, EnterGate, TurnedAway, Goto
<1>4. ASSUME ListenShortcut(e) PROVE Surface(e)'
  <2>1. job'[e] = job[e] \/ \E a : job'[e] = [job[e] EXCEPT !.restarted = a]
    BY <1>4, <1>a DEF ListenShortcut
  <2>2. SameSurface(job'[e], job[e])
    BY <1>a, <2>1, SurfaceEdits DEF SameSurface
  <2>3. pc'[e] \in {"done", "enter"}
    BY <1>4, <1>a DEF ListenShortcut, Goto
  <2> QED BY <1>a, <2>2, <2>3 DEF Surface, SameSurface, At, Kind
<1>5. ASSUME ListenFollowup(e) PROVE Surface(e)'
  <2>1. job' = job /\ Kind(e) = "followup" /\ pc'[e] \in {"done", "route", "enter"}
    BY <1>5, <1>a DEF ListenFollowup, Escape, Goto
  <2> QED BY <2>1 DEF Surface, At, Kind
<1>6. ASSUME WeighFollowup(e) PROVE Surface(e)'
  <2>1. job'[e].kind = job[e].kind
    BY <1>6, ListenJob DEF Moves
  <2>2. Kind(e) = "followup" /\ pc'[e] \in {"done", "enter"}
    BY <1>6, <1>a DEF WeighFollowup, Surface, At, Goto
  <2> QED BY <2>1, <2>2 DEF Surface, At, Kind
<1>7. ASSUME RouteFollowup(e) PROVE Surface(e)'
  <2>1. job' = job /\ Kind(e) = "followup" /\ pc'[e] \in {"done", "weigh"}
    BY <1>7, <1>a DEF RouteFollowup, Surface, At, Goto
  <2> QED BY <2>1 DEF Surface, At, Kind
<1> QED BY <1>1, <1>3, <1>4, <1>5, <1>6, <1>7

LEMMA SurfaceInit == Init => SurfaceInv
  BY NoJobFields DEF Init, SurfaceInv, Surface, At, Kind

LEMMA SurfaceNext == TypeInv /\ SurfaceInv /\ [Next]_vars => SurfaceInv'
<1> SUFFICES ASSUME TypeInv, SurfaceInv, [Next]_vars PROVE SurfaceInv'
  OBVIOUS
<1>0. pc \in [Events -> {"idle", "done"} \union Waiting \union Gated]
  BY DEF TypeInv, TypeOK
<1>a. ASSUME NEW e \in Events, Surface(e)', Outside(e) \/ Enters(e) \/ Inside(e)
      PROVE  SurfaceInv'
  <2>1. ASSUME NEW f \in Events, f # e PROVE Surface(f)'
    <3>1. pc'[f] = pc[f] /\ job'[f] = job[f]
      BY <1>0, <1>a, <2>1 DEF Outside, Enters, Inside, Frame
    <3> QED BY <3>1 DEF SurfaceInv, Surface, At, Kind
  <2> QED BY <1>a, <2>1 DEF SurfaceInv
<1>1. ASSUME NEW e \in Events, Locked(e) PROVE SurfaceInv'
  BY <1>1, <1>a, SurfaceLocked, InsideSteps DEF SurfaceInv
<1>2. ASSUME NEW e \in Events,
             \/ \E k \in Kinds : Dispatch(e, k)
             \/ SubmitBox(e) \/ AcceptClick(e) \/ RefuseStaleClick(e) \/ ListenShortcut(e)
             \/ ListenFollowup(e) \/ RouteFollowup(e) \/ WeighFollowup(e) \/ EnterGate(e)
             \/ TurnedAway(e)
      PROVE  SurfaceInv'
  <2>1. Surface(e)'
    BY <1>2, SurfaceListens DEF SurfaceInv
  <2>2. Outside(e) \/ Enters(e) \/ StartWorker(e) \/ StartFails(e)
    BY <1>2, OutsideSteps DEF Listener
  <2> QED BY <1>1, <1>a, <2>1, <2>2 DEF Locked
<1>3. ASSUME pc' = pc, job' = job PROVE SurfaceInv'
  BY <1>3 DEF SurfaceInv, Surface, At, Kind
<1>4. ASSUME NEW c \in Cases, DeleteCase(c) PROVE SurfaceInv'
  BY <1>3, <1>4 DEF DeleteCase
<1>5. ASSUME Shutdown \/ UNCHANGED vars PROVE SurfaceInv'
  BY <1>3, <1>5 DEF Shutdown, vars
<1>6. ASSUME NEW kept \in BOOLEAN, Restart(kept) PROVE SurfaceInv'
  BY <1>6, NoJobFields DEF Restart, SurfaceInv, Surface, At, Kind
<1>7. ASSUME NEW e \in Events, Opening(e) \/ Turn(e) \/ Closing(e) PROVE SurfaceInv'
  <2>1. Locked(e)
    BY <1>7 DEF Opening, Turn, Closing, Locked
  <2> QED BY <1>1, <2>1
<1>8. ASSUME NEW e \in Events, StartWorker(e) \/ StartFails(e) PROVE SurfaceInv'
  BY <1>1, <1>8 DEF Locked
<1> QED BY <1>2, <1>4, <1>5, <1>6, <1>7, <1>8 DEF Next, Listener

-----------------------------------------------------------------------------
(* The notice of a missing case. *)

\* The step of e claims no notice and posts none, and it leaves the row's notice,
\* or leaves no tombstone, or leaves one that is neither claimed nor explained.
NoticeKept(e) ==
    /\ pc[e] # "notice" /\ pc'[e] # "notice" /\ restarts' = restarts /\ open' = open
    /\ \/ /\ is_unlinked(row') = is_unlinked(row) /\ row'.notified = row.notified
          /\ notices' = notices
       \/ ~is_unlinked(row') /\ notices' \in {0, notices}
       \/ ~row'.notified /\ notices' = 0

LEMMA NoticeWrites ==
    ASSUME TypeInv, NEW e \in Events, Locked(e), ~ClaimNotice(e), ~PostNotice(e),
           ~TellMissing(e)
    PROVE  NoticeKept(e)
<1>a. /\ row \in Row /\ job[e] \in Job /\ pointers \in Seq(Cases)
      /\ pc \in [Events -> {"idle", "done"} \union Waiting \union Gated]
      /\ pc[e] \in InCase => job[e].case \in Cases
  BY DEF TypeInv, TypeOK, JobOK
<1>b. restarts' = restarts /\ open' = open
  BY InsideSteps DEF Inside
<1>c. /\ pc[e] # "notice" /\ pc'[e] # "notice"
      /\ ~UnlinkStaleCase(e) => notices' = notices
  BY Telling
<1> USE <1>a, <1>b, <1>c DEF NoticeKept, At, Goto, Escape
<1>1. ASSUME ~RowWrite(e) PROVE NoticeKept(e)
  BY <1>1, RowWrites DEF RowWrite
<1>2. ASSUME ForgetThread(e) PROVE NoticeKept(e)
  BY <1>2, NoRowFields DEF ForgetThread, slackVars
<1>3. ASSUME RecoverLostCase(e) PROVE NoticeKept(e)
  <2>1. Head(pointers) \in Cases
    BY <1>3 DEF RecoverLostCase
  <2> QED BY <1>3, <2>1, PutRow DEF RecoverLostCase, NoRowYet, slackVars
<1>4. ASSUME MarkRecovered(e) PROVE NoticeKept(e)
  BY <1>4, SeededRow, SameLinkReads DEF MarkRecovered, slackVars
<1>5. ASSUME MapThread(e) PROVE NoticeKept(e)
  BY <1>5, PutRow DEF MapThread, InCase, slackVars
<1>6. ASSUME UnlinkStaleCase(e) PROVE NoticeKept(e)
  BY <1>6, TombstoneRow, Reads DEF UnlinkStaleCase
<1>7. ASSUME Seed(e) PROVE NoticeKept(e)
  BY <1>7, SeededRow, SameLinkReads DEF Seed, slackVars
<1>8. ASSUME ClearActions(e) PROVE NoticeKept(e)
  BY <1>8, MarkedRow, SameLinkReads DEF ClearActions, SameNotice, slackVars
<1>9. ASSUME Record(e) PROVE NoticeKept(e)
  <2>1. /\ job[e].ts \in Events \union {None}
        /\ (IF job[e].buttons THEN e ELSE None) \in Events \union {None}
    BY JobFields, JobTypes
  <2>2. PICK t \in Events \union {None}, a \in Events \union {None} :
            row' = IF open THEN record_turn(row, t, a) ELSE row
    BY <1>9, <2>1 DEF Record
  <2>3. is_unlinked(row') = is_unlinked(row) /\ row'.notified = row.notified
    <3>1. CASE open
      <4>1. row' = record_turn(row, t, a)
        BY <2>2, <3>1
      <4>2. SameLink(row', row) /\ SameNotice(row', row)
        BY <1>a, <4>1, MarkedRow
      <4> QED BY <4>2, SameLinkReads DEF SameNotice
    <3>2. CASE ~open
      BY <2>2, <3>2
    <3> QED BY <3>1, <3>2
  <2> QED BY <1>9, <2>3 DEF Record
<1> QED BY <1>1, <1>2, <1>3, <1>4, <1>5, <1>6, <1>7, <1>8, <1>9 DEF RowWrite

\* A claim: taken from a tombstone nobody explained, or not taken.
LEMMA ClaimStep ==
    ASSUME TypeInv, NEW e \in Events, ClaimNotice(e)
    PROVE  /\ is_unlinked(row) /\ is_unlinked(row') /\ row'.notified /\ notices' = notices
           /\ pc[e] # "notice"
           /\ IF ~row.notified THEN pc'[e] = "notice" ELSE pc'[e] = "finish"
<1>1. row \in Row /\ pc \in [Events -> {"idle", "done"} \union Waiting \union Gated]
  BY DEF TypeInv, TypeOK
<1> QED BY <1>1, NoticeRow, SameLinkReads
           DEF ClaimNotice, notice_claimable, At, Goto, Escape, slackVars

\* The post under a claim: landed, or the claim is released if the store is open.
LEMMA PostStep ==
    ASSUME TypeInv, NEW e \in Events, PostNotice(e)
    PROVE  /\ pc[e] = "notice" /\ pc'[e] = "finish"
           /\ \/ notices' = notices + 1 /\ row' = row
              \/ /\ notices' = notices /\ is_unlinked(row') = is_unlinked(row)
                 /\ open /\ is_unlinked(row) => ~row'.notified
<1>1. row \in Row /\ pc \in [Events -> {"idle", "done"} \union Waiting \union Gated]
  BY DEF TypeInv, TypeOK
<1>2. pc[e] = "notice" /\ pc'[e] = "finish"
  BY <1>1 DEF PostNotice, At, Goto
<1>3. CASE notices' = notices /\ row' = IF open THEN release_unlink_notice(row) ELSE row
  BY <1>1, <1>2, <1>3, NoticeRow, SameLinkReads
<1> QED BY <1>2, <1>3 DEF PostNotice

\* The panel's post: landed, and the thread is to be forgotten, or refused.
LEMMA TellStep ==
    ASSUME TypeInv, NEW e \in Events, TellMissing(e)
    PROVE  /\ pc[e] = "tell" /\ row' = row
           /\ \/ notices' = notices + 1 /\ pc'[e] = "forget"
              \/ notices' = notices /\ pc'[e] = "finish"
<1>1. pc \in [Events -> {"idle", "done"} \union Waiting \union Gated]
  BY DEF TypeInv, TypeOK
<1> QED BY <1>1 DEF TellMissing, At, Goto, storeVars

\* A step of the holder, as the notices see it.
LEMMA HolderSteps ==
    ASSUME TypeInv, OneTurnPerThread, NEW e \in Events, Locked(e)
    PROVE  /\ restarts' = restarts /\ open' = open
           /\ \A f \in Events : f # e => pc'[f] = pc[f] /\ pc[f] \notin Gated
           /\ NoticeKept(e) \/ ClaimNotice(e) \/ PostNotice(e) \/ TellMissing(e)
  BY InsideSteps, OthersRest, NoticeWrites DEF Inside

LEMMA OwedNext == TypeInv /\ OneTurnPerThread /\ NoticeNotLost /\ [Next]_vars => NoticeNotLost'
<1> SUFFICES ASSUME TypeInv, OneTurnPerThread, NoticeNotLost, [Next]_vars PROVE NoticeNotLost'
  OBVIOUS
<1>0. /\ notices \in Nat /\ restarts \in Nat
      /\ restarts = 0 /\ open /\ is_unlinked(row) /\ row.notified
            => notices # 0 \/ \E f \in Events : pc[f] = "notice"
      /\ pc \in [Events -> {"idle", "done"} \union Waiting \union Gated]
  BY ConfigAssumption DEF TypeInv, TypeOK, NoticeNotLost, At
<1>a. ASSUME UNCHANGED <<row, notices, restarts>>, open' => open,
             \A f \in Events : pc[f] = "notice" <=> pc'[f] = "notice"
      PROVE  NoticeNotLost'
  BY <1>0, <1>a DEF NoticeNotLost, At
<1>1. ASSUME NEW e \in Events, Outside(e) PROVE NoticeNotLost'
  BY <1>0, <1>a, <1>1 DEF Outside, Frame, Holds, Gated, procVars
<1>2. ASSUME NEW e \in Events, Enters(e) PROVE NoticeNotLost'
  BY <1>0, <1>a, <1>2 DEF Enters, Frame, slackVars
<1>3. ASSUME NEW e \in Events, Locked(e) PROVE NoticeNotLost'
  <2>0. /\ restarts' = restarts /\ open' = open
        /\ \A f \in Events : f # e => pc'[f] = pc[f] /\ pc[f] # "notice"
    BY <1>3, HolderSteps DEF Gated
  <2>1. CASE NoticeKept(e)
    <3>1. ASSUME is_unlinked(row') = is_unlinked(row), row'.notified = row.notified,
                 notices' = notices
          PROVE  NoticeNotLost'
      BY <1>0, <2>0, <2>1, <3>1 DEF NoticeKept, NoticeNotLost, At
    <3>2. ASSUME ~is_unlinked(row') \/ ~row'.notified PROVE NoticeNotLost'
      BY <3>2 DEF NoticeNotLost
    <3> QED BY <2>1, <3>1, <3>2 DEF NoticeKept
  <2>2. CASE ClaimNotice(e)
    BY <1>0, <2>0, <2>2, ClaimStep DEF NoticeNotLost, At
  <2>3. CASE PostNotice(e)
    <3>1. CASE notices' = notices + 1
      BY <1>0, <3>1 DEF NoticeNotLost
    <3>2. CASE /\ is_unlinked(row') = is_unlinked(row)
               /\ open /\ is_unlinked(row) => ~row'.notified
      BY <2>0, <3>2 DEF NoticeNotLost
    <3> QED BY <2>3, <3>1, <3>2, PostStep
  <2>4. CASE TellMissing(e)
    <3>1. CASE notices' = notices + 1
      BY <1>0, <3>1 DEF NoticeNotLost
    <3>2. CASE notices' = notices
      BY <1>0, <2>0, <2>4, <3>2, TellStep DEF NoticeNotLost, At
    <3> QED BY <2>4, <3>1, <3>2, TellStep
  <2> QED BY <1>3, <2>1, <2>2, <2>3, <2>4, HolderSteps
<1>4. ASSUME NEW c \in Cases, DeleteCase(c) PROVE NoticeNotLost'
  BY <1>a, <1>4 DEF DeleteCase, storeVars, procVars, slackVars
<1>5. ASSUME Shutdown \/ UNCHANGED vars PROVE NoticeNotLost'
  BY <1>a, <1>5 DEF Shutdown, vars, storeVars, procVars, slackVars
<1>6. ASSUME NEW kept \in BOOLEAN, Restart(kept) PROVE NoticeNotLost'
  BY <1>0, <1>6 DEF Restart, NoticeNotLost
<1> QED BY <1>1, <1>2, <1>3, <1>4, <1>5, <1>6, StepCases

\* A claim whose notice Slack refused is released: claimed means posted or being
\* posted, until the process dies or its store closes.
THEOREM NoticeStaysOwed == Spec => []NoticeNotLost
<1>1. Init => TypeInv /\ OneTurnPerThread /\ NoticeNotLost
  BY TypeInit, GateInit, NoRowFields DEF Init, NoticeNotLost
<1>2. TypeInv /\ OneTurnPerThread /\ NoticeNotLost /\ [Next]_vars
          => (TypeInv /\ OneTurnPerThread /\ NoticeNotLost)'
  BY TypeNext, GateNext, OwedNext
<1> QED BY <1>1, <1>2, PTL DEF Spec

-----------------------------------------------------------------------------
(* A channel's thread: told at most once. *)

\* A tombstone nobody claimed has not been explained, and the claim of a notice
\* being posted is the first.
OnceInv ==
    /\ notices \in {0, 1}
    /\ is_unlinked(row) /\ ~row.notified => notices = 0
    /\ \A e \in Events : At(e, "notice") => notices = 0 /\ row.notified

LEMMA OnceNext ==
    ASSUME "assistant" \notin Kinds
    PROVE  TypeInv /\ OneTurnPerThread /\ SurfaceInv /\ OnceInv /\ [Next]_vars => OnceInv'
<1> SUFFICES ASSUME TypeInv, OneTurnPerThread, SurfaceInv, OnceInv, [Next]_vars PROVE OnceInv'
  OBVIOUS
<1>0. /\ notices \in {0, 1}
      /\ is_unlinked(row) /\ ~row.notified => notices = 0
      /\ \A f \in Events : pc[f] = "notice" => notices = 0 /\ row.notified
      /\ pc \in [Events -> {"idle", "done"} \union Waiting \union Gated]
  BY DEF TypeInv, TypeOK, OnceInv, At
<1>a. ASSUME UNCHANGED <<row, notices>>,
             \A f \in Events : pc'[f] = "notice" => pc[f] = "notice"
      PROVE  OnceInv'
  BY <1>0, <1>a DEF OnceInv, At
<1>1. ASSUME NEW e \in Events, Outside(e) PROVE OnceInv'
  BY <1>0, <1>a, <1>1 DEF Outside, Frame, Holds, Gated
<1>2. ASSUME NEW e \in Events, Enters(e) PROVE OnceInv'
  BY <1>0, <1>a, <1>2 DEF Enters, Frame, slackVars
<1>3. ASSUME NEW e \in Events, Locked(e) PROVE OnceInv'
  <2>0. \A f \in Events : f # e => pc'[f] = pc[f] /\ pc[f] # "notice"
    BY <1>3, HolderSteps DEF Gated
  <2>1. CASE NoticeKept(e)
    BY <1>0, <2>0, <2>1 DEF NoticeKept, OnceInv, At
  <2>2. CASE ClaimNotice(e)
    BY <1>0, <2>0, <2>2, ClaimStep DEF OnceInv, At
  <2>3. CASE PostNotice(e)
    <3>1. pc[e] = "notice" /\ pc'[e] = "finish" /\ notices = 0 /\ row.notified
      BY <1>0, <2>3, PostStep
    <3>2. CASE notices' = notices + 1 /\ row' = row
      BY <2>0, <3>1, <3>2 DEF OnceInv, At
    <3>3. CASE notices' = notices
      BY <2>0, <3>1, <3>3 DEF OnceInv, At
    <3> QED BY <2>3, <3>2, <3>3, PostStep
  <2>4. ~TellMissing(e)
    <3>1. Kind(e) # "assistant"
      BY DEF SurfaceInv, Surface
    <3> QED BY <3>1 DEF TellMissing, SurfaceInv, Surface, At
  <2> QED BY <1>3, <2>1, <2>2, <2>3, <2>4, HolderSteps
<1>4. ASSUME NEW c \in Cases, DeleteCase(c) PROVE OnceInv'
  BY <1>a, <1>4 DEF DeleteCase, storeVars, slackVars
<1>5. ASSUME Shutdown \/ UNCHANGED vars PROVE OnceInv'
  BY <1>a, <1>5 DEF Shutdown, vars, storeVars, slackVars
<1>6. ASSUME NEW kept \in BOOLEAN, Restart(kept) PROVE OnceInv'
  <2>1. /\ notices' = notices /\ (row' = row \/ row' = NoRow)
        /\ \A f \in Events : pc'[f] # "notice"
    BY <1>6 DEF Restart
  <2> QED BY <1>0, <2>1, NoRowFields DEF OnceInv, At
<1> QED BY <1>1, <1>2, <1>3, <1>4, <1>5, <1>6, StepCases

\* A channel's tombstone is explained at most once, however many replies and
\* restarts fall on it: the claim is the row's conditional UPDATE, and it is
\* written before the post.  The panel, which tells before it records, is kept
\* out by the hypothesis: its threads are 1:1 threads, a channel's never are
\* (is_thread_followup_candidate).
THEOREM NoticePostedOnce ==
    ASSUME "assistant" \notin Kinds
    PROVE  Spec => []NoticeOnce
<1>1. Init => TypeInv /\ OneTurnPerThread /\ SurfaceInv /\ OnceInv
  BY TypeInit, GateInit, SurfaceInit, NoRowFields DEF Init, OnceInv, At
<1>2. TypeInv /\ OneTurnPerThread /\ SurfaceInv /\ OnceInv /\ [Next]_vars
          => (TypeInv /\ OneTurnPerThread /\ SurfaceInv /\ OnceInv)'
  BY TypeNext, GateNext, SurfaceNext, OnceNext
<1>3. OnceInv => NoticeOnce
  BY DEF OnceInv, NoticeOnce
<1> QED BY <1>1, <1>2, <1>3, PTL DEF Spec

-----------------------------------------------------------------------------
(* The panel: told at most once by each process. *)

\* This process has not told a tombstone it still holds - unless it is about to
\* forget it, or can no longer write - and has not when it is about to tell.
PanelInv ==
    /\ notices <= 1 + restarts
    /\ \A e \in Events : At(e, "tell") => notices <= restarts
    /\ is_unlinked(row) => \/ notices <= restarts
                           \/ ~open
                           \/ \E e \in Events : At(e, "forget")

LEMMA PanelLocked ==
    ASSUME TypeInv, OneTurnPerThread, SurfaceInv, PanelInv, "followup" \notin Kinds,
           NEW e \in Events, Locked(e)
    PROVE  PanelInv'
<1>0. /\ notices \in Nat /\ restarts \in Nat /\ notices <= 1 + restarts
      /\ pc[e] = "tell" => notices <= restarts
      /\ is_unlinked(row) => \/ notices <= restarts
                             \/ ~open
                             \/ \E f \in Events : pc[f] = "forget"
      /\ pc \in [Events -> {"idle", "done"} \union Waiting \union Gated]
  BY ConfigAssumption DEF TypeInv, TypeOK, PanelInv, At
<1>1. /\ restarts' = restarts /\ open' = open
      /\ \A f \in Events : f # e => pc'[f] = pc[f] /\ pc[f] \notin {"tell", "forget"}
  BY HolderSteps DEF Gated
<1>2. ~ClaimNotice(e) /\ ~PostNotice(e)
  <2>1. Kind(e) # "followup"
    BY DEF SurfaceInv, Surface
  <2> QED BY <2>1 DEF ClaimNotice, PostNotice, SurfaceInv, Surface, At
<1>3. ASSUME TellMissing(e) PROVE PanelInv'
  BY <1>0, <1>1, <1>3, TellStep DEF PanelInv, At
<1>4. ASSUME ForgetThread(e) PROVE PanelInv'
  <2>1. /\ notices' = notices /\ pc'[e] = "finish"
        /\ row' = IF open THEN NoRow ELSE row
    BY <1>0, <1>4 DEF ForgetThread, Escape, Goto, slackVars
  <2> QED BY <1>0, <1>1, <2>1, NoRowFields DEF PanelInv, At
<1>5. ASSUME BeginAssistant(e) PROVE PanelInv'
  <2>1. /\ notices' = notices /\ row' = row /\ pc[e] = "begin" /\ pc'[e] # "forget"
        /\ pc'[e] = "tell" => open /\ is_unlinked(row)
    BY <1>0, <1>5 DEF BeginAssistant, Escape, Goto, At, storeVars, slackVars
  <2> QED BY <1>0, <1>1, <2>1 DEF PanelInv, At
<1>6. ASSUME ~TellMissing(e), ~ForgetThread(e), ~BeginAssistant(e) PROVE PanelInv'
  <2>1. /\ NoticeKept(e) /\ pc[e] \notin {"tell", "forget"}
        /\ pc'[e] \notin {"tell", "forget"}
    BY <1>2, <1>6, HolderSteps, Telling
  <2>2. /\ notices' \in {0, notices}
        /\ ~is_unlinked(row') \/ notices' = 0 \/ is_unlinked(row)
    BY <2>1 DEF NoticeKept
  <2> QED BY <1>0, <1>1, <2>1, <2>2 DEF PanelInv, At
<1> QED BY <1>3, <1>4, <1>5, <1>6

LEMMA PanelNext ==
    ASSUME "followup" \notin Kinds
    PROVE  TypeInv /\ OneTurnPerThread /\ SurfaceInv /\ PanelInv /\ [Next]_vars => PanelInv'
<1> SUFFICES ASSUME TypeInv, OneTurnPerThread, SurfaceInv, PanelInv, [Next]_vars
             PROVE  PanelInv'
  OBVIOUS
<1>0. /\ notices \in Nat /\ restarts \in Nat
      /\ pc \in [Events -> {"idle", "done"} \union Waiting \union Gated]
  BY ConfigAssumption DEF TypeInv, TypeOK
<1>a. ASSUME UNCHANGED <<row, notices, restarts>>, open' => open,
             \A f \in Events : /\ pc[f] = "tell" <=> pc'[f] = "tell"
                               /\ pc[f] = "forget" <=> pc'[f] = "forget"
      PROVE  PanelInv'
  BY <1>a DEF PanelInv, At
<1>1. ASSUME NEW e \in Events, Outside(e) PROVE PanelInv'
  BY <1>0, <1>a, <1>1 DEF Outside, Frame, Holds, Gated, procVars
<1>2. ASSUME NEW e \in Events, Enters(e) PROVE PanelInv'
  BY <1>0, <1>a, <1>2 DEF Enters, Frame, slackVars
<1>3. ASSUME NEW e \in Events, Locked(e) PROVE PanelInv'
  BY <1>3, PanelLocked
<1>4. ASSUME NEW c \in Cases, DeleteCase(c) PROVE PanelInv'
  BY <1>a, <1>4 DEF DeleteCase, storeVars, procVars, slackVars
<1>5. ASSUME Shutdown \/ UNCHANGED vars PROVE PanelInv'
  BY <1>a, <1>5 DEF Shutdown, vars, storeVars, procVars, slackVars
<1>6. ASSUME NEW kept \in BOOLEAN, Restart(kept) PROVE PanelInv'
  <2>1. /\ notices' = notices /\ restarts' = restarts + 1
        /\ \A f \in Events : pc'[f] # "tell"
    BY <1>6 DEF Restart
  <2>2. notices <= 1 + restarts
    BY DEF PanelInv
  <2> QED BY <1>0, <2>1, <2>2 DEF PanelInv, At
<1> QED BY <1>1, <1>2, <1>3, <1>4, <1>5, <1>6, StepCases

\* A missing case is told of once by each process at most (turn_work): the panel
\* tells, then forgets, and a process that ended or closed its store in between
\* leaves one more telling to the next.  The replies of a channel, whose notices
\* are claimed instead, are kept out by the hypothesis.
THEOREM PanelTellsOncePerProcess ==
    ASSUME "followup" \notin Kinds
    PROVE  Spec => []ToldOncePerProcess
<1>1. Init => TypeInv /\ OneTurnPerThread /\ SurfaceInv /\ PanelInv
  BY TypeInit, GateInit, SurfaceInit, NoRowFields DEF Init, PanelInv, At
<1>2. TypeInv /\ OneTurnPerThread /\ SurfaceInv /\ PanelInv /\ [Next]_vars
          => (TypeInv /\ OneTurnPerThread /\ SurfaceInv /\ PanelInv)'
  BY TypeNext, GateNext, SurfaceNext, PanelNext
<1>3. PanelInv => ToldOncePerProcess
  BY DEF PanelInv, ToldOncePerProcess
<1> QED BY <1>1, <1>2, <1>3, PTL DEF Spec

-----------------------------------------------------------------------------
(* The row implements CaseLink. *)

\* The cases opened so far, as CaseLink counts them.
Created == {c \in Cases : cases[c] # "unborn"}

\* A step that moves neither the link nor the cases is a stutter there.
LEMMA LinkStutters ==
    ASSUME SameLink(row', row), Created' = Created
    PROVE  UNCHANGED L!vars
<1>1. Linked(row') = Linked(row) /\ is_unlinked(row') = is_unlinked(row) /\ row'.case = row.case
  BY SameLinkReads DEF SameLink
<1> QED BY <1>1 DEF L!vars, Created

LEMMA LinkOpens ==
    ASSUME NEW c \in Cases, row' = row, cases[c] = "unborn",
           cases \in [Cases -> {"unborn", "live", "gone"}],
           cases' = [cases EXCEPT ![c] = "live"]
    PROVE  L!Next
<1>1. c \notin Created /\ Created' = Created \union {c}
  BY DEF Created
<1>2. L!Create(c)
  BY <1>1 DEF L!Create, Created
<1> QED BY <1>2 DEF L!Next

\* put, on a row that links nothing, to a case that exists.
LEMMA LinkMaps ==
    ASSUME row \in Row, get(row) = None, NEW c \in Cases, cases[c] # "unborn",
           row' = put(row, c), cases' = cases
    PROVE  L!Next
<1>1. ~Linked(row) /\ Linked(row') /\ row'.case = c /\ ~is_unlinked(row')
  <2>1. /\ row' \in Row /\ row'.case = c /\ get(row') = c /\ ~is_unlinked(row') /\ c # None
    BY PutRow, NoneAssumption DEF Row
  <2> QED BY <2>1, Reads
<1>2. L!Link(c)
  BY <1>1 DEF L!Link
<1> QED BY <1>2 DEF L!Next

LEMMA LinkForgets ==
    ASSUME row' = NoRow, cases' = cases
    PROVE  L!Next
<1>1. ~Linked(row') /\ ~is_unlinked(row')
  BY NoRowFields DEF Linked, is_unlinked
<1> QED BY <1>1 DEF L!Next, L!Forget

LEMMA LinkWrite ==
    ASSUME TypeInv, LinkInv, NEW e \in Events, RowWrite(e)
    PROVE  [L!Next]_L!vars
<1>a. /\ row \in Row /\ RowTrue /\ Stands(e) /\ pointers \in Seq(Cases)
      /\ pc[e] \in InCase => job[e].case \in Cases
  BY DEF LinkInv, TypeInv, TypeOK, JobOK
<1>b. cases' = cases
  BY DEF RowWrite, ForgetThread, ClaimNotice, PostNotice, RecoverLostCase, MarkRecovered,
         MapThread, UnlinkStaleCase, Seed, ClearActions, Record, backVars
<1>c. SameLink(row', row) => UNCHANGED L!vars
  BY <1>b, LinkStutters DEF Created
<1>d. SameLink(row, row)
  BY DEF SameLink
<1>1. ASSUME ForgetThread(e) PROVE [L!Next]_L!vars
  BY <1>1, <1>b, <1>c, <1>d, LinkForgets DEF ForgetThread
<1>2. ASSUME ClaimNotice(e) PROVE [L!Next]_L!vars
  BY <1>2, <1>a, <1>c, NoticeRow DEF ClaimNotice
<1>3. ASSUME PostNotice(e) PROVE [L!Next]_L!vars
  BY <1>3, <1>a, <1>c, <1>d, NoticeRow DEF PostNotice
<1>4. ASSUME RecoverLostCase(e) PROVE [L!Next]_L!vars
  <2>1. /\ get(row) = None /\ row' = put(row, Head(pointers))
        /\ Head(pointers) \in Cases /\ Head(pointers) \in landed
    BY <1>4, <1>a DEF RecoverLostCase, NoRowYet, RowTrue
  <2> QED BY <1>a, <1>b, <2>1, LinkMaps DEF RowTrue
<1>5. ASSUME MarkRecovered(e) PROVE [L!Next]_L!vars
  BY <1>5, <1>a, <1>c, SeededRow DEF MarkRecovered
<1>6. ASSUME MapThread(e) PROVE [L!Next]_L!vars
  <2>1. /\ get(row) = None /\ row' = put(row, job[e].case)
        /\ job[e].case \in Cases /\ cases[job[e].case] # "unborn"
    BY <1>6, <1>a DEF MapThread, Stands, InCase, At
  <2> QED BY <1>a, <1>b, <2>1, LinkMaps
<1>7. ASSUME UnlinkStaleCase(e) PROVE [L!Next]_L!vars
  <2>1. /\ get(row) = job[e].case /\ job[e].case \in Cases /\ row' = mark_unlinked(row)
    BY <1>7, <1>a DEF UnlinkStaleCase, Stands, InCase, InTurn, At
  <2>2. Linked(row) /\ row.present
    BY <1>a, <2>1, Reads, NoneAssumption DEF Linked
  <2>3. is_unlinked(row') /\ ~Linked(row')
    BY <1>a, <2>1, <2>2, TombstoneRow DEF Linked, is_unlinked
  <2>4. L!Lose
    BY <1>b, <2>2, <2>3 DEF L!Lose
  <2> QED BY <2>4 DEF L!Next
<1>8. ASSUME Seed(e) PROVE [L!Next]_L!vars
  BY <1>8, <1>a, <1>c, <1>d, SeededRow DEF Seed
<1>9. ASSUME ClearActions(e) PROVE [L!Next]_L!vars
  BY <1>9, <1>a, <1>c, <1>d, MarkedRow DEF ClearActions
<1>10. ASSUME Record(e) PROVE [L!Next]_L!vars
  <2>1. /\ job[e].ts \in Events \union {None}
        /\ (IF job[e].buttons THEN e ELSE None) \in Events \union {None}
    BY JobFields, JobTypes
  <2>2. PICK t \in Events \union {None}, a \in Events \union {None} :
            row' = IF open THEN record_turn(row, t, a) ELSE row
    BY <1>10, <2>1 DEF Record
  <2> QED BY <1>a, <1>c, <1>d, <2>2, MarkedRow
<1> QED BY <1>1, <1>2, <1>3, <1>4, <1>5, <1>6, <1>7, <1>8, <1>9, <1>10 DEF RowWrite

\* The other steps under the gate open a case at most.
LEMMA OtherWrites ==
    ASSUME TypeInv, NEW e \in Events, Locked(e), ~RowWrite(e)
    PROVE  [L!Next]_L!vars
<1>1. row' = row /\ SameLink(row', row)
  BY RowWrites DEF SameLink
<1>2. cases \in [Cases -> {"unborn", "live", "gone"}]
  BY DEF TypeInv, TypeOK
<1>3. ASSUME cases' = cases PROVE UNCHANGED L!vars
  BY <1>1, <1>3, LinkStutters DEF Created
<1>4. ASSUME NEW c \in Cases, cases[c] = "unborn", cases' = [cases EXCEPT ![c] = "live"]
      PROVE  L!Next
  BY <1>1, <1>2, <1>4, LinkOpens
<1>5. ASSUME Create(e) PROVE [L!Next]_L!vars
  BY <1>4, <1>5 DEF Create
<1>6. ASSUME CreateFails(e) PROVE [L!Next]_L!vars
  BY <1>3, <1>4, <1>6 DEF CreateFails
<1>7. ASSUME ~Create(e), ~CreateFails(e) PROVE cases' = cases
  <2> USE <1>7 DEF Escape, Fail, backVars, RowWrite
  <2>1. CASE \/ StartWorker(e) \/ StartFails(e) \/ PostPlaceholder(e) \/ BeginClick(e)
             \/ BeginBox(e) \/ BeginAssistant(e) \/ TellMissing(e) \/ BeginFollowup(e)
             \/ RecoverNothing(e) \/ OrphanRaises(e) \/ ReadThread(e) \/ ReadRaises(e) \/ Decline(e)
    BY <2>1 DEF StartWorker, StartFails, PostPlaceholder, BeginClick, BeginBox,
                BeginAssistant, TellMissing, BeginFollowup, RecoverNothing, OrphanRaises,
                ReadThread, ReadRaises, Decline
  <2>2. CASE \/ FindCase(e) \/ FindNone(e) \/ ClickFindsNone(e) \/ FindRaises(e)
             \/ MapRaises(e) \/ SubmitCommits(e) \/ SubmitReplayLost(e) \/ SubmitRefused(e)
             \/ SubmitUnknown(e) \/ SubmitEmptyRefused(e) \/ SubmitNotFound(e)
    BY <2>2 DEF FindCase, FindNone, ClickFindsNone, FindRaises, MapRaises, SubmitCommits,
                SubmitReplayLost, SubmitRefused, SubmitUnknown, SubmitEmptyRefused,
                SubmitNotFound
  <2>3. CASE \/ UnlinkRaises(e) \/ Explain(e) \/ Announce(e) \/ AnnounceRaises(e)
             \/ DeliverBlocks(e) \/ DeliverDegraded(e) \/ Finish(e)
    BY <2>3 DEF UnlinkRaises, Explain, Announce, AnnounceRaises, DeliverBlocks,
                DeliverDegraded, Finish
  <2> QED BY <2>1, <2>2, <2>3 DEF Locked
<1> QED BY <1>3, <1>5, <1>6, <1>7

LEMMA LinkSteps == TypeInv /\ LinkInv /\ [Next]_vars => [L!Next]_L!vars
<1> SUFFICES ASSUME TypeInv, LinkInv, [Next]_vars PROVE [L!Next]_L!vars
  OBVIOUS
<1>0. SameLink(row, row) /\ cases \in [Cases -> {"unborn", "live", "gone"}]
  BY DEF SameLink, TypeInv, TypeOK
<1>a. ASSUME row' = row, cases' = cases PROVE UNCHANGED L!vars
  BY <1>0, <1>a, LinkStutters DEF Created
<1>1. ASSUME NEW e \in Events, Outside(e) \/ Enters(e) PROVE UNCHANGED L!vars
  BY <1>a, <1>1 DEF Outside, Enters, backVars
<1>2. ASSUME NEW e \in Events, Locked(e) PROVE [L!Next]_L!vars
  BY <1>2, LinkWrite, OtherWrites
<1>3. ASSUME NEW c \in Cases, DeleteCase(c) PROVE UNCHANGED L!vars
  <2>1. row' = row /\ Created' = Created
    BY <1>0, <1>3 DEF DeleteCase, storeVars, Created
  <2> QED BY <1>0, <2>1, LinkStutters
<1>4. ASSUME Shutdown \/ UNCHANGED vars PROVE UNCHANGED L!vars
  BY <1>a, <1>4 DEF Shutdown, vars, storeVars, backVars
<1>5. ASSUME NEW kept \in BOOLEAN, Restart(kept) PROVE [L!Next]_L!vars
  BY <1>a, <1>5, LinkForgets DEF Restart, backVars
<1> QED BY <1>1, <1>2, <1>3, <1>4, <1>5, StepCases

LEMMA LinkStarts == Init => L!Init
  BY NoRowFields DEF Init, L!Init, Linked, is_unlinked

\* The row implements the link it stands for: whoever writes it, on every surface,
\* through crashes and lost volumes, a thread's link to its case is never replaced
\* by another one - the case is reported missing first, or the record is gone.
THEOREM RowImplementsLink == Spec => ImplementsCaseLink
<1>1. Init => L!Init
  BY LinkStarts
<1>2. TypeInv /\ LinkInv /\ [Next]_vars => [L!Next]_L!vars
  BY LinkSteps
<1> QED BY <1>1, <1>2, Linking, PTL DEF Spec, ImplementsCaseLink, L!Spec

-----------------------------------------------------------------------------
(* What an interaction's turn did, and what the thread was told of it. *)

\* Where a turn has been answered, or the handler is over.
After == Answered \union {"forget", "explain", "finish", "done"}

\* Where a placeholder may still say "Working...".
Shown == {"find", "create", "map", "submit", "unlink", "seed", "explain", "announce",
          "clear", "deliver"}

\* Nothing has become of a turn that was not sent; "send it again" is not said of
\* one that may have committed; and, while the store is open, a committed turn
\* with nothing said is on its way to say it, and a placeholder at "Working..."
\* belongs to a worker on its way to settle it.
Told(e) ==
    /\ pc[e] \notin After => outcome[e] = "none" /\ said[e] = "none"
    /\ said[e] = "resend" => outcome[e] \in {"none", "refused"}
    /\ open /\ outcome[e] = "committed"
           => \/ pc[e] \in {"seed", "explain", "announce", "clear", "deliver", "done"}
              \/ said[e] # "none"
    /\ open /\ placed[e] = "working"
           => pc[e] \in Shown \/ (pc[e] = "read" /\ Kind(e) # "followup")

ToldInv == \A e \in Events : Told(e)

\* A step of e leaves what became of the others' turns alone.
Mine(e) == \A f \in Events : f # e => /\ outcome'[f] = outcome[f] /\ said'[f] = said[f]
                                      /\ placed'[f] = placed[f]

LEMMA ToldLocked ==
    ASSUME TypeInv, NEW e \in Events, Told(e), Locked(e)
    PROVE  Told(e)' /\ Mine(e)
<1>a. /\ pc \in [Events -> {"idle", "done"} \union Waiting \union Gated]
      /\ placed \in [Events -> {"none", "working", "settled", "refused", "killed"}]
      /\ outcome \in [Events -> {"none", "refused", "unknown", "committed"}]
      /\ said \in [Events -> {"none", "skip", "gone", "resend", "noresend",
                              "reply", "undelivered"}]
  BY DEF TypeInv, TypeOK
<1>b. open' = open
  BY InsideSteps DEF Inside
<1> USE <1>a, <1>b DEF Told, Mine, After, Answered, Shown, At, Goto, Escape, Kind, Fail, Say,
        Settle, Commits, slackVars, logVars
<1>1. ASSUME StartWorker(e) PROVE Told(e)' /\ Mine(e)
  BY <1>1 DEF StartWorker
<1>2. ASSUME StartFails(e) PROVE Told(e)' /\ Mine(e)
  BY <1>2 DEF StartFails
<1>3. ASSUME PostPlaceholder(e) PROVE Told(e)' /\ Mine(e)
  BY <1>3 DEF PostPlaceholder, Posted
<1>4. ASSUME BeginClick(e) PROVE Told(e)' /\ Mine(e)
  BY <1>4 DEF BeginClick
<1>5. ASSUME BeginBox(e) PROVE Told(e)' /\ Mine(e)
  BY <1>5 DEF BeginBox
<1>6. ASSUME TellMissing(e) PROVE Told(e)' /\ Mine(e)
  BY <1>6 DEF TellMissing
<1>41. ASSUME ForgetThread(e) PROVE Told(e)' /\ Mine(e)
  BY <1>41 DEF ForgetThread
<1>7. ASSUME BeginAssistant(e) PROVE Told(e)' /\ Mine(e)
  BY <1>7 DEF BeginAssistant
<1>8. ASSUME BeginFollowup(e) PROVE Told(e)' /\ Mine(e)
  BY <1>8 DEF BeginFollowup
<1>9. ASSUME ClaimNotice(e) PROVE Told(e)' /\ Mine(e)
  BY <1>9 DEF ClaimNotice
<1>10. ASSUME PostNotice(e) PROVE Told(e)' /\ Mine(e)
  BY <1>10 DEF PostNotice
<1>11. ASSUME RecoverLostCase(e) PROVE Told(e)' /\ Mine(e)
  BY <1>11 DEF RecoverLostCase, NoRowYet
<1>12. ASSUME MarkRecovered(e) PROVE Told(e)' /\ Mine(e)
  BY <1>12 DEF MarkRecovered
<1>13. ASSUME RecoverNothing(e) PROVE Told(e)' /\ Mine(e)
  BY <1>13 DEF RecoverNothing, NoRowYet
<1>14. ASSUME OrphanRaises(e) PROVE Told(e)' /\ Mine(e)
  BY <1>14 DEF OrphanRaises
<1>15. ASSUME ReadThread(e) PROVE Told(e)' /\ Mine(e)
  BY <1>15 DEF ReadThread
<1>16. ASSUME ReadRaises(e) PROVE Told(e)' /\ Mine(e)
  BY <1>16 DEF ReadRaises
<1>17. ASSUME Decline(e) PROVE Told(e)' /\ Mine(e)
  BY <1>17 DEF Decline
<1>18. ASSUME FindCase(e) PROVE Told(e)' /\ Mine(e)
  BY <1>18 DEF FindCase
<1>19. ASSUME FindNone(e) PROVE Told(e)' /\ Mine(e)
  BY <1>19 DEF FindNone
<1>20. ASSUME ClickFindsNone(e) PROVE Told(e)' /\ Mine(e)
  BY <1>20 DEF ClickFindsNone
<1>21. ASSUME FindRaises(e) PROVE Told(e)' /\ Mine(e)
  BY <1>21 DEF FindRaises
<1>22. ASSUME Create(e) PROVE Told(e)' /\ Mine(e)
  BY <1>22 DEF Create
<1>23. ASSUME CreateFails(e) PROVE Told(e)' /\ Mine(e)
  BY <1>23 DEF CreateFails
<1>24. ASSUME MapRaises(e) PROVE Told(e)' /\ Mine(e)
  BY <1>24 DEF MapRaises
<1>25. ASSUME MapThread(e) PROVE Told(e)' /\ Mine(e)
  BY <1>25 DEF MapThread
<1>26. ASSUME SubmitCommits(e) PROVE Told(e)' /\ Mine(e)
  BY <1>26 DEF SubmitCommits
<1>27. ASSUME SubmitReplayLost(e) PROVE Told(e)' /\ Mine(e)
  BY <1>27 DEF SubmitReplayLost
<1>28. ASSUME SubmitRefused(e) PROVE Told(e)' /\ Mine(e)
  BY <1>28 DEF SubmitRefused
<1>29. ASSUME SubmitUnknown(e) PROVE Told(e)' /\ Mine(e)
  BY <1>29 DEF SubmitUnknown
<1>30. ASSUME SubmitEmptyRefused(e) PROVE Told(e)' /\ Mine(e)
  BY <1>30 DEF SubmitEmptyRefused
<1>31. ASSUME SubmitNotFound(e) PROVE Told(e)' /\ Mine(e)
  BY <1>31 DEF SubmitNotFound
<1>32. ASSUME UnlinkStaleCase(e) PROVE Told(e)' /\ Mine(e)
  BY <1>32 DEF UnlinkStaleCase
<1>33. ASSUME UnlinkRaises(e) PROVE Told(e)' /\ Mine(e)
  BY <1>33 DEF UnlinkRaises
<1>34. ASSUME Seed(e) PROVE Told(e)' /\ Mine(e)
  BY <1>34 DEF Seed, AfterSeed
<1>42. ASSUME Explain(e) PROVE Told(e)' /\ Mine(e)
  BY <1>42 DEF Explain
<1>43. ASSUME ClearActions(e) PROVE Told(e)' /\ Mine(e)
  BY <1>43 DEF ClearActions
<1>35. ASSUME Announce(e) PROVE Told(e)' /\ Mine(e)
  BY <1>35 DEF Announce
<1>36. ASSUME AnnounceRaises(e) PROVE Told(e)' /\ Mine(e)
  BY <1>36 DEF AnnounceRaises
<1>37. ASSUME DeliverBlocks(e) PROVE Told(e)' /\ Mine(e)
  BY <1>37 DEF DeliverBlocks
<1>38. ASSUME DeliverDegraded(e) PROVE Told(e)' /\ Mine(e)
  BY <1>38 DEF DeliverDegraded
<1>39. ASSUME Record(e) PROVE Told(e)' /\ Mine(e)
  BY <1>39 DEF Record
<1>40. ASSUME Finish(e) PROVE Told(e)' /\ Mine(e)
  BY <1>40 DEF Finish
<1> QED
  BY <1>1, <1>2, <1>3, <1>4, <1>5, <1>6, <1>7, <1>8, <1>9, <1>10, <1>11, <1>12, <1>13,
     <1>14, <1>15, <1>16, <1>17, <1>18, <1>19, <1>20, <1>21, <1>22, <1>23, <1>24, <1>25,
     <1>26, <1>27, <1>28, <1>29, <1>30, <1>31, <1>32, <1>33, <1>34, <1>35, <1>36, <1>37,
     <1>38, <1>39, <1>40, <1>41, <1>42, <1>43 DEF Locked

\* Before the gate: only a skip notice is said, and nothing becomes of a turn.
LEMMA ToldOutside ==
    ASSUME TypeInv, NEW e \in Events, Told(e),
           \/ \E k \in Kinds : Dispatch(e, k)
           \/ SubmitBox(e) \/ AcceptClick(e) \/ RefuseStaleClick(e) \/ ListenShortcut(e)
           \/ ListenFollowup(e) \/ RouteFollowup(e) \/ WeighFollowup(e) \/ EnterGate(e)
           \/ TurnedAway(e)
    PROVE  Told(e)' /\ Mine(e)
<1>a. /\ pc \in [Events -> {"idle", "done"} \union Waiting \union Gated]
      /\ said \in [Events -> {"none", "skip", "gone", "resend", "noresend",
                              "reply", "undelivered"}]
  BY DEF TypeInv, TypeOK
<1> USE <1>a DEF Told, Mine, After, Answered, Shown, At, Goto, Escape, Say,
        procVars, slackVars, logVars
<1>1. ASSUME NEW k \in Kinds, Dispatch(e, k) PROVE Told(e)' /\ Mine(e)
  BY <1>1 DEF Dispatch
<1>2. ASSUME SubmitBox(e) PROVE Told(e)' /\ Mine(e)
  BY <1>2 DEF SubmitBox
<1>3. ASSUME AcceptClick(e) PROVE Told(e)' /\ Mine(e)
  BY <1>3 DEF AcceptClick
<1>4. ASSUME RefuseStaleClick(e) PROVE Told(e)' /\ Mine(e)
  BY <1>4 DEF RefuseStaleClick
<1>5. ASSUME ListenShortcut(e) PROVE Told(e)' /\ Mine(e)
  BY <1>5 DEF ListenShortcut
<1>6. ASSUME ListenFollowup(e) PROVE Told(e)' /\ Mine(e)
  BY <1>6 DEF ListenFollowup
<1>7. ASSUME RouteFollowup(e) PROVE Told(e)' /\ Mine(e)
  BY <1>7 DEF RouteFollowup
<1>10. ASSUME WeighFollowup(e) PROVE Told(e)' /\ Mine(e)
  BY <1>10 DEF WeighFollowup
<1>8. ASSUME EnterGate(e) PROVE Told(e)' /\ Mine(e)
  BY <1>8 DEF EnterGate
<1>9. ASSUME TurnedAway(e) PROVE Told(e)' /\ Mine(e)
  BY <1>9 DEF TurnedAway
<1> QED BY <1>1, <1>2, <1>3, <1>4, <1>5, <1>6, <1>7, <1>8, <1>9, <1>10

\* ... and at its end: whose step it is, and what else it may be.
LEMMA ToldCases ==
    ASSUME TypeInv, ToldInv, [Next]_vars
    PROVE  \/ \E e \in Events : /\ Told(e)' /\ Mine(e) /\ open' = open
                                /\ Outside(e) \/ Enters(e) \/ Inside(e)
           \/ \E c \in Cases : DeleteCase(c)
           \/ Shutdown
           \/ \E kept \in BOOLEAN : Restart(kept)
           \/ UNCHANGED vars
<1>1. ASSUME NEW e \in Events, Opening(e) \/ Turn(e) \/ Closing(e)
      PROVE  Told(e)' /\ Mine(e) /\ open' = open /\ Inside(e)
  <2>1. Locked(e)
    BY <1>1 DEF Opening, Turn, Closing, Locked
  <2> QED BY <2>1, ToldLocked, InsideSteps DEF ToldInv, Inside
<1>2. ASSUME NEW e \in Events, StartWorker(e) \/ StartFails(e)
      PROVE  Told(e)' /\ Mine(e) /\ open' = open /\ Inside(e)
  <2>1. Locked(e)
    BY <1>2 DEF Locked
  <2> QED BY <2>1, ToldLocked, InsideSteps DEF ToldInv, Inside
<1>3. ASSUME NEW e \in Events,
             \/ \E k \in Kinds : Dispatch(e, k)
             \/ SubmitBox(e) \/ AcceptClick(e) \/ RefuseStaleClick(e) \/ ListenShortcut(e)
             \/ ListenFollowup(e) \/ RouteFollowup(e) \/ WeighFollowup(e) \/ EnterGate(e)
             \/ TurnedAway(e)
      PROVE  Told(e)' /\ Mine(e) /\ open' = open /\ (Outside(e) \/ Enters(e) \/ Inside(e))
  <2>1. Told(e)' /\ Mine(e)
    BY <1>3, ToldOutside DEF ToldInv
  <2>2. Outside(e) \/ Enters(e) \/ StartWorker(e) \/ StartFails(e)
    BY <1>3, OutsideSteps DEF Listener
  <2>3. StartWorker(e) \/ StartFails(e) => Inside(e)
    BY InsideSteps DEF Locked
  <2>4. open' = open
    BY <2>2, <2>3 DEF Outside, Enters, Inside, procVars
  <2> QED BY <2>1, <2>2, <2>3, <2>4
<1> QED BY <1>1, <1>2, <1>3 DEF Next, Listener

LEMMA ToldInit == Init => ToldInv
  BY DEF Init, ToldInv, Told

LEMMA ToldNext == TypeInv /\ ToldInv /\ [Next]_vars => ToldInv'
<1> SUFFICES ASSUME TypeInv, ToldInv, [Next]_vars PROVE ToldInv'
  OBVIOUS
<1>0. pc \in [Events -> {"idle", "done"} \union Waiting \union Gated]
  BY DEF TypeInv, TypeOK
<1>1. ASSUME NEW e \in Events, Told(e)', Mine(e), open' = open,
             Outside(e) \/ Enters(e) \/ Inside(e)
      PROVE  ToldInv'
  <2>1. ASSUME NEW f \in Events, f # e PROVE Told(f)'
    <3>1. pc'[f] = pc[f] /\ job'[f] = job[f]
      BY <1>0, <1>1, <2>1 DEF Outside, Enters, Inside, Frame
    <3>2. /\ outcome'[f] = outcome[f] /\ said'[f] = said[f] /\ placed'[f] = placed[f]
      BY <1>1, <2>1 DEF Mine
    <3>3. Told(f)
      BY DEF ToldInv
    <3> QED BY <1>1, <3>1, <3>2, <3>3 DEF Told, Kind
  <2> QED BY <1>1, <2>1 DEF ToldInv
<1>2. ASSUME NEW c \in Cases, DeleteCase(c) PROVE ToldInv'
  BY <1>2 DEF DeleteCase, ToldInv, Told, Kind, procVars, slackVars, logVars
<1>3. ASSUME Shutdown PROVE ToldInv'
  BY <1>3 DEF Shutdown, ToldInv, Told, slackVars, logVars
<1>4. ASSUME UNCHANGED vars PROVE ToldInv'
  BY <1>4 DEF vars, ToldInv, Told, Kind, procVars, slackVars, logVars
<1>5. ASSUME NEW kept \in BOOLEAN, Restart(kept) PROVE ToldInv'
  <2> SUFFICES ASSUME NEW f \in Events PROVE Told(f)'
    BY DEF ToldInv
  <2>1. /\ IF pc[f] \in {"idle", "modal"} THEN pc'[f] = pc[f] ELSE pc'[f] = "done"
        /\ placed'[f] # "working" /\ outcome'[f] = outcome[f] /\ said'[f] = said[f]
    BY <1>5 DEF Restart, logVars
  <2>2. Told(f)
    BY DEF ToldInv
  <2> QED BY <2>1, <2>2 DEF Told, After, Answered
<1> QED BY <1>1, <1>2, <1>3, <1>4, <1>5, ToldCases

LEMMA Tells == Spec => [](TypeInv /\ ToldInv)
<1>1. Init => TypeInv /\ ToldInv
  BY TypeInit, ToldInit
<1>2. TypeInv /\ ToldInv /\ [Next]_vars => (TypeInv /\ ToldInv)'
  BY TypeNext, ToldNext
<1> QED BY <1>1, <1>2, PTL DEF Spec

\* A turn that may have committed is never answered with advice to send it again,
\* whatever fails between the commit and the reply, the closing store included.
THEOREM CommittedNeverResent == Spec => []CommittedNotResent
<1>1. ToldInv => CommittedNotResent
  BY DEF ToldInv, Told, CommittedNotResent
<1> QED BY <1>1, Tells, PTL

\* ShutsDown is the only way to a closed store.
LEMMA StoreStaysOpen ==
    ASSUME ~ShutsDown
    PROVE  Spec => []open
<1>1. Init => open
  BY DEF Init
<1>2. TypeInv /\ ToldInv /\ open /\ [Next]_vars => open'
  <2> SUFFICES ASSUME TypeInv, ToldInv, open, [Next]_vars PROVE open'
    OBVIOUS
  <2> QED BY ToldCases DEF DeleteCase, Shutdown, Restart, vars, procVars
<1> QED BY <1>1, <1>2, Tells, PTL DEF Spec

\* While the store is open, a turn known to be committed ends with its reply
\* offered to Slack - at all times, in a process that does not shut down in order.
THEOREM ReplyAlwaysOffered ==
    Spec => /\ [](open => CommittedReplyOffered)
            /\ ~ShutsDown => []CommittedReplyOffered
<1>1. ToldInv /\ open => CommittedReplyOffered
  BY DEF ToldInv, Told, CommittedReplyOffered
<1>2. Spec => [](open => CommittedReplyOffered)
  BY <1>1, Tells, PTL
<1>3. ASSUME ~ShutsDown PROVE Spec => []CommittedReplyOffered
  BY <1>1, <1>3, Tells, StoreStaysOpen, PTL
<1> QED BY <1>2, <1>3

\* ... and no worker ends with its placeholder still at "Working...", unless it
\* was killed or Slack refused the update.
THEOREM PlaceholderAlwaysSettled ==
    Spec => /\ [](open => PlaceholderSettled)
            /\ ~ShutsDown => []PlaceholderSettled
<1>1. ToldInv /\ open => PlaceholderSettled
  BY DEF ToldInv, Told, PlaceholderSettled, Shown
<1>2. Spec => [](open => PlaceholderSettled)
  BY <1>1, Tells, PTL
<1>3. ASSUME ~ShutsDown PROVE Spec => []PlaceholderSettled
  BY <1>1, <1>3, Tells, StoreStaysOpen, PTL
<1> QED BY <1>2, <1>3

-----------------------------------------------------------------------------
(* Which buttons come up. *)

Rearmed == \A m \in screen' \ screen :
               \/ At(m, "deliver")
               \/ \E e \in Events : /\ Kind(e) = "click" /\ job[e].msg = m
                                    /\ outcome'[e] \in {"none", "refused"}

\* The failure path gives a click its buttons back only with "send it again".
LEMMA FailRearms ==
    ASSUME NEW e \in Events, NEW a, Fail(e, a), a = "resend" => outcome'[e] \in {"none", "refused"}
    PROVE  Rearmed
<1>1. \/ screen' = screen
      \/ /\ Kind(e) = "click"
         /\ screen' = IF a = "resend" THEN screen \union {job[e].msg}
                                      ELSE screen \ {job[e].msg}
  BY DEF Fail, Rewrite
<1> QED BY <1>1 DEF Rearmed

\* The steps that leave the screen alone, or only take buttons down.
LEMMA ShrinkRearms ==
    ASSUME screen' \subseteq screen
    PROVE  Rearmed
  BY DEF Rearmed

LEMMA RearmLocked ==
    ASSUME TypeInv, ToldInv, NEW e \in Events, Locked(e)
    PROVE  Rearmed
<1>a. /\ pc[e] \notin After => outcome[e] = "none"
      /\ outcome \in [Events -> {"none", "refused", "unknown", "committed"}]
  BY DEF ToldInv, Told, TypeInv, TypeOK
<1>b. screen' = screen => Rearmed
  BY ShrinkRearms
<1>c. screen' \in {screen, screen \ {job[e].msg}} => Rearmed
  BY ShrinkRearms
<1>d. Fail(e, "noresend") \/ Fail(e, "gone") => Rearmed
  BY FailRearms
<1>e. Fail(e, "resend") /\ outcome'[e] \in {"none", "refused"} => Rearmed
  BY FailRearms
<1> USE <1>a, <1>b, <1>c, <1>d, <1>e DEF At, Escape, After, Answered, slackVars, logVars
<1>1. ASSUME StartWorker(e) PROVE Rearmed
  BY <1>1 DEF StartWorker
<1>2. ASSUME StartFails(e) PROVE Rearmed
  BY <1>2 DEF StartFails
<1>3. ASSUME PostPlaceholder(e) PROVE Rearmed
  BY <1>3 DEF PostPlaceholder
<1>4. ASSUME BeginClick(e) PROVE Rearmed
  BY <1>4 DEF BeginClick, Rewrite
<1>5. ASSUME BeginBox(e) PROVE Rearmed
  BY <1>5 DEF BeginBox
<1>6. ASSUME TellMissing(e) PROVE Rearmed
  BY <1>6 DEF TellMissing
<1>41. ASSUME ForgetThread(e) PROVE Rearmed
  BY <1>41 DEF ForgetThread
<1>7. ASSUME BeginAssistant(e) PROVE Rearmed
  BY <1>7 DEF BeginAssistant
<1>8. ASSUME BeginFollowup(e) PROVE Rearmed
  BY <1>8 DEF BeginFollowup
<1>9. ASSUME ClaimNotice(e) PROVE Rearmed
  BY <1>9 DEF ClaimNotice
<1>10. ASSUME PostNotice(e) PROVE Rearmed
  BY <1>10 DEF PostNotice
<1>11. ASSUME RecoverLostCase(e) PROVE Rearmed
  BY <1>11 DEF RecoverLostCase
<1>12. ASSUME MarkRecovered(e) PROVE Rearmed
  BY <1>12 DEF MarkRecovered
<1>13. ASSUME RecoverNothing(e) PROVE Rearmed
  BY <1>13 DEF RecoverNothing
<1>14. ASSUME OrphanRaises(e) PROVE Rearmed
  BY <1>14 DEF OrphanRaises
<1>15. ASSUME ReadThread(e) PROVE Rearmed
  BY <1>15 DEF ReadThread
<1>16. ASSUME ReadRaises(e) PROVE Rearmed
  BY <1>16 DEF ReadRaises
<1>17. ASSUME Decline(e) PROVE Rearmed
  BY <1>17 DEF Decline
<1>18. ASSUME FindCase(e) PROVE Rearmed
  BY <1>18 DEF FindCase
<1>19. ASSUME FindNone(e) PROVE Rearmed
  BY <1>19 DEF FindNone
<1>20. ASSUME ClickFindsNone(e) PROVE Rearmed
  BY <1>20 DEF ClickFindsNone
<1>21. ASSUME FindRaises(e) PROVE Rearmed
  BY <1>21 DEF FindRaises
<1>22. ASSUME Create(e) PROVE Rearmed
  BY <1>22 DEF Create
<1>23. ASSUME CreateFails(e) PROVE Rearmed
  BY <1>23 DEF CreateFails
<1>24. ASSUME MapRaises(e) PROVE Rearmed
  BY <1>24 DEF MapRaises
<1>25. ASSUME MapThread(e) PROVE Rearmed
  BY <1>25 DEF MapThread
<1>26. ASSUME SubmitCommits(e) PROVE Rearmed
  BY <1>26 DEF SubmitCommits
<1>27. ASSUME SubmitReplayLost(e) PROVE Rearmed
  BY <1>27 DEF SubmitReplayLost
<1>28. ASSUME SubmitRefused(e) PROVE Rearmed
  BY <1>28 DEF SubmitRefused
<1>29. ASSUME SubmitUnknown(e) PROVE Rearmed
  BY <1>29 DEF SubmitUnknown
<1>30. ASSUME SubmitEmptyRefused(e) PROVE Rearmed
  BY <1>30 DEF SubmitEmptyRefused
<1>31. ASSUME SubmitNotFound(e) PROVE Rearmed
  BY <1>31 DEF SubmitNotFound
<1>32. ASSUME UnlinkStaleCase(e) PROVE Rearmed
  BY <1>32 DEF UnlinkStaleCase
<1>33. ASSUME UnlinkRaises(e) PROVE Rearmed
  BY <1>33 DEF UnlinkRaises
<1>34. ASSUME Seed(e) PROVE Rearmed
  BY <1>34 DEF Seed
<1>42. ASSUME Explain(e) PROVE Rearmed
  BY <1>42 DEF Explain
<1>43. ASSUME ClearActions(e) PROVE Rearmed
  BY <1>43 DEF ClearActions
<1>35. ASSUME Announce(e) PROVE Rearmed
  BY <1>35, ShrinkRearms DEF Announce
<1>36. ASSUME AnnounceRaises(e) PROVE Rearmed
  BY <1>36 DEF AnnounceRaises
<1>37. ASSUME DeliverBlocks(e) PROVE Rearmed
  BY <1>37 DEF DeliverBlocks, Rearmed
<1>38. ASSUME DeliverDegraded(e) PROVE Rearmed
  BY <1>38 DEF DeliverDegraded
<1>39. ASSUME Record(e) PROVE Rearmed
  BY <1>39 DEF Record, Rewrite
<1>40. ASSUME Finish(e) PROVE Rearmed
  BY <1>40 DEF Finish
<1> QED
  BY <1>1, <1>2, <1>3, <1>4, <1>5, <1>6, <1>7, <1>8, <1>9, <1>10, <1>11, <1>12, <1>13,
     <1>14, <1>15, <1>16, <1>17, <1>18, <1>19, <1>20, <1>21, <1>22, <1>23, <1>24, <1>25,
     <1>26, <1>27, <1>28, <1>29, <1>30, <1>31, <1>32, <1>33, <1>34, <1>35, <1>36, <1>37,
     <1>38, <1>39, <1>40, <1>41, <1>42, <1>43 DEF Locked

LEMMA RearmNext == TypeInv /\ ToldInv /\ [Next]_vars => Rearmed
<1> SUFFICES ASSUME TypeInv, ToldInv, [Next]_vars PROVE Rearmed
  OBVIOUS
<1> USE ShrinkRearms DEF Escape, slackVars
<1>1. ASSUME NEW e \in Events, Opening(e) \/ Turn(e) \/ Closing(e) PROVE Rearmed
  BY <1>1, RearmLocked DEF Opening, Turn, Closing, Locked
<1>2. ASSUME NEW e \in Events, StartWorker(e) \/ StartFails(e) PROVE Rearmed
  BY <1>2, RearmLocked DEF Locked
<1>3. ASSUME NEW e \in Events, NEW k \in Kinds, Dispatch(e, k) PROVE Rearmed
  BY <1>3 DEF Dispatch
<1>4. ASSUME NEW e \in Events, SubmitBox(e) \/ AcceptClick(e) \/ RefuseStaleClick(e)
      PROVE  Rearmed
  BY <1>4 DEF SubmitBox, AcceptClick, RefuseStaleClick
<1>5. ASSUME NEW e \in Events,
             ListenShortcut(e) \/ ListenFollowup(e) \/ RouteFollowup(e) \/ WeighFollowup(e)
      PROVE  Rearmed
  BY <1>5 DEF ListenShortcut, ListenFollowup, RouteFollowup, WeighFollowup
<1>6. ASSUME NEW e \in Events, EnterGate(e) \/ TurnedAway(e) PROVE Rearmed
  BY <1>6 DEF EnterGate, TurnedAway
<1>7. ASSUME NEW c \in Cases, DeleteCase(c) PROVE Rearmed
  BY <1>7 DEF DeleteCase
<1>8. ASSUME Shutdown \/ UNCHANGED vars PROVE Rearmed
  BY <1>8 DEF Shutdown, vars
<1>9. ASSUME NEW kept \in BOOLEAN, Restart(kept) PROVE Rearmed
  BY <1>9 DEF Restart
<1> QED BY <1>1, <1>2, <1>3, <1>4, <1>5, <1>6, <1>7, <1>8, <1>9 DEF Next, Listener

\* Choice buttons come up with the reply that carries them, and come back only for
\* a click whose turn did not commit (_restore_actions under retry_may_help).
THEOREM OnlyUncommittedRearmed == Spec => RearmOnlyUncommitted
<1>1. TypeInv /\ ToldInv /\ [Next]_vars
          => [\A m \in screen' \ screen :
                  \/ At(m, "deliver")
                  \/ \E e \in Events : /\ Kind(e) = "click" /\ job[e].msg = m
                                       /\ outcome'[e] \in {"none", "refused"}]_vars
  BY RearmNext DEF Rearmed
<1> QED BY <1>1, Tells, PTL DEF Spec, RearmOnlyUncommitted
=============================================================================
