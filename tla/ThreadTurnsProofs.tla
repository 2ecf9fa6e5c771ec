-------------------------- MODULE ThreadTurnsProofs --------------------------
(***************************************************************************)
(* Theorems of ThreadTurns, for every number of interactions, cases and    *)
(* restarts, and every mix of surfaces: its types and its gate.            *)
(* ThreadLinkProofs goes on from here.                                     *)
(***************************************************************************)
EXTENDS ThreadTurns, TLAPS

-----------------------------------------------------------------------------
(* What each write of CaseStore does to a row: it keeps the row well       *)
(* formed, and it touches no column but its own.                           *)

\* q links the thread as r does.
SameLink(q, r) == q.present = r.present /\ q.case = r.case /\ q.unlinked = r.unlinked

\* ... and agrees with r on what the thread was told and is owed.
SameNotice(q, r) == q.notified = r.notified /\ q.restart = r.restart

LEMMA NoRowFields ==
    /\ NoRow.present = FALSE /\ NoRow.case = None /\ NoRow.seeded = FALSE
    /\ NoRow.unlinked = FALSE /\ NoRow.notified = FALSE /\ NoRow.restart = FALSE
    /\ NoRow \in Row /\ get(NoRow) = None /\ ~is_seeded(NoRow) /\ ~is_unlinked(NoRow)
  BY DEF NoRow, Row, get, is_seeded, is_unlinked, Linked

LEMMA StoredFields ==
    ASSUME NEW r \in Stored
    PROVE  /\ r.present = TRUE /\ r.case \in Cases
           /\ r.seeded \in BOOLEAN /\ r.unlinked \in BOOLEAN
           /\ r.notified \in BOOLEAN /\ r.restart \in BOOLEAN
           /\ r.turnTs \in Events \union {None} /\ r.actionTs \in Events \union {None}
  BY DEF Stored

\* A row is there or it is not.
LEMMA RowCases ==
    ASSUME NEW r \in Row
    PROVE  r \in Stored \/ r = NoRow
  BY DEF Row

\* The reads, on a well-formed row: the case of a linked thread is a case, and a
\* tombstone is not linked.
LEMMA Reads ==
    ASSUME NEW r \in Row
    PROVE  /\ get(r) \in Cases \union {None}
           /\ get(r) # None <=> Linked(r)
           /\ Linked(r) => get(r) = r.case /\ r.case \in Cases /\ ~is_unlinked(r)
           /\ is_unlinked(r) => get(r) = None /\ ~is_seeded(r) /\ r.present
           /\ is_seeded(r) => get(r) # None /\ r.seeded
           /\ r.present <=> r \in Stored
           /\ get(r) = None /\ ~is_unlinked(r) => r = NoRow
           /\ get_last_turn_ts(r) \in Events \union {None}
           /\ get_last_action_ts(r) \in Events \union {None}
           /\ restart_pending(r) \in BOOLEAN /\ is_seeded(r) \in BOOLEAN
<1> USE NoneAssumption DEF get, Linked, is_unlinked, is_seeded, get_last_turn_ts,
        get_last_action_ts, restart_pending
<1>1. CASE r \in Stored
  <2>1. /\ r.present = TRUE /\ r.case \in Cases
        /\ r.seeded \in BOOLEAN /\ r.unlinked \in BOOLEAN /\ r.restart \in BOOLEAN
        /\ r.turnTs \in Events \union {None} /\ r.actionTs \in Events \union {None}
    BY <1>1, StoredFields
  <2> QED BY <1>1, <2>1
<1>2. CASE r = NoRow
  <2>1. r.present = FALSE /\ r \notin Stored
    BY <1>2, NoRowFields, StoredFields
  <2> QED BY <1>2, <2>1
<1> QED BY <1>1, <1>2, RowCases

\* Rows that link alike read alike.
LEMMA SameLinkReads ==
    ASSUME NEW q, NEW r, SameLink(q, r)
    PROVE  /\ get(q) = get(r)
           /\ is_unlinked(q) = is_unlinked(r)
           /\ Linked(q) = Linked(r)
  BY DEF SameLink, get, is_unlinked, Linked

\* put links an unseeded, untold row; what was owed stays owed (restart_pending
\* outlives the write that opens the replacement case).
LEMMA PutRow ==
    ASSUME NEW r \in Row, NEW c \in Cases
    PROVE  /\ put(r, c) \in Stored
           /\ put(r, c).case = c /\ get(put(r, c)) = c
           /\ ~put(r, c).seeded /\ ~is_unlinked(put(r, c)) /\ ~put(r, c).notified
           /\ put(r, c).restart = r.restart
<1>1. ASSUME r \in Stored
      PROVE  /\ put(r, c) \in Stored
             /\ put(r, c).case = c /\ put(r, c).present /\ ~put(r, c).seeded
             /\ ~put(r, c).unlinked /\ ~put(r, c).notified
             /\ put(r, c).restart = r.restart
  <2>1. put(r, c) \in Stored
    BY <1>1 DEF Stored, put
  <2>2. /\ put(r, c).case = c /\ put(r, c).present /\ ~put(r, c).seeded
        /\ ~put(r, c).unlinked /\ ~put(r, c).notified /\ put(r, c).restart = r.restart
    BY <1>1 DEF Stored, put
  <2> QED BY <2>1, <2>2
<1>2. /\ put(NoRow, c) \in Stored
      /\ put(NoRow, c).case = c /\ put(NoRow, c).present /\ ~put(NoRow, c).seeded
      /\ ~put(NoRow, c).unlinked /\ ~put(NoRow, c).notified
      /\ put(NoRow, c).restart = NoRow.restart
  BY DEF Stored, put, NoRow
<1>3. /\ put(r, c) \in Stored
      /\ put(r, c).case = c /\ put(r, c).present /\ ~put(r, c).seeded
      /\ ~put(r, c).unlinked /\ ~put(r, c).notified
      /\ put(r, c).restart = r.restart
  BY <1>1, <1>2, RowCases
<1> QED BY <1>3 DEF get, Linked, is_unlinked

\* mark_seeded never links or unlinks, and settles what was owed.
LEMMA SeededRow ==
    ASSUME NEW r \in Row
    PROVE  /\ mark_seeded(r) \in Row
           /\ SameLink(mark_seeded(r), r) /\ mark_seeded(r).notified = r.notified
           /\ r.present => mark_seeded(r).seeded /\ ~mark_seeded(r).restart
           /\ ~r.present => mark_seeded(r) = r
<1>1. ASSUME r \in Stored
      PROVE  /\ mark_seeded(r) \in Stored
             /\ SameLink(mark_seeded(r), r) /\ mark_seeded(r).notified = r.notified
             /\ mark_seeded(r).seeded /\ ~mark_seeded(r).restart
  <2>1. mark_seeded(r) \in Stored
    BY <1>1 DEF Stored, mark_seeded, Update
  <2>2. /\ SameLink(mark_seeded(r), r) /\ mark_seeded(r).notified = r.notified
        /\ mark_seeded(r).seeded /\ ~mark_seeded(r).restart
    BY <1>1 DEF Stored, mark_seeded, Update, SameLink
  <2> QED BY <2>1, <2>2
<1>2. mark_seeded(NoRow) = NoRow
  BY NoRowFields DEF mark_seeded, Update
<1> QED BY <1>1, <1>2, RowCases, Reads, NoRowFields DEF Row, SameLink

\* record_turn and clear_last_action_ts write the two turn markers only.
LEMMA MarkedRow ==
    ASSUME NEW r \in Row, NEW t \in Events \union {None}, NEW a \in Events \union {None}
    PROVE  /\ record_turn(r, t, a) \in Row
           /\ SameLink(record_turn(r, t, a), r) /\ SameNotice(record_turn(r, t, a), r)
           /\ record_turn(r, t, a).seeded = r.seeded
           /\ clear_last_action_ts(r) \in Row
           /\ SameLink(clear_last_action_ts(r), r) /\ SameNotice(clear_last_action_ts(r), r)
           /\ clear_last_action_ts(r).seeded = r.seeded
<1>1. ASSUME r \in Stored
      PROVE  /\ record_turn(r, t, a) \in Stored
             /\ SameLink(record_turn(r, t, a), r) /\ SameNotice(record_turn(r, t, a), r)
             /\ record_turn(r, t, a).seeded = r.seeded
  <2>1. record_turn(r, t, a) \in Stored
    BY <1>1 DEF Stored, record_turn, Update
  <2>2. /\ SameLink(record_turn(r, t, a), r) /\ SameNotice(record_turn(r, t, a), r)
        /\ record_turn(r, t, a).seeded = r.seeded
    BY <1>1 DEF Stored, record_turn, Update, SameLink, SameNotice
  <2> QED BY <2>1, <2>2
<1>2. ASSUME r \in Stored
      PROVE  /\ clear_last_action_ts(r) \in Stored
             /\ SameLink(clear_last_action_ts(r), r) /\ SameNotice(clear_last_action_ts(r), r)
             /\ clear_last_action_ts(r).seeded = r.seeded
  BY <1>2 DEF Stored, clear_last_action_ts, Update, SameLink, SameNotice
<1>3. record_turn(NoRow, t, a) = NoRow /\ clear_last_action_ts(NoRow) = NoRow
  BY NoRowFields DEF record_turn, clear_last_action_ts, Update
<1> QED BY <1>1, <1>2, <1>3, RowCases DEF Row, SameLink, SameNotice

\* mark_unlinked leaves a tombstone: the case is remembered, its notice and its
\* explanation are owed.
LEMMA TombstoneRow ==
    ASSUME NEW r \in Row
    PROVE  /\ mark_unlinked(r) \in Row
           /\ get(mark_unlinked(r)) = None
           /\ mark_unlinked(r).seeded = r.seeded /\ mark_unlinked(r).case = r.case
           /\ r.present => /\ is_unlinked(mark_unlinked(r))
                           /\ ~mark_unlinked(r).notified /\ mark_unlinked(r).restart
           /\ ~r.present => mark_unlinked(r) = r
<1>1. ASSUME r \in Stored
      PROVE  /\ mark_unlinked(r) \in Stored
             /\ mark_unlinked(r).present /\ mark_unlinked(r).unlinked
             /\ ~mark_unlinked(r).notified /\ mark_unlinked(r).restart
             /\ mark_unlinked(r).seeded = r.seeded /\ mark_unlinked(r).case = r.case
  <2>1. mark_unlinked(r) \in Stored
    BY <1>1 DEF Stored, mark_unlinked, Update
  <2>2. /\ mark_unlinked(r).present /\ mark_unlinked(r).unlinked
        /\ ~mark_unlinked(r).notified /\ mark_unlinked(r).restart
        /\ mark_unlinked(r).seeded = r.seeded /\ mark_unlinked(r).case = r.case
    BY <1>1 DEF Stored, mark_unlinked, Update
  <2> QED BY <2>1, <2>2
<1>2. mark_unlinked(NoRow) = NoRow
  BY NoRowFields DEF mark_unlinked, Update
<1> QED BY <1>1, <1>2, RowCases, Reads, NoRowFields DEF Row, get, Linked, is_unlinked

\* The claim and its release move unlink_notified only, on a tombstone only.
LEMMA NoticeRow ==
    ASSUME NEW r \in Row
    PROVE  /\ claim_unlink_notice(r) \in Row /\ release_unlink_notice(r) \in Row
           /\ SameLink(claim_unlink_notice(r), r) /\ SameLink(release_unlink_notice(r), r)
           /\ claim_unlink_notice(r).restart = r.restart
           /\ release_unlink_notice(r).restart = r.restart
           /\ claim_unlink_notice(r).seeded = r.seeded
           /\ release_unlink_notice(r).seeded = r.seeded
           /\ notice_claimable(r) => claim_unlink_notice(r).notified
           /\ ~notice_claimable(r) => claim_unlink_notice(r) = r
           /\ is_unlinked(r) => ~release_unlink_notice(r).notified
<1>1. ASSUME r \in Stored, NEW b \in BOOLEAN
      PROVE  /\ [r EXCEPT !.notified = b] \in Stored
             /\ SameLink([r EXCEPT !.notified = b], r)
             /\ [r EXCEPT !.notified = b].restart = r.restart
             /\ [r EXCEPT !.notified = b].seeded = r.seeded
             /\ [r EXCEPT !.notified = b].notified = b
  <2>1. [r EXCEPT !.notified = b] \in Stored
    BY <1>1 DEF Stored
  <2>2. /\ SameLink([r EXCEPT !.notified = b], r)
        /\ [r EXCEPT !.notified = b].restart = r.restart
        /\ [r EXCEPT !.notified = b].seeded = r.seeded
        /\ [r EXCEPT !.notified = b].notified = b
    BY <1>1 DEF Stored, SameLink
  <2> QED BY <2>1, <2>2
<1>2. r \in Stored \/ ~is_unlinked(r)
  BY RowCases, NoRowFields
<1>3. notice_claimable(r) => is_unlinked(r)
  BY DEF notice_claimable
<1> QED BY <1>1, <1>2, <1>3 DEF Row, SameLink, claim_unlink_notice, release_unlink_notice


-----------------------------------------------------------------------------
(* How a step changes the locals of its own handler. *)

\* Only e's locals move, and e stays the interaction it is.
Moves(e) == /\ job' = [job EXCEPT ![e] = job'[e]]
            /\ job'[e] \in Job
            /\ job'[e].kind = job[e].kind /\ job'[e].msg = job[e].msg

\* Changes of a job that keep its identity and its case.
SameTurn(k, j) == /\ k \in Job
                  /\ k.kind = j.kind /\ k.msg = j.msg /\ k.case = j.case

LEMMA JobFields ==
    ASSUME NEW j \in Job
    PROVE  /\ j.kind \in AllKinds \union {"none"} /\ j.msg \in Events \union {None}
           /\ j.case \in Cases \union {None}
           /\ j.orphan \in BOOLEAN /\ j.tried \in BOOLEAN /\ j.restarted \in BOOLEAN
           /\ j.empty \in BOOLEAN /\ j.first \in BOOLEAN /\ j.lost \in BOOLEAN
           /\ j.ts \in Events \union {None} /\ j.buttons \in BOOLEAN
<1>1. /\ j.kind \in AllKinds \union {"none"} /\ j.msg \in Events \union {None}
      /\ j.case \in Cases \union {None}
  BY DEF Job
<1>2. /\ j.orphan \in BOOLEAN /\ j.tried \in BOOLEAN /\ j.restarted \in BOOLEAN
      /\ j.empty \in BOOLEAN /\ j.first \in BOOLEAN /\ j.lost \in BOOLEAN
  BY DEF Job
<1>3. j.ts \in Events \union {None} /\ j.buttons \in BOOLEAN
  BY DEF Job
<1> QED BY <1>1, <1>2, <1>3

LEMMA NoJobFields ==
    /\ NoJob \in Job
    /\ NoJob.kind = "none" /\ NoJob.case = None /\ NoJob.empty = FALSE
    /\ NoJob.orphan = FALSE
  BY DEF Job, NoJob


-----------------------------------------------------------------------------
(* Type correctness. *)

\* A turn that has its case, from mapping the thread to recording the reply.
InCase == {"map", "submit", "unlink", "seed", "announce", "clear", "deliver",
           "record"}

\* What the handlers' locals hold where they are used.
JobOK ==
    \A e \in Events :
        /\ Kind(e) \in Clicked => job[e].msg \in Events
        /\ pc[e] \in InCase => job[e].case \in Cases

TypeInv == TypeOK /\ JobOK

LEMMA TypeInit == Init => TypeInv
<1> SUFFICES ASSUME Init PROVE TypeInv
  OBVIOUS
<1>1. row \in Row /\ NoJob \in Job
  BY NoRowFields, NoJobFields DEF Init
<1>2. TypeOK
  <2>1. restarts \in 0..MaxRestarts /\ notices \in Nat /\ pointers \in Seq(Cases)
    BY ConfigAssumption DEF Init
  <2>2. /\ pc \in [Events -> {"idle", "done"} \union Waiting \union Gated]
        /\ job \in [Events -> Job]
        /\ owner \in [Events -> Cases \union {None}]
    BY <1>1 DEF Init
  <2>3. /\ cases \in [Cases -> {"unborn", "live", "gone"}]
        /\ landed \subseteq Cases /\ screen \subseteq Events
        /\ placed \in [Events -> {"none", "working", "settled", "refused", "killed"}]
        /\ outcome \in [Events -> {"none", "refused", "unknown", "committed"}]
        /\ said \in [Events -> {"none", "skip", "gone", "resend", "noresend",
                                "reply", "undelivered"}]
    BY DEF Init
  <2>4. open \in BOOLEAN /\ busy \in BOOLEAN /\ probed \in BOOLEAN
    BY DEF Init
  <2> QED BY <1>1, <2>1, <2>2, <2>3, <2>4 DEF TypeOK
<1>3. JobOK
  BY NoJobFields DEF Init, JobOK, Kind, InCase, Clicked
<1> QED BY <1>2, <1>3 DEF TypeInv


\* One field of a job changes, or a few.
LEMMA JobEdits ==
    ASSUME NEW j \in Job, NEW a \in BOOLEAN
    PROVE  /\ SameTurn([j EXCEPT !.restarted = a], j)
           /\ SameTurn([j EXCEPT !.orphan = a], j)
           /\ SameTurn([j EXCEPT !.first = a], j)
           /\ SameTurn([j EXCEPT !.lost = a], j)
           /\ SameTurn([j EXCEPT !.empty = a], j)
<1> USE DEF Job, SameTurn
<1>1. SameTurn([j EXCEPT !.restarted = a], j)
  OBVIOUS
<1>2. SameTurn([j EXCEPT !.orphan = a], j)
  OBVIOUS
<1>3. SameTurn([j EXCEPT !.first = a], j)
  OBVIOUS
<1>4. SameTurn([j EXCEPT !.lost = a], j)
  OBVIOUS
<1>5. SameTurn([j EXCEPT !.empty = a], j)
  OBVIOUS
<1> HIDE DEF Job, SameTurn
<1> QED BY <1>1, <1>2, <1>3, <1>4, <1>5

\* What the locals of a running handler may be.
LEMMA JobTypes ==
    ASSUME TypeInv, NEW e \in Events
    PROVE  /\ job \in [Events -> Job] /\ job[e] \in Job /\ row \in Row
           /\ restart_pending(row) \in BOOLEAN /\ is_seeded(row) \in BOOLEAN
           /\ get(row) \in Cases \union {None}
<1>1. job \in [Events -> Job] /\ job[e] \in Job /\ row \in Row
  BY DEF TypeInv, TypeOK
<1> QED BY <1>1, Reads

LEMMA SameTurnMoves ==
    ASSUME TypeInv, NEW e \in Events, NEW k, SameTurn(k, job[e]), job' = [job EXCEPT ![e] = k]
    PROVE  Moves(e) /\ job'[e] = k /\ job'[e].case = job[e].case
  BY JobTypes DEF SameTurn, Moves

LEMMA DispatchJob ==
    ASSUME TypeInv, NEW e \in Events, NEW k \in Kinds, Dispatch(e, k)
    PROVE  /\ job' = [job EXCEPT ![e] = job'[e]] /\ job'[e] \in Job
           /\ job'[e].kind = k /\ (k \in Clicked => job'[e].msg \in Events)
<1> DEFINE j == job[e]
<1>1. PICK m \in IF k \in Clicked THEN {x \in Events : owner[x] # None} ELSE {None} :
          job' = [job EXCEPT ![e] = [j EXCEPT !.kind = k, !.msg = m]]
  BY JobTypes DEF Dispatch
<1>2. k \in AllKinds /\ m \in Events \union {None} /\ (k \in Clicked => m \in Events)
  BY <1>1, ConfigAssumption
<1> DEFINE i == [j EXCEPT !.kind = k, !.msg = m]
<1>3. i \in Job /\ i.kind = k /\ i.msg = m
  <2>1. j \in Job
    BY JobTypes
  <2> HIDE DEF j
  <2> QED BY <1>2, <2>1 DEF Job
<1>4. job' = [job EXCEPT ![e] = i]
  BY <1>1
<1> HIDE DEF i
<1> QED BY JobTypes, <1>2, <1>3, <1>4

LEMMA ListenJob ==
    ASSUME TypeInv, NEW e \in Events
    PROVE  /\ ListenShortcut(e) => job' = job \/ Moves(e)
           /\ WeighFollowup(e) => job' = job \/ Moves(e)
<1>1. SameTurn([job[e] EXCEPT !.restarted = restart_pending(row)], job[e])
  BY JobTypes, JobEdits
<1>2. SameTurn([job[e] EXCEPT !.orphan = TRUE], job[e])
  BY JobTypes, JobEdits
<1>3. ListenShortcut(e) => job' = job \/ Moves(e)
  BY <1>1, SameTurnMoves DEF ListenShortcut
<1>4. WeighFollowup(e) => job' = job \/ Moves(e)
  BY <1>2, SameTurnMoves DEF WeighFollowup
<1> QED BY <1>3, <1>4

\* The catch-up is asked for exactly when the thread is not seeded.
LEMMA ReadThreadJob ==
    ASSUME TypeInv, NEW e \in Events, ReadThread(e)
    PROVE  /\ Moves(e)
           /\ job'[e].tried = (Kind(e) \in {"mention", "followup"} /\ ~is_seeded(row))
           /\ job'[e].empty => Kind(e) = "mention" /\ is_seeded(row)
<1> DEFINE j == job[e]
<1>1. \E a, b, c \in BOOLEAN :
          /\ job' = [job EXCEPT ![e] = [j EXCEPT !.tried = a, !.restarted = b, !.empty = c]]
          /\ a = (Kind(e) \in {"mention", "followup"} /\ ~is_seeded(row))
          /\ c => Kind(e) = "mention" /\ is_seeded(row)
  BY JobTypes, JobFields DEF ReadThread
<1>2. PICK a \in BOOLEAN, b \in BOOLEAN, c \in BOOLEAN :
          /\ job' = [job EXCEPT ![e] = [j EXCEPT !.tried = a, !.restarted = b, !.empty = c]]
          /\ a = (Kind(e) \in {"mention", "followup"} /\ ~is_seeded(row))
          /\ c => Kind(e) = "mention" /\ is_seeded(row)
  BY <1>1
<1> DEFINE k == [j EXCEPT !.tried = a, !.restarted = b, !.empty = c]
<1>3. SameTurn(k, j) /\ k.tried = a /\ k.empty = c
  <2>1. j \in Job
    BY JobTypes
  <2> HIDE DEF j
  <2>2. SameTurn(k, j)
    BY <1>2, <2>1 DEF Job, SameTurn
  <2>3. k.tried = a /\ k.empty = c
    BY <1>2, <2>1 DEF Job
  <2> QED BY <2>2, <2>3
<1>4. job' = [job EXCEPT ![e] = k]
  BY <1>2
<1> HIDE DEF k
<1>5. Moves(e) /\ job'[e] = k
  BY <1>3, <1>4, SameTurnMoves
<1> QED BY <1>2, <1>3, <1>5

LEMMA CaseJob ==
    ASSUME TypeInv, NEW e \in Events, NEW c \in Cases, job' = [job EXCEPT ![e].case = c]
    PROVE  /\ Moves(e) /\ job'[e].case = c
           /\ job'[e].tried = job[e].tried /\ job'[e].empty = job[e].empty
<1> DEFINE j == job[e]
           k == [j EXCEPT !.case = c]
<1>1. k \in Job /\ k.case = c /\ k.kind = j.kind /\ k.msg = j.msg
      /\ k.tried = j.tried /\ k.empty = j.empty
  <2>1. j \in Job
    BY JobTypes
  <2> HIDE DEF j
  <2> QED BY <2>1 DEF Job
<1>2. job' = [job EXCEPT ![e] = k]
  OBVIOUS
<1> HIDE DEF k
<1> QED BY <1>1, <1>2, JobTypes DEF Moves

LEMMA FindCaseJob ==
    ASSUME TypeInv, NEW e \in Events, FindCase(e)
    PROVE  /\ Moves(e) /\ job'[e].case = get(row) /\ get(row) \in Cases
           /\ job'[e].tried = job[e].tried /\ job'[e].empty = job[e].empty
<1>1. get(row) \in Cases /\ job' = [job EXCEPT ![e].case = get(row)]
  BY JobTypes DEF FindCase
<1> QED BY <1>1, CaseJob

LEMMA FindNoneJob ==
    ASSUME TypeInv, NEW e \in Events, FindNone(e)
    PROVE  Moves(e) /\ job'[e].tried = job[e].tried /\ job'[e].empty = job[e].empty
<1> DEFINE j == job[e]
           k == [j EXCEPT !.first = TRUE]
<1>1. SameTurn(k, j) /\ k.tried = j.tried /\ k.empty = j.empty
  <2>1. j \in Job
    BY JobTypes
  <2>2. SameTurn(k, j)
    BY <2>1, JobEdits
  <2> HIDE DEF j
  <2> QED BY <2>1, <2>2 DEF Job
<1>2. job' = [job EXCEPT ![e] = k]
  BY DEF FindNone
<1> HIDE DEF k
<1> QED BY <1>1, <1>2, SameTurnMoves

LEMMA CreateJob ==
    ASSUME TypeInv, NEW e \in Events, Create(e)
    PROVE  \E c \in Cases :
              /\ cases[c] = "unborn" /\ cases' = [cases EXCEPT ![c] = "live"]
              /\ Moves(e) /\ job'[e].case = c
              /\ job'[e].tried = job[e].tried /\ job'[e].empty = job[e].empty
<1>1. PICK c \in Cases : /\ cases[c] = "unborn" /\ cases' = [cases EXCEPT ![c] = "live"]
                         /\ job' = [job EXCEPT ![e].case = c]
  BY DEF Create
<1> QED BY <1>1, CaseJob

LEMMA ReplayLostJob ==
    ASSUME TypeInv, NEW e \in Events, SubmitReplayLost(e)
    PROVE  job' = job \/ (Moves(e) /\ job'[e].case = job[e].case)
<1>1. SameTurn([job[e] EXCEPT !.lost = TRUE], job[e])
  BY JobTypes, JobEdits
<1>2. job' = job \/ job' = [job EXCEPT ![e] = [job[e] EXCEPT !.lost = TRUE]]
  BY DEF SubmitReplayLost
<1> QED BY <1>1, <1>2, SameTurnMoves

LEMMA EmptyRefusedJob ==
    ASSUME TypeInv, NEW e \in Events, SubmitEmptyRefused(e)
    PROVE  /\ Moves(e) /\ job'[e].case = job[e].case
           /\ job'[e].tried = job[e].tried
<1> DEFINE j == job[e]
           k == [j EXCEPT !.empty = FALSE]
<1>1. SameTurn(k, j) /\ k.tried = j.tried
  <2>1. j \in Job
    BY JobTypes
  <2>2. SameTurn(k, j)
    BY <2>1, JobEdits
  <2> HIDE DEF j
  <2> QED BY <2>1, <2>2 DEF Job
<1>2. job' = [job EXCEPT ![e] = k]
  BY DEF SubmitEmptyRefused
<1> HIDE DEF k
<1> QED BY <1>1, <1>2, SameTurnMoves

LEMMA DeliverJob ==
    ASSUME TypeInv, NEW e \in Events, DeliverBlocks(e) \/ DeliverDegraded(e)
    PROVE  Moves(e) /\ job'[e].case = job[e].case
<1> DEFINE j == job[e]
<1>0. j \in Job
  BY JobTypes
<1>1. ASSUME DeliverBlocks(e) PROVE Moves(e) /\ job'[e].case = job[e].case
  <2>1. PICK choices \in BOOLEAN :
            job' = [job EXCEPT ![e] = [j EXCEPT !.ts = e, !.buttons = choices,
                                                !.replied = TRUE,
                                                !.note = j.first /\ j.restarted]]
    BY <1>1 DEF DeliverBlocks
  <2> DEFINE n == j.first /\ j.restarted
             k == [j EXCEPT !.ts = e, !.buttons = choices, !.replied = TRUE, !.note = n]
  <2>2. n \in BOOLEAN
    OBVIOUS
  <2>3. SameTurn(k, j)
    <3> HIDE DEF j, n
    <3> QED BY <1>0, <2>1, <2>2 DEF Job, SameTurn
  <2>4. job' = [job EXCEPT ![e] = k]
    BY <2>1
  <2> HIDE DEF k
  <2> QED BY <2>3, <2>4, SameTurnMoves
<1>2. ASSUME DeliverDegraded(e) PROVE Moves(e) /\ job'[e].case = job[e].case
  <2>1. PICK t \in {None, e} : job' = [job EXCEPT ![e] = [j EXCEPT !.ts = t]]
    BY <1>2 DEF DeliverDegraded
  <2> DEFINE k == [j EXCEPT !.ts = t]
  <2>2. SameTurn(k, j)
    <3> HIDE DEF j
    <3> QED BY <1>0, <2>1 DEF Job, SameTurn
  <2>3. job' = [job EXCEPT ![e] = k]
    BY <2>1
  <2> HIDE DEF k
  <2> QED BY <2>2, <2>3, SameTurnMoves
<1> QED BY <1>1, <1>2

-----------------------------------------------------------------------------
(* Every step keeps the types. *)

LEMMA TypeNext == TypeInv /\ [Next]_vars => TypeInv'
<1> USE DEF TypeInv, TypeOK, JobOK, InCase, Clicked, Waiting, Gated, At, Goto, Kind, Say,
            Escape, Settle, Rewrite, Fail, Commits,
            storeVars, procVars, backVars, slackVars, logVars
<1> SUFFICES ASSUME TypeInv, [Next]_vars PROVE TypeInv'
  OBVIOUS
<1>1. ASSUME NEW e \in Events, NEW k \in Kinds, Dispatch(e, k) PROVE TypeInv'
  <2>1. /\ job' = [job EXCEPT ![e] = job'[e]] /\ job'[e] \in Job
        /\ job'[e].kind = k /\ (k \in Clicked => job'[e].msg \in Events)
    BY <1>1, DispatchJob
  <2>2. pc' = [pc EXCEPT ![e] = IF k \in {"mention", "dm", "assistant"} THEN "enter" ELSE "listen"]
    BY <1>1 DEF Dispatch
  <2>3. job' \in [Events -> Job] /\ JobOK'
    BY <2>1, <2>2
  <2>4. TypeOK'
    BY <1>1, <2>2, <2>3 DEF Dispatch
  <2> QED BY <2>3, <2>4
<1>2. ASSUME NEW e \in Events, SubmitBox(e) PROVE TypeInv'
  BY <1>2 DEF SubmitBox
<1>3. ASSUME NEW e \in Events, AcceptClick(e) PROVE TypeInv'
  BY <1>3 DEF AcceptClick
<1>4. ASSUME NEW e \in Events, RefuseStaleClick(e) PROVE TypeInv'
  BY <1>4 DEF RefuseStaleClick
<1>5. ASSUME NEW e \in Events, ListenShortcut(e) PROVE TypeInv'
  <2>1. job' = job \/ Moves(e)
    BY <1>5, ListenJob
  <2>2. job' \in [Events -> Job] /\ JobOK'
    BY <1>5, <2>1 DEF ListenShortcut, Moves
  <2>3. TypeOK'
    BY <1>5, <2>2 DEF ListenShortcut
  <2> QED BY <2>2, <2>3
<1>6. ASSUME NEW e \in Events, ListenFollowup(e) PROVE TypeInv'
  BY <1>6 DEF ListenFollowup
<1>7. ASSUME NEW e \in Events, WeighFollowup(e) PROVE TypeInv'
  <2>1. job' = job \/ Moves(e)
    BY <1>7, ListenJob
  <2>2. job' \in [Events -> Job] /\ JobOK'
    BY <1>7, <2>1 DEF WeighFollowup, Moves
  <2>3. TypeOK'
    BY <1>7, <2>2 DEF WeighFollowup
  <2> QED BY <2>2, <2>3
<1>57. ASSUME NEW e \in Events, RouteFollowup(e) PROVE TypeInv'
  BY <1>57 DEF RouteFollowup
<1>8. ASSUME NEW e \in Events, EnterGate(e) PROVE TypeInv'
  BY <1>8 DEF EnterGate
<1>9. ASSUME NEW e \in Events, TurnedAway(e) PROVE TypeInv'
  BY <1>9 DEF TurnedAway
<1>10. ASSUME NEW e \in Events, StartWorker(e) PROVE TypeInv'
  BY <1>10 DEF StartWorker
<1>11. ASSUME NEW e \in Events, StartFails(e) PROVE TypeInv'
  BY <1>11, NoJobFields DEF StartFails
<1>12. ASSUME NEW e \in Events, PostPlaceholder(e) PROVE TypeInv'
  BY <1>12 DEF PostPlaceholder
<1>13. ASSUME NEW e \in Events, BeginClick(e) PROVE TypeInv'
  BY <1>13 DEF BeginClick
<1>14. ASSUME NEW e \in Events, BeginBox(e) PROVE TypeInv'
  BY <1>14 DEF BeginBox
<1>15. ASSUME NEW e \in Events, TellMissing(e) PROVE TypeInv'
  BY <1>15 DEF TellMissing
<1>54. ASSUME NEW e \in Events, ForgetThread(e) PROVE TypeInv'
  BY <1>54, NoRowFields DEF ForgetThread, Row
<1>16. ASSUME NEW e \in Events, BeginAssistant(e) PROVE TypeInv'
  BY <1>16 DEF BeginAssistant
<1>17. ASSUME NEW e \in Events, BeginFollowup(e) PROVE TypeInv'
  BY <1>17 DEF BeginFollowup
<1>18. ASSUME NEW e \in Events, ClaimNotice(e) PROVE TypeInv'
  BY <1>18, NoticeRow DEF ClaimNotice, Row
<1>19. ASSUME NEW e \in Events, PostNotice(e) PROVE TypeInv'
  BY <1>19, NoticeRow DEF PostNotice, Row
<1>20. ASSUME NEW e \in Events, RecoverLostCase(e) PROVE TypeInv'
  <2>1. Head(pointers) \in Cases
    BY <1>20 DEF RecoverLostCase
  <2>2. row' \in Row
    BY <1>20, <2>1, PutRow, SeededRow DEF RecoverLostCase, Row
  <2> QED BY <1>20, <2>2 DEF RecoverLostCase
<1>52. ASSUME NEW e \in Events, MarkRecovered(e) PROVE TypeInv'
  BY <1>52, SeededRow DEF MarkRecovered
<1>21. ASSUME NEW e \in Events, RecoverNothing(e) PROVE TypeInv'
  BY <1>21 DEF RecoverNothing
<1>22. ASSUME NEW e \in Events, OrphanRaises(e) PROVE TypeInv'
  BY <1>22 DEF OrphanRaises
<1>23. ASSUME NEW e \in Events, ReadThread(e) PROVE TypeInv'
  <2>1. Moves(e)
    BY <1>23, ReadThreadJob
  <2>2. job' \in [Events -> Job] /\ JobOK'
    BY <1>23, <2>1 DEF ReadThread, Moves
  <2>3. TypeOK'
    BY <1>23, <2>2 DEF ReadThread
  <2> QED BY <2>2, <2>3
<1>24. ASSUME NEW e \in Events, ReadRaises(e) PROVE TypeInv'
  BY <1>24 DEF ReadRaises
<1>25. ASSUME NEW e \in Events, Decline(e) PROVE TypeInv'
  BY <1>25 DEF Decline
<1>26. ASSUME NEW e \in Events, FindCase(e) PROVE TypeInv'
  <2>1. Moves(e) /\ job'[e].case = get(row) /\ get(row) \in Cases
    BY <1>26, FindCaseJob
  <2>2. job' \in [Events -> Job] /\ JobOK'
    BY <1>26, <2>1 DEF FindCase, Moves
  <2>3. TypeOK'
    BY <1>26, <2>2 DEF FindCase
  <2> QED BY <2>2, <2>3
<1>27. ASSUME NEW e \in Events, FindNone(e) PROVE TypeInv'
  <2>1. Moves(e)
    BY <1>27, FindNoneJob
  <2>2. job' \in [Events -> Job] /\ JobOK'
    BY <1>27, <2>1 DEF FindNone, Moves
  <2>3. TypeOK'
    BY <1>27, <2>2 DEF FindNone
  <2> QED BY <2>2, <2>3
<1>28. ASSUME NEW e \in Events, ClickFindsNone(e) PROVE TypeInv'
  BY <1>28 DEF ClickFindsNone
<1>29. ASSUME NEW e \in Events, FindRaises(e) PROVE TypeInv'
  BY <1>29 DEF FindRaises
<1>30. ASSUME NEW e \in Events, Create(e) PROVE TypeInv'
  <2>1. PICK c \in Cases : /\ cases' = [cases EXCEPT ![c] = "live"]
                            /\ Moves(e) /\ job'[e].case = c
    BY <1>30, CreateJob
  <2>2. job' \in [Events -> Job] /\ JobOK'
    BY <1>30, <2>1 DEF Create, Moves
  <2>3. cases' \in [Cases -> {"unborn", "live", "gone"}]
    BY <2>1
  <2>4. TypeOK'
    BY <1>30, <2>2, <2>3 DEF Create
  <2> QED BY <2>2, <2>4
<1>31. ASSUME NEW e \in Events, CreateFails(e) PROVE TypeInv'
  <2>1. cases' \in [Cases -> {"unborn", "live", "gone"}]
    BY <1>31 DEF CreateFails
  <2>2. TypeOK'
    BY <1>31, <2>1 DEF CreateFails
  <2>3. JobOK'
    BY <1>31 DEF CreateFails
  <2> QED BY <2>2, <2>3
<1>53. ASSUME NEW e \in Events, MapRaises(e) PROVE TypeInv'
  BY <1>53 DEF MapRaises
<1>32. ASSUME NEW e \in Events, MapThread(e) PROVE TypeInv'
  BY <1>32, PutRow DEF MapThread, Row
<1>33. ASSUME NEW e \in Events, SubmitCommits(e) PROVE TypeInv'
  BY <1>33 DEF SubmitCommits
<1>34. ASSUME NEW e \in Events, SubmitReplayLost(e) PROVE TypeInv'
  <2>1. job' = job \/ (Moves(e) /\ job'[e].case = job[e].case)
    BY <1>34, ReplayLostJob
  <2>2. job' \in [Events -> Job] /\ JobOK'
    BY <1>34, <2>1 DEF SubmitReplayLost, Moves
  <2>3. landed' \subseteq Cases
    BY <1>34 DEF SubmitReplayLost
  <2>8. outcome' \in [Events -> {"none", "refused", "unknown", "committed"}]
    BY <1>34 DEF SubmitReplayLost
  <2>9. screen' \subseteq Events
    BY <1>34 DEF SubmitReplayLost
  <2>4. pc' \in [Events -> {"idle", "done"} \union Waiting \union Gated]
    <3>1. pc' = [pc EXCEPT ![e] = "finish"] \/ pc' = [pc EXCEPT ![e] = "seed"]
      BY <1>34 DEF SubmitReplayLost
    <3> QED BY <3>1
  <2>7. placed' \in [Events -> {"none", "working", "settled", "refused", "killed"}]
    BY <1>34 DEF SubmitReplayLost
  <2>10. said' \in [Events -> {"none", "skip", "gone", "resend", "noresend",
                               "reply", "undelivered"}]
    BY <1>34 DEF SubmitReplayLost
  <2>5. UNCHANGED <<row, open, busy, probed, restarts, cases, owner, pointers, notices>>
    BY <1>34 DEF SubmitReplayLost
  <2>6. TypeOK'
    BY <2>2, <2>3, <2>4, <2>5, <2>7, <2>8, <2>9, <2>10
  <2> QED BY <2>2, <2>6
<1>35. ASSUME NEW e \in Events, SubmitRefused(e) PROVE TypeInv'
  BY <1>35 DEF SubmitRefused
<1>36. ASSUME NEW e \in Events, SubmitUnknown(e) PROVE TypeInv'
  BY <1>36 DEF SubmitUnknown
<1>37. ASSUME NEW e \in Events, SubmitEmptyRefused(e) PROVE TypeInv'
  <2>1. Moves(e) /\ job'[e].case = job[e].case
    BY <1>37, EmptyRefusedJob
  <2>2. job' \in [Events -> Job] /\ JobOK'
    BY <1>37, <2>1 DEF SubmitEmptyRefused, Moves
  <2>3. TypeOK'
    BY <1>37, <2>2 DEF SubmitEmptyRefused
  <2> QED BY <2>2, <2>3
<1>38. ASSUME NEW e \in Events, SubmitNotFound(e) PROVE TypeInv'
  BY <1>38 DEF SubmitNotFound
<1>39. ASSUME NEW e \in Events, UnlinkStaleCase(e) PROVE TypeInv'
  BY <1>39, TombstoneRow DEF UnlinkStaleCase, Row
<1>40. ASSUME NEW e \in Events, UnlinkRaises(e) PROVE TypeInv'
  BY <1>40 DEF UnlinkRaises
<1>41. ASSUME NEW e \in Events, Seed(e) PROVE TypeInv'
  BY <1>41, SeededRow DEF Seed, AfterSeed, Row
<1>55. ASSUME NEW e \in Events, Explain(e) PROVE TypeInv'
  BY <1>55 DEF Explain
<1>42. ASSUME NEW e \in Events, Announce(e) PROVE TypeInv'
  BY <1>42 DEF Announce
<1>56. ASSUME NEW e \in Events, ClearActions(e) PROVE TypeInv'
  BY <1>56, MarkedRow DEF ClearActions, Row
<1>43. ASSUME NEW e \in Events, AnnounceRaises(e) PROVE TypeInv'
  BY <1>43 DEF AnnounceRaises
<1>44. ASSUME NEW e \in Events, DeliverBlocks(e) PROVE TypeInv'
  <2>1. Moves(e) /\ job'[e].case = job[e].case
    BY <1>44, DeliverJob
  <2>2. job' \in [Events -> Job] /\ JobOK'
    BY <1>44, <2>1 DEF DeliverBlocks, Moves
  <2>3. TypeOK'
    BY <1>44, <2>2 DEF DeliverBlocks
  <2> QED BY <2>2, <2>3
<1>45. ASSUME NEW e \in Events, DeliverDegraded(e) PROVE TypeInv'
  <2>1. Moves(e) /\ job'[e].case = job[e].case
    BY <1>45, DeliverJob
  <2>2. job' \in [Events -> Job] /\ JobOK'
    BY <1>45, <2>1 DEF DeliverDegraded, Moves
  <2>3. TypeOK'
    BY <1>45, <2>2 DEF DeliverDegraded
  <2> QED BY <2>2, <2>3
<1>46. ASSUME NEW e \in Events, Record(e) PROVE TypeInv'
  <2>1. /\ job[e].ts \in Events \union {None}
        /\ (IF job[e].buttons THEN e ELSE None) \in Events \union {None}
    BY JobFields
  <2>2. row' \in Row
    BY <1>46, <2>1, MarkedRow DEF Record
  <2> QED BY <1>46, <2>2 DEF Record
<1>47. ASSUME NEW e \in Events, Finish(e) PROVE TypeInv'
  BY <1>47, NoJobFields DEF Finish
<1>48. ASSUME NEW c \in Cases, DeleteCase(c) PROVE TypeInv'
  BY <1>48 DEF DeleteCase
<1>49. ASSUME Shutdown PROVE TypeInv'
  BY <1>49 DEF Shutdown
<1>50. ASSUME NEW kept \in BOOLEAN, Restart(kept) PROVE TypeInv'
  <2>1. row' \in Row /\ job' \in [Events -> Job] /\ JobOK'
    BY <1>50, NoRowFields, NoJobFields DEF Restart
  <2>2. restarts' \in 0..MaxRestarts
    BY <1>50, ConfigAssumption DEF Restart
  <2> QED BY <1>50, <2>1, <2>2 DEF Restart
<1>51. CASE UNCHANGED vars
  BY <1>51 DEF vars
<1> QED
  BY <1>1, <1>2, <1>3, <1>4, <1>5, <1>6, <1>7, <1>8, <1>9, <1>10, <1>11, <1>12,
     <1>13, <1>14, <1>15, <1>16, <1>17, <1>18, <1>19, <1>20, <1>21, <1>22,
     <1>23, <1>24, <1>25, <1>26, <1>27, <1>28, <1>29, <1>30, <1>31, <1>32,
     <1>33, <1>34, <1>35, <1>36, <1>37, <1>38, <1>39, <1>40, <1>41, <1>42,
     <1>43, <1>44, <1>45, <1>46, <1>47, <1>48, <1>49, <1>50, <1>51, <1>52,
     <1>53, <1>54, <1>55, <1>56, <1>57
     DEF Next, Listener, Opening, Turn, Closing

THEOREM TypeCorrect == Spec => []TypeOK
<1>1. Spec => []TypeInv
  BY TypeInit, TypeNext, PTL DEF Spec
<1>2. TypeInv => TypeOK
  BY DEF TypeInv
<1> QED BY <1>1, <1>2, PTL

-----------------------------------------------------------------------------
(* The gate. *)

\* A step of e leaves every other interaction where it is.
Frame(e) == /\ pc' = [pc EXCEPT ![e] = pc'[e]]
            /\ \A f \in Events : f # e => job'[f] = job[f]

\* A step of a listener: it holds nothing before or after, and writes nothing
\* but its own locals, its skip notice and the buttons of a stale click.
Outside(e) ==
    /\ Frame(e)
    /\ ~Holds(e) /\ pc'[e] \notin Gated
    /\ UNCHANGED <<row, procVars, cases, landed, owner, pointers, placed, notices, outcome>>

\* The step that takes the gate.
Enters(e) ==
    /\ Frame(e)
    /\ ~busy /\ busy' = TRUE /\ pc[e] = "enter" /\ pc'[e] = "start"
    /\ UNCHANGED <<row, open, probed, restarts, job, backVars, slackVars, logVars>>

\* A step under the gate: it keeps it, or it is over and lets it go.
Inside(e) ==
    /\ Frame(e)
    /\ Holds(e)
    /\ UNCHANGED <<open, restarts>>
    /\ \/ pc'[e] \in Gated /\ busy' = busy
       \/ pc'[e] = "done" /\ busy' = FALSE

Locked(e) ==
    \/ StartWorker(e) \/ StartFails(e) \/ PostPlaceholder(e) \/ BeginClick(e)
    \/ BeginBox(e) \/ BeginAssistant(e) \/ TellMissing(e) \/ ForgetThread(e)
    \/ BeginFollowup(e)
    \/ ClaimNotice(e) \/ PostNotice(e) \/ RecoverLostCase(e) \/ MarkRecovered(e)
    \/ RecoverNothing(e) \/ OrphanRaises(e) \/ ReadThread(e) \/ ReadRaises(e) \/ Decline(e)
    \/ FindCase(e) \/ FindNone(e) \/ ClickFindsNone(e) \/ FindRaises(e) \/ Create(e)
    \/ CreateFails(e) \/ MapRaises(e) \/ MapThread(e) \/ SubmitCommits(e)
    \/ SubmitReplayLost(e)
    \/ SubmitRefused(e) \/ SubmitUnknown(e) \/ SubmitEmptyRefused(e)
    \/ SubmitNotFound(e) \/ UnlinkStaleCase(e) \/ UnlinkRaises(e) \/ Seed(e)
    \/ Explain(e) \/ Announce(e) \/ ClearActions(e) \/ AnnounceRaises(e)
    \/ DeliverBlocks(e) \/ DeliverDegraded(e) \/ Record(e) \/ Finish(e)

LEMMA OutsideSteps ==
    ASSUME TypeInv, NEW e \in Events
    PROVE  /\ \A k \in Kinds : Dispatch(e, k) => Outside(e)
           /\ SubmitBox(e) => Outside(e)
           /\ Listener(e) => Outside(e) \/ Enters(e) \/ StartWorker(e) \/ StartFails(e)
<1> USE DEF Outside, Frame, At, Goto, Say, Escape, Holds, Gated, Waiting,
            storeVars, procVars, backVars, slackVars, logVars
<1>0. job \in [Events -> Job] /\ pc \in [Events -> {"idle", "done"} \union Waiting \union Gated]
  BY DEF TypeInv, TypeOK
<1>1. ASSUME NEW k \in Kinds, Dispatch(e, k) PROVE Outside(e)
  BY <1>0, <1>1, DispatchJob DEF Dispatch
<1>2. ASSUME AcceptClick(e) PROVE Outside(e)
  BY <1>0, <1>2 DEF AcceptClick
<1>3. ASSUME RefuseStaleClick(e) PROVE Outside(e)
  BY <1>0, <1>3 DEF RefuseStaleClick
<1>4. ASSUME ListenShortcut(e) PROVE Outside(e)
  BY <1>0, <1>4, ListenJob DEF ListenShortcut, Moves
<1>5. ASSUME ListenFollowup(e) PROVE Outside(e)
  BY <1>0, <1>5 DEF ListenFollowup
<1>6. ASSUME WeighFollowup(e) PROVE Outside(e)
  BY <1>0, <1>6, ListenJob DEF WeighFollowup, Moves
<1>10. ASSUME RouteFollowup(e) PROVE Outside(e)
  BY <1>0, <1>10 DEF RouteFollowup
<1>7. ASSUME TurnedAway(e) PROVE Outside(e)
  BY <1>0, <1>7 DEF TurnedAway
<1>8. ASSUME SubmitBox(e) PROVE Outside(e)
  BY <1>0, <1>8 DEF SubmitBox
<1>9. ASSUME EnterGate(e) PROVE Enters(e)
  BY <1>0, <1>9 DEF EnterGate, Enters
<1> QED
  BY <1>1, <1>2, <1>3, <1>4, <1>5, <1>6, <1>7, <1>8, <1>9, <1>10 DEF Listener

LEMMA InsideSteps ==
    ASSUME TypeInv, NEW e \in Events, Locked(e)
    PROVE  Inside(e)
<1> USE DEF Inside, Frame, At, Goto, Say, Escape, Holds, Gated, Waiting, Fail,
            storeVars, procVars, backVars, slackVars, logVars
<1>0. job \in [Events -> Job] /\ pc \in [Events -> {"idle", "done"} \union Waiting \union Gated]
  BY DEF TypeInv, TypeOK
<1>1. ASSUME StartWorker(e) PROVE Inside(e)
  BY <1>0, <1>1 DEF StartWorker
<1>2. ASSUME StartFails(e) PROVE Inside(e)
  BY <1>0, <1>2 DEF StartFails
<1>3. ASSUME PostPlaceholder(e) PROVE Inside(e)
  BY <1>0, <1>3 DEF PostPlaceholder
<1>4. ASSUME BeginClick(e) PROVE Inside(e)
  BY <1>0, <1>4 DEF BeginClick
<1>5. ASSUME BeginBox(e) PROVE Inside(e)
  BY <1>0, <1>5 DEF BeginBox
<1>6. ASSUME TellMissing(e) PROVE Inside(e)
  BY <1>0, <1>6 DEF TellMissing
<1>41. ASSUME ForgetThread(e) PROVE Inside(e)
  BY <1>0, <1>41 DEF ForgetThread
<1>7. ASSUME BeginAssistant(e) PROVE Inside(e)
  BY <1>0, <1>7 DEF BeginAssistant
<1>8. ASSUME BeginFollowup(e) PROVE Inside(e)
  BY <1>0, <1>8 DEF BeginFollowup
<1>9. ASSUME ClaimNotice(e) PROVE Inside(e)
  BY <1>0, <1>9 DEF ClaimNotice
<1>10. ASSUME PostNotice(e) PROVE Inside(e)
  BY <1>0, <1>10 DEF PostNotice
<1>11. ASSUME RecoverLostCase(e) PROVE Inside(e)
  BY <1>0, <1>11 DEF RecoverLostCase, NoRowYet
<1>39. ASSUME MarkRecovered(e) PROVE Inside(e)
  BY <1>0, <1>39 DEF MarkRecovered
<1>12. ASSUME RecoverNothing(e) PROVE Inside(e)
  BY <1>0, <1>12 DEF RecoverNothing, NoRowYet
<1>13. ASSUME OrphanRaises(e) PROVE Inside(e)
  BY <1>0, <1>13 DEF OrphanRaises
<1>14. ASSUME ReadThread(e) PROVE Inside(e)
  BY <1>0, <1>14, ReadThreadJob DEF ReadThread, Moves
<1>15. ASSUME ReadRaises(e) PROVE Inside(e)
  BY <1>0, <1>15 DEF ReadRaises
<1>16. ASSUME Decline(e) PROVE Inside(e)
  BY <1>0, <1>16 DEF Decline
<1>17. ASSUME FindCase(e) PROVE Inside(e)
  BY <1>0, <1>17, FindCaseJob DEF FindCase, Moves
<1>18. ASSUME FindNone(e) PROVE Inside(e)
  BY <1>0, <1>18, FindNoneJob DEF FindNone, Moves
<1>19. ASSUME ClickFindsNone(e) PROVE Inside(e)
  BY <1>0, <1>19 DEF ClickFindsNone
<1>20. ASSUME FindRaises(e) PROVE Inside(e)
  BY <1>0, <1>20 DEF FindRaises
<1>21. ASSUME Create(e) PROVE Inside(e)
  BY <1>0, <1>21, CreateJob DEF Create, Moves
<1>22. ASSUME CreateFails(e) PROVE Inside(e)
  BY <1>0, <1>22 DEF CreateFails
<1>40. ASSUME MapRaises(e) PROVE Inside(e)
  BY <1>0, <1>40 DEF MapRaises
<1>23. ASSUME MapThread(e) PROVE Inside(e)
  BY <1>0, <1>23 DEF MapThread
<1>24. ASSUME SubmitCommits(e) PROVE Inside(e)
  BY <1>0, <1>24 DEF SubmitCommits
<1>25. ASSUME SubmitReplayLost(e) PROVE Inside(e)
  BY <1>0, <1>25, ReplayLostJob DEF SubmitReplayLost, Moves
<1>26. ASSUME SubmitRefused(e) PROVE Inside(e)
  BY <1>0, <1>26 DEF SubmitRefused
<1>27. ASSUME SubmitUnknown(e) PROVE Inside(e)
  BY <1>0, <1>27 DEF SubmitUnknown
<1>28. ASSUME SubmitEmptyRefused(e) PROVE Inside(e)
  BY <1>0, <1>28, EmptyRefusedJob DEF SubmitEmptyRefused, Moves
<1>29. ASSUME SubmitNotFound(e) PROVE Inside(e)
  BY <1>0, <1>29 DEF SubmitNotFound
<1>30. ASSUME UnlinkStaleCase(e) PROVE Inside(e)
  BY <1>0, <1>30 DEF UnlinkStaleCase
<1>31. ASSUME UnlinkRaises(e) PROVE Inside(e)
  BY <1>0, <1>31 DEF UnlinkRaises
<1>32. ASSUME Seed(e) PROVE Inside(e)
  BY <1>0, <1>32 DEF Seed, AfterSeed
<1>42. ASSUME Explain(e) PROVE Inside(e)
  BY <1>0, <1>42 DEF Explain
<1>43. ASSUME ClearActions(e) PROVE Inside(e)
  BY <1>0, <1>43 DEF ClearActions
<1>33. ASSUME Announce(e) PROVE Inside(e)
  BY <1>0, <1>33 DEF Announce
<1>34. ASSUME AnnounceRaises(e) PROVE Inside(e)
  BY <1>0, <1>34 DEF AnnounceRaises
<1>35. ASSUME DeliverBlocks(e) PROVE Inside(e)
  BY <1>0, <1>35, DeliverJob DEF DeliverBlocks, Moves
<1>36. ASSUME DeliverDegraded(e) PROVE Inside(e)
  BY <1>0, <1>36, DeliverJob DEF DeliverDegraded, Moves
<1>37. ASSUME Record(e) PROVE Inside(e)
  BY <1>0, <1>37 DEF Record
<1>38. ASSUME Finish(e) PROVE Inside(e)
  BY <1>0, <1>38 DEF Finish
<1> QED
  BY <1>1, <1>2, <1>3, <1>4, <1>5, <1>6, <1>7, <1>8, <1>9, <1>10, <1>11, <1>12,
     <1>13, <1>14, <1>15, <1>16, <1>17, <1>18, <1>19, <1>20, <1>21, <1>22, <1>23,
     <1>24, <1>25, <1>26, <1>27, <1>28, <1>29, <1>30, <1>31, <1>32, <1>33, <1>34,
     <1>35, <1>36, <1>37, <1>38, <1>39, <1>40, <1>41, <1>42, <1>43 DEF Locked

\* Every step is one of these, or the environment's.
LEMMA StepCases ==
    ASSUME TypeInv, [Next]_vars
    PROVE  \/ \E e \in Events : Outside(e) \/ Enters(e) \/ (Locked(e) /\ Inside(e))
           \/ \E c \in Cases : DeleteCase(c)
           \/ Shutdown
           \/ \E kept \in BOOLEAN : Restart(kept)
           \/ UNCHANGED vars
<1>1. ASSUME NEW e \in Events, Listener(e)
      PROVE  Outside(e) \/ Enters(e) \/ (Locked(e) /\ Inside(e))
  <2>1. CASE StartWorker(e) \/ StartFails(e)
    BY <2>1, InsideSteps DEF Locked
  <2> QED BY <1>1, <2>1, OutsideSteps
<1>2. ASSUME NEW e \in Events, Opening(e) \/ Turn(e) \/ Closing(e)
      PROVE  Locked(e) /\ Inside(e)
  <2>1. Locked(e)
    BY <1>2 DEF Opening, Turn, Closing, Locked
  <2> QED BY <2>1, InsideSteps
<1> QED BY <1>1, <1>2, OutsideSteps DEF Next

LEMMA GateInit == Init => OneTurnPerThread
  BY DEF Init, OneTurnPerThread, Holds, Gated

LEMMA GateNext == TypeInv /\ OneTurnPerThread /\ [Next]_vars => OneTurnPerThread'
<1> SUFFICES ASSUME TypeInv, OneTurnPerThread, [Next]_vars PROVE OneTurnPerThread'
  OBVIOUS
<1> USE DEF OneTurnPerThread, Holds
<1>0. pc \in [Events -> {"idle", "done"} \union Waiting \union Gated] /\ busy \in BOOLEAN
  BY DEF TypeInv, TypeOK
<1>a. "start" \in Gated /\ "enter" \notin Gated /\ "done" \notin Gated /\ "idle" \notin Gated
      /\ "modal" \notin Gated
  BY DEF Gated
<1>1. ASSUME NEW e \in Events, Outside(e) PROVE OneTurnPerThread'
  BY <1>0, <1>1 DEF Outside, Frame, procVars
<1>2. ASSUME NEW e \in Events, Enters(e) PROVE OneTurnPerThread'
  BY <1>0, <1>a, <1>2 DEF Enters, Frame
<1>3. ASSUME NEW e \in Events, Inside(e) PROVE OneTurnPerThread'
  BY <1>0, <1>a, <1>3 DEF Inside, Frame
<1>4. CASE (\E c \in Cases : DeleteCase(c)) \/ Shutdown \/ UNCHANGED vars
  BY <1>4 DEF DeleteCase, Shutdown, vars, procVars
<1>5. ASSUME NEW kept \in BOOLEAN, Restart(kept) PROVE OneTurnPerThread'
  BY <1>0, <1>a, <1>5 DEF Restart
<1> QED BY <1>1, <1>2, <1>3, <1>4, <1>5, StepCases

\* Drop-if-busy, for every number of interactions: the gate is held exactly while
\* one interaction owns the thread, and never by two.
THEOREM GateHolds == Spec => []OneTurnPerThread
<1>1. TypeInv /\ OneTurnPerThread /\ [Next]_vars => (TypeInv /\ OneTurnPerThread)'
  BY TypeNext, GateNext
<1>2. Init => TypeInv /\ OneTurnPerThread
  BY TypeInit, GateInit
<1> QED BY <1>1, <1>2, PTL DEF Spec
=============================================================================
