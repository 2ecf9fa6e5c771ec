------------------------------ MODULE CaseStore ------------------------------
(***************************************************************************)
(* store.py: the thread->case map, one row of thread_cases.  Every method  *)
(* runs under CaseStore._lock, so each is one operator on the row.         *)
(*                                                                         *)
(* A Slack ts is named by the interaction whose reply it identifies, so    *)
(* the two turn markers range over Events.                                 *)
(***************************************************************************)
CONSTANTS
    Cases,      \* case ids the backend can hand out
    Events,     \* Slack interactions on the thread; also names their replies
    None        \* SQL NULL, and Python's None

ASSUME NoneAssumption == None \notin Cases /\ None \notin Events

NoRow == [present |-> FALSE, case |-> None, seeded |-> FALSE,
          unlinked |-> FALSE, notified |-> FALSE, restart |-> FALSE,
          turnTs |-> None, actionTs |-> None]

\* The columns; case_id is NOT NULL.
Stored == [present  : {TRUE},
           case     : Cases,
           seeded   : BOOLEAN,
           unlinked : BOOLEAN,              \* the tombstone
           notified : BOOLEAN,              \* unlink_notified
           restart  : BOOLEAN,              \* restart_pending
           turnTs   : Events \union {None}, \* last_turn_ts
           actionTs : Events \union {None}] \* last_action_ts

Row == Stored \union {NoRow}

-----------------------------------------------------------------------------
(* Reads.  Those that filter on unlinked=0 see a tombstone as no row. *)

Linked(r) == r.present /\ ~r.unlinked

get(r) == IF Linked(r) THEN r.case ELSE None

is_seeded_any_row(r) == r.present /\ r.seeded   \* the filter forgotten (mutant)
is_seeded(r) == Linked(r) /\ r.seeded

get_last_turn_ts(r) == IF Linked(r) THEN r.turnTs ELSE None

get_last_action_ts(r) == IF Linked(r) THEN r.actionTs ELSE None

is_unlinked(r) == r.present /\ r.unlinked

restart_pending(r) == r.present /\ r.restart

-----------------------------------------------------------------------------
(* Writes.  Only put creates a row; every other write is an UPDATE. *)

Update(r, new) == IF r.present THEN new ELSE r

\* INSERT OR REPLACE instead of the upsert (mutant): resets the unnamed columns.
put_replacing(r, c) == [NoRow EXCEPT !.present = TRUE, !.case = c]
put(r, c) == [r EXCEPT !.present = TRUE, !.case = c, !.seeded = FALSE,
                       !.unlinked = FALSE, !.notified = FALSE]

mark_seeded(r) == Update(r, [r EXCEPT !.seeded = TRUE, !.restart = FALSE])

record_turn(r, turn, action) ==
    Update(r, [r EXCEPT !.turnTs = IF turn = None THEN @ ELSE turn,
                        !.actionTs = action])

clear_last_action_ts(r) == Update(r, [r EXCEPT !.actionTs = None])

mark_unlinked(r) ==
    Update(r, [r EXCEPT !.unlinked = TRUE, !.notified = FALSE,
                        !.restart = TRUE, !.actionTs = None])

\* The conditional UPDATE: its rowcount is the claim.
notice_claimable(r) == is_unlinked(r) /\ ~r.notified
claim_unlink_notice(r) == IF notice_claimable(r) THEN [r EXCEPT !.notified = TRUE] ELSE r

release_nothing(r) == r                          \* the release forgotten (mutant)
release_unlink_notice(r) == IF is_unlinked(r) THEN [r EXCEPT !.notified = FALSE] ELSE r
=============================================================================
