----------------------------- MODULE ThreadTurns -----------------------------
(***************************************************************************)
(* One Slack thread of the agent: every interaction Slack delivers for it, *)
(* from the Bolt listener that receives it (events.py, actions.py,         *)
(* assistant.py, shortcuts.py) through the per-thread gate and the worker  *)
(* that runs one turn (_turn.py), against the thread's row (CaseStore) and *)
(* the backend's cases.                                                    *)
(*                                                                         *)
(* A step is what runs between two points where another actor can get in:  *)
(* a store call, a Slack call, a backend call, the gate.  Listener steps   *)
(* of different interactions interleave freely; only the gate orders       *)
(* workers.                                                                *)
(***************************************************************************)
EXTENDS CaseStore, Naturals, Sequences

CONSTANTS
    Kinds,          \* the surfaces in play: a subset of AllKinds
    MaxRestarts,    \* bound: crashes, or supervised restarts, of the process
    ShutsDown       \* does the process shut down in order, closing the store?

Posted    == {"mention", "dm", "shortcut"}    \* placeholder first, then the reads
Clicked   == {"click", "box"}                 \* come from a button of some reply
AllKinds  == Posted \union Clicked \union {"followup", "assistant"}

ASSUME ConfigAssumption ==
    /\ Kinds \subseteq AllKinds
    /\ MaxRestarts \in Nat
    /\ ShutsDown \in BOOLEAN

VARIABLES
    row,        \* the thread's row of thread_cases
    open,       \* the store's connection is open
    busy,       \* the thread's key is in _gate._busy
    probed,     \* probed_threads holds the thread
    restarts,   \* restarts so far (bounded)
    pc, job,    \* where each interaction is, and its handler's locals
    cases,      \* backend: "unborn", "live" or "gone"
    landed,     \* backend: cases holding at least one committed turn
    screen,     \* Slack: replies whose choice buttons are showing
    owner,      \* Slack: the case each reply with buttons was rendered from
    pointers,   \* Slack: case pointers in the thread, oldest first
    placed,     \* Slack: each interaction's "Working..." placeholder
    notices,    \* Slack: "case not found" told to later messages, since the tombstone
    outcome,    \* what became of each interaction's turn at the backend
    said        \* what the thread was told about it

storeVars == <<row>>
procVars  == <<open, busy, probed, restarts>>
backVars  == <<cases, landed>>
slackVars == <<screen, owner, pointers, placed, notices>>
logVars   == <<outcome, said>>
vars == <<storeVars, procVars, pc, job, backVars, slackVars, logVars>>

\* The steps of a handler before the gate, and of a worker holding it.
Waiting == {"listen", "route", "weigh", "modal", "enter"}
Gated   == {"start", "begin", "tell", "forget", "notice", "mark", "read", "place", "find",
            "create", "map", "submit", "unlink", "seed", "explain", "announce", "clear",
            "deliver", "record", "finish"}

Job == [kind      : AllKinds \union {"none"},
        msg       : Events \union {None},   \* the reply whose button was clicked
        case      : Cases \union {None},    \* case_id
        orphan    : BOOLEAN,                \* the follow-up's orphan_work
        tried     : BOOLEAN,                \* asked for prior_context
        restarted : BOOLEAN,
        empty     : BOOLEAN,                \* text == "", with a fallback
        first     : BOOLEAN,                \* first_turn
        replied   : BOOLEAN,                \* the reply's blocks went out
        note      : BOOLEAN,                \* ... with the restart explanation
        lost      : BOOLEAN,                \* IdempotencyReplayUnavailableError
        ts        : Events \union {None},   \* the message the turn landed on
        buttons   : BOOLEAN]                \* ... and whether it has choices

NoJob == [kind |-> "none", msg |-> None, case |-> None, orphan |-> FALSE,
          tried |-> FALSE, restarted |-> FALSE, empty |-> FALSE, first |-> FALSE,
          replied |-> FALSE, note |-> FALSE, lost |-> FALSE, ts |-> None,
          buttons |-> FALSE]

TypeOK ==
    /\ row \in Row
    /\ open \in BOOLEAN /\ busy \in BOOLEAN /\ probed \in BOOLEAN
    /\ restarts \in 0..MaxRestarts
    /\ pc \in [Events -> {"idle", "done"} \union Waiting \union Gated]
    /\ job \in [Events -> Job]
    /\ cases \in [Cases -> {"unborn", "live", "gone"}]
    /\ landed \subseteq Cases
    /\ screen \subseteq Events
    /\ owner \in [Events -> Cases \union {None}]
    /\ pointers \in Seq(Cases)
    /\ placed \in [Events -> {"none", "working", "settled", "refused", "killed"}]
    /\ notices \in Nat
    /\ outcome \in [Events -> {"none", "refused", "unknown", "committed"}]
    /\ said \in [Events -> {"none", "skip", "gone", "resend", "noresend",
                            "reply", "undelivered"}]

Init ==
    /\ row = NoRow
    /\ open = TRUE /\ busy = FALSE /\ probed = FALSE /\ restarts = 0
    /\ pc = [e \in Events |-> "idle"] /\ job = [e \in Events |-> NoJob]
    /\ cases = [c \in Cases |-> "unborn"] /\ landed = {}
    /\ screen = {} /\ owner = [e \in Events |-> None] /\ pointers = <<>>
    /\ placed = [e \in Events |-> "none"] /\ notices = 0
    /\ outcome = [e \in Events |-> "none"] /\ said = [e \in Events |-> "none"]

-----------------------------------------------------------------------------
(* Helpers. *)

At(e, p)  == pc[e] = p
Goto(e, p) == pc' = [pc EXCEPT ![e] = p]
Kind(e)   == job[e].kind
Holds(e)  == pc[e] \in Gated          \* e reserved the thread and has not released it
Say(e, what) == said' = [said EXCEPT ![e] = what]

\* chat_update of the placeholder, if there is one: Slack takes it or refuses it.
Settle(e) ==
    \E s \in {"settled", "refused"} :
        placed' = IF placed[e] = "working" THEN [placed EXCEPT ![e] = s] ELSE placed

\* A rewrite of the clicked message that Slack may refuse (always guarded).
Rewrite(e, shown) == screen' \in {screen, IF Kind(e) = "click" THEN shown ELSE screen}

\* The failure path of a turn: the error text, and for a click the buttons,
\* back only where the text invites a re-send (retry_may_help).
FailRestoring(e, advice) ==                       \* retry_may_help ignored (mutant)
    /\ Goto(e, "finish")
    /\ Say(e, advice)
    /\ Settle(e)
    /\ Rewrite(e, screen \union {job[e].msg})
    /\ UNCHANGED <<owner, pointers, notices>>
Fail(e, advice) ==
    /\ Goto(e, "finish")
    /\ Say(e, advice)
    /\ Settle(e)
    /\ Rewrite(e, IF advice = "resend" THEN screen \union {job[e].msg}
                                       ELSE screen \ {job[e].msg})
    /\ UNCHANGED <<owner, pointers, notices>>

\* An exception that reaches the runner's last line of defense, or Bolt: logged.
Escape(e, p) == Goto(e, p) /\ UNCHANGED <<job, slackVars, logVars>>

-----------------------------------------------------------------------------
(* Bolt listeners, before the gate. *)

\* Slack delivers an interaction.  A click or a data-box click is on a reply
\* that was posted with buttons, whether or not they still show.
Dispatch(e, k) ==
    /\ At(e, "idle") /\ open
    /\ \E m \in IF k \in Clicked THEN {x \in Events : owner[x] # None} ELSE {None} :
           job' = [job EXCEPT ![e] = [@ EXCEPT !.kind = k, !.msg = m]]
    /\ Goto(e, IF k \in {"mention", "dm", "assistant"} THEN "enter" ELSE "listen")
    /\ UNCHANGED <<storeVars, procVars, backVars, slackVars, logVars>>

\* _refuse_stale_click: a failed read acts on the click, as before the guard.
CurrentTurn == IF open THEN get_last_turn_ts(row) ELSE None

AcceptAnyClick(e) ==                              \* the guard dropped (mutant)
    /\ At(e, "listen") /\ Kind(e) \in Clicked
    /\ Goto(e, IF Kind(e) = "click" THEN "enter" ELSE "modal")
    /\ UNCHANGED <<job, storeVars, procVars, backVars, slackVars, logVars>>
AcceptClick(e) ==
    /\ CurrentTurn \in {None, job[e].msg}
    /\ At(e, "listen") /\ Kind(e) \in Clicked
    /\ Goto(e, IF Kind(e) = "click" THEN "enter" ELSE "modal")
    /\ UNCHANGED <<job, storeVars, procVars, backVars, slackVars, logVars>>

RefuseStaleClick(e) ==
    /\ At(e, "listen") /\ Kind(e) \in Clicked
    /\ CurrentTurn \notin {None, job[e].msg}
    /\ Goto(e, "done")
    /\ screen' \in {screen, screen \ {job[e].msg}}
    /\ UNCHANGED <<job, storeVars, procVars, backVars, owner, pointers, placed,
                   notices, logVars>>

\* The user submits the data box, which stays open until the submission is taken.
SubmitBox(e) ==
    /\ At(e, "modal") /\ open
    /\ Goto(e, "enter")
    /\ UNCHANGED <<job, storeVars, procVars, backVars, slackVars, logVars>>

\* The shortcut reads restart_pending before it reserves the thread.
ListenShortcut(e) ==
    /\ At(e, "listen") /\ Kind(e) = "shortcut"
    /\ UNCHANGED <<storeVars, procVars, backVars, slackVars, logVars>>
    /\ \/ /\ open
          /\ job' = [job EXCEPT ![e].restarted = restart_pending(row)]
          /\ Goto(e, "enter")
       \/ ~open /\ Goto(e, "done") /\ UNCHANGED job

\* A thread reply: ordinary if the thread is mapped, else decided by the two steps after it.
ListenFollowup(e) ==
    /\ At(e, "listen") /\ Kind(e) = "followup"
    /\ Escape(e, IF ~open THEN "done"
                 ELSE IF get(row) = None THEN "route" ELSE "enter")
    /\ UNCHANGED <<storeVars, procVars, backVars>>

\* No mapping a moment ago: a busy thread is opening its case, so the reply is
\* marked skipped.
RouteFollowup(e) ==
    /\ At(e, "route")
    /\ \/ busy /\ Goto(e, "done") /\ Say(e, "skip")
       \/ ~busy /\ Goto(e, "weigh") /\ UNCHANGED said
    /\ UNCHANGED <<storeVars, procVars, job, backVars, slackVars, outcome>>

\* A thread known to be someone else's is left alone.
WeighFollowup(e) ==
    /\ At(e, "weigh")
    /\ UNCHANGED <<storeVars, procVars, backVars, slackVars, logVars>>
    /\ \/ /\ ~open \/ (~is_unlinked(row) /\ probed)
          /\ Goto(e, "done") /\ UNCHANGED job
       \/ /\ open
          /\ is_unlinked(row) \/ ~probed
          /\ job' = [job EXCEPT ![e].orphan = TRUE]
          /\ Goto(e, "enter")

-----------------------------------------------------------------------------
(* The gate: try_begin_turn, offload_turn, end_turn. *)

EnterAnyway(e) ==                                 \* no drop-if-busy (mutant)
    /\ At(e, "enter")
    /\ busy' = TRUE
    /\ Goto(e, "start")
    /\ UNCHANGED <<storeVars, open, probed, restarts, job, backVars,
                   slackVars, logVars>>
EnterGate(e) ==
    /\ At(e, "enter") /\ ~busy
    /\ busy' = TRUE
    /\ Goto(e, "start")
    /\ UNCHANGED <<storeVars, open, probed, restarts, job, backVars,
                   slackVars, logVars>>

\* Busy: messages are marked skipped, a click or shortcut is told, a data box
\* stays open with its text; an orphan reply is passed no skip_ts.
TurnedAway(e) ==
    /\ At(e, "enter") /\ busy
    /\ Goto(e, IF Kind(e) = "box" THEN "modal" ELSE "done")
    /\ IF Kind(e) = "box" \/ job[e].orphan THEN UNCHANGED said ELSE Say(e, "skip")
    /\ UNCHANGED <<storeVars, procVars, job, backVars, slackVars, outcome>>

StartWorker(e) ==
    /\ At(e, "start")
    /\ Escape(e, "begin")
    /\ UNCHANGED <<storeVars, procVars, backVars>>

\* thread.start() can fail: the reservation is undone on the spot.
StartFailsHeld(e) ==                              \* the undo forgotten (mutant)
    /\ At(e, "start")
    /\ Goto(e, "done") /\ job' = [job EXCEPT ![e] = NoJob]
    /\ UNCHANGED <<storeVars, procVars, backVars, slackVars, logVars>>
StartFails(e) ==
    /\ At(e, "start")
    /\ busy' = FALSE
    /\ Goto(e, "done") /\ job' = [job EXCEPT ![e] = NoJob]
    /\ UNCHANGED <<storeVars, open, probed, restarts, backVars,
                   slackVars, logVars>>

\* The runner's finally: release the thread.
Finish(e) ==
    /\ At(e, "finish")
    /\ busy' = FALSE
    /\ Goto(e, "done") /\ job' = [job EXCEPT ![e] = NoJob]
    /\ UNCHANGED <<storeVars, open, probed, restarts, backVars, slackVars, logVars>>

-----------------------------------------------------------------------------
(* The worker, up to the turn: what each surface does first. *)

\* post_placeholder, or nothing posted and nothing run.
PostPlaceholder(e) ==
    /\ \/ At(e, "begin") /\ Kind(e) \in Posted
       \/ At(e, "place")
    /\ UNCHANGED <<storeVars, procVars, job, backVars, screen, owner, pointers, notices,
                   logVars>>
    /\ \/ /\ placed' = [placed EXCEPT ![e] = "working"]
          /\ Goto(e, IF At(e, "begin") THEN "read" ELSE "find")
       \/ Goto(e, "finish") /\ UNCHANGED placed

\* _show_working: the buttons come down before the turn runs.
BeginClick(e) ==
    /\ At(e, "begin") /\ Kind(e) = "click"
    /\ Goto(e, "find")
    /\ Rewrite(e, screen \ {job[e].msg})
    /\ UNCHANGED <<storeVars, procVars, job, backVars, owner, pointers, placed, notices,
                   logVars>>

\* The data was for the case the thread had: with none mapped, say so.
BeginBox(e) ==
    /\ At(e, "begin") /\ Kind(e) = "box"
    /\ IF open /\ get(row) # None
       THEN Goto(e, "place") /\ UNCHANGED said
       ELSE Goto(e, "finish") /\ Say(e, IF open THEN "gone" ELSE "resend")
    /\ UNCHANGED <<storeVars, procVars, job, backVars, slackVars, outcome>>

\* The panel's turn_work: a 1:1 thread whose case went missing is told so, and
\* forgotten once told; a thread that is not runs its turn.
BeginAssistant(e) ==
    /\ At(e, "begin") /\ Kind(e) = "assistant"
    /\ Escape(e, IF ~open THEN "finish" ELSE IF is_unlinked(row) THEN "tell" ELSE "read")
    /\ UNCHANGED <<storeVars, procVars, backVars>>

\* The guarded post: refused, the telling is still owed.
TellMissing(e) ==
    /\ At(e, "tell")
    /\ UNCHANGED <<storeVars, procVars, job, backVars, screen, owner, pointers, placed,
                   outcome>>
    /\ \/ notices' = notices + 1 /\ Say(e, "gone") /\ Goto(e, "forget")
       \/ Goto(e, "finish") /\ UNCHANGED <<notices, said>>

\* forget, a step of its own: a crash or the store closing falls in between.
KeepThread(e) ==                                  \* forget dropped (mutant)
    /\ At(e, "forget")
    /\ Escape(e, "finish")
    /\ UNCHANGED <<storeVars, procVars, backVars>>
ForgetThread(e) ==
    /\ At(e, "forget")
    /\ row' = IF open THEN NoRow ELSE row
    /\ Escape(e, "finish")
    /\ UNCHANGED <<procVars, backVars>>

\* A reply to a mapped thread goes straight to work().
BeginFollowup(e) ==
    /\ At(e, "begin") /\ Kind(e) = "followup"
    /\ ~job[e].orphan \/ (open /\ get(row) # None)
    /\ Escape(e, "read")
    /\ UNCHANGED <<storeVars, procVars, backVars>>

\* orphan_work on a tombstone: one notice, by the row's conditional UPDATE.
ClaimUnconditionally(e) ==                        \* the rowcount ignored (mutant)
    /\ At(e, "begin") /\ job[e].orphan
    /\ open /\ is_unlinked(row)
    /\ row' = claim_unlink_notice(row)
    /\ Escape(e, "notice")
    /\ UNCHANGED <<procVars, backVars>>
ClaimNotice(e) ==
    /\ At(e, "begin") /\ job[e].orphan
    /\ open /\ is_unlinked(row)
    /\ row' = claim_unlink_notice(row)
    /\ Escape(e, IF notice_claimable(row) THEN "notice" ELSE "finish")
    /\ UNCHANGED <<procVars, backVars>>

PostNotice(e) ==
    /\ At(e, "notice")
    /\ Goto(e, "finish")
    /\ \/ notices' = notices + 1 /\ Say(e, "gone") /\ UNCHANGED row
       \/ /\ row' = IF open THEN release_unlink_notice(row) ELSE row
          /\ UNCHANGED <<notices, said>>
    /\ UNCHANGED <<procVars, job, backVars, screen, owner, pointers, placed, outcome>>

\* recover_lost_case on a thread with no row: the first pointer the app posted.
NoRowYet(e) == /\ At(e, "begin") /\ job[e].orphan
               /\ open /\ get(row) = None /\ ~is_unlinked(row)

RecoverLostCase(e) ==
    /\ NoRowYet(e) /\ ~probed /\ pointers # <<>>
    /\ row' = put(row, Head(pointers))
    /\ Escape(e, "mark")
    /\ UNCHANGED <<procVars, backVars>>

\* The case demonstrably has turns behind it: seeded, and the reply is answered.
MarkRecovered(e) ==
    /\ At(e, "mark") /\ open
    /\ row' = mark_seeded(row)
    /\ Escape(e, "read")
    /\ UNCHANGED <<procVars, backVars>>

\* ... or there is none, which is remembered; or the read failed, which is not.
RecoverNothing(e) ==
    /\ NoRowYet(e)
    /\ probed' \in IF pointers = <<>> THEN {probed, TRUE} ELSE {probed}
    /\ Escape(e, "finish")
    /\ UNCHANGED <<storeVars, open, busy, restarts, backVars>>

OrphanRaises(e) ==
    /\ (At(e, "begin") /\ job[e].orphan) \/ At(e, "mark")
    /\ ~open
    /\ Escape(e, "finish")
    /\ UNCHANGED <<storeVars, procVars, backVars>>

\* is_seeded and restart_pending, read once; the catch-up goes with an unseeded
\* turn, and a bare mention on a seeded thread is an empty turn.
ReadThread(e) ==
    /\ At(e, "read")
    /\ open \/ Kind(e) \notin {"mention", "followup"}
    /\ \E bare \in {FALSE} \union {Kind(e) = "mention" /\ is_seeded(row)} :
           job' = [job EXCEPT ![e] = [@ EXCEPT
               !.tried = Kind(e) \in {"mention", "followup"} /\ ~is_seeded(row),
               !.restarted = IF Kind(e) = "mention" THEN restart_pending(row) ELSE job[e].restarted,
               !.empty = bare]]
    /\ Goto(e, IF Kind(e) = "followup" THEN "place" ELSE "find")
    /\ UNCHANGED <<storeVars, procVars, backVars, slackVars, logVars>>

ReadRaises(e) ==
    /\ At(e, "read") /\ ~open /\ Kind(e) \in {"mention", "followup"}
    /\ Escape(e, "finish")
    /\ UNCHANGED <<storeVars, procVars, backVars>>

\* Files attached, none readable, no text: the surface says so and runs no turn.
DeclineSilently(e) ==                             \* the update forgotten (mutant)
    /\ At(e, "read") /\ open
    /\ Escape(e, "finish")
    /\ UNCHANGED <<storeVars, procVars, backVars>>
Decline(e) ==
    /\ At(e, "read") /\ (open \/ Kind(e) # "mention")
    /\ Goto(e, "finish")
    /\ Settle(e)
    /\ UNCHANGED <<storeVars, procVars, job, backVars, screen, owner, pointers, notices,
                   logVars>>

-----------------------------------------------------------------------------
(* run_turn: find or create the case, submit, record what the answer means. *)

FindCase(e) ==
    /\ At(e, "find") /\ open /\ get(row) # None
    /\ job' = [job EXCEPT ![e].case = get(row)]
    /\ Goto(e, "submit")
    /\ UNCHANGED <<storeVars, procVars, backVars, slackVars, logVars>>

FindNone(e) ==
    /\ At(e, "find") /\ open /\ get(row) = None /\ Kind(e) # "click"
    /\ job' = [job EXCEPT ![e].first = TRUE]
    /\ Goto(e, "create")
    /\ UNCHANGED <<storeVars, procVars, backVars, slackVars, logVars>>

\* A click never opens a case: its decision belonged to one that is not there.
ClickFindsNone(e) ==
    /\ At(e, "find") /\ open /\ get(row) = None /\ Kind(e) = "click"
    /\ Fail(e, "gone")
    /\ UNCHANGED <<storeVars, procVars, job, backVars, outcome>>

FindRaises(e) ==
    /\ At(e, "find") /\ ~open
    /\ Fail(e, "resend")
    /\ UNCHANGED <<storeVars, procVars, job, backVars, outcome>>

CreateUnread(e) ==                                \* the new id dropped (mutant)
    /\ At(e, "create")
    /\ \E c \in Cases : /\ cases[c] = "unborn"
                        /\ cases' = [cases EXCEPT ![c] = "live"]
    /\ Escape(e, "map")
    /\ UNCHANGED <<storeVars, procVars, landed>>
Create(e) ==
    /\ At(e, "create")
    /\ \E c \in Cases : /\ cases[c] = "unborn"
                        /\ cases' = [cases EXCEPT ![c] = "live"]
                        /\ job' = [job EXCEPT ![e].case = c]
    /\ Goto(e, "map")
    /\ UNCHANGED <<storeVars, procVars, landed, slackVars, logVars>>

\* create_case failed; a case may exist all the same, that nothing links.
CreateFails(e) ==
    /\ At(e, "create")
    /\ \E advice \in {"resend", "noresend"} : Fail(e, advice)
    /\ cases' \in {cases} \union
           {[cases EXCEPT ![c] = "live"] : c \in {x \in Cases : cases[x] = "unborn"}}
    /\ UNCHANGED <<storeVars, procVars, job, landed, outcome>>

MapRaises(e) ==
    /\ At(e, "map") /\ ~open
    /\ Fail(e, "resend")
    /\ UNCHANGED <<storeVars, procVars, job, backVars, outcome>>

MapSeeded(e) ==                                   \* seeded when mapped (mutant)
    /\ At(e, "map") /\ open
    /\ row' = mark_seeded(put(row, job[e].case))
    /\ Escape(e, "submit")
    /\ UNCHANGED <<procVars, backVars>>
MapThread(e) ==
    /\ At(e, "map") /\ open
    /\ row' = put(row, job[e].case)
    /\ Escape(e, "submit")
    /\ UNCHANGED <<procVars, backVars>>

Commits(e) == /\ cases[job[e].case] = "live"
              /\ landed' = landed \union {job[e].case}
              /\ outcome' = [outcome EXCEPT ![e] = "committed"]

\* The turn ran and its answer came back.
SubmitCommits(e) ==
    /\ At(e, "submit") /\ Commits(e)
    /\ Goto(e, IF Kind(e) = "click" THEN "deliver" ELSE "seed")
    /\ UNCHANGED <<storeVars, procVars, job, cases, slackVars, said>>

\* IdempotencyReplayUnavailableError: it committed, and its reply is gone.
SubmitReplayLost(e) ==
    /\ At(e, "submit") /\ Commits(e)
    /\ UNCHANGED <<storeVars, procVars, cases>>
    /\ IF Kind(e) = "click"
       THEN Fail(e, "noresend") /\ UNCHANGED job
       ELSE /\ job' = [job EXCEPT ![e].lost = TRUE]
            /\ Goto(e, "seed") /\ UNCHANGED <<slackVars, said>>

\* A definitive refusal: nothing committed under the key (TurnRecovery).
SubmitRefused(e) ==
    /\ At(e, "submit")
    /\ outcome' = [outcome EXCEPT ![e] = "refused"]
    /\ \E advice \in {"resend", "noresend"} : Fail(e, advice)
    /\ UNCHANGED <<storeVars, procVars, job, backVars>>

\* The client gave up without learning whether the turn committed.
SubmitUnknown(e) ==
    /\ At(e, "submit")
    /\ outcome' = [outcome EXCEPT ![e] = "unknown"]
    /\ landed' \in {landed} \union
           {landed \union {c} : c \in {x \in {job[e].case} : cases[x] = "live"}}
    /\ Fail(e, "noresend")
    /\ UNCHANGED <<storeVars, procVars, job, cases>>

\* A backend older than contract 2.8.0 answers 400 to an empty turn, which is
\* sent once more, with the summons text.
ResendEmpty(e) ==                                 \* ... with no text (mutant)
    /\ At(e, "submit") /\ job[e].empty
    /\ Goto(e, "find")
    /\ UNCHANGED <<storeVars, procVars, job, backVars, slackVars, logVars>>
SubmitEmptyRefused(e) ==
    /\ At(e, "submit") /\ job[e].empty
    /\ job' = [job EXCEPT ![e].empty = FALSE]
    /\ Goto(e, "find")
    /\ UNCHANGED <<storeVars, procVars, backVars, slackVars, logVars>>

\* A 404: the case is gone, or a proxy answered for a backend being deployed.
SubmitNotFound(e) ==
    /\ At(e, "submit")
    /\ Escape(e, "unlink")
    /\ UNCHANGED <<storeVars, procVars, backVars>>

UnlinkStaleCase(e) ==
    /\ At(e, "unlink") /\ open
    /\ row' = mark_unlinked(row)
    /\ notices' = 0
    /\ Goto(e, "explain")
    /\ UNCHANGED <<procVars, job, backVars, screen, owner, pointers, placed, logVars>>

\* The tombstone write raises inside the handler of the 404.
UnlinkRaises(e) ==
    /\ At(e, "unlink") /\ ~open
    /\ IF Kind(e) = "click" THEN Escape(e, "finish")
       ELSE Fail(e, "resend") /\ UNCHANGED <<job, outcome>>
    /\ UNCHANGED <<storeVars, procVars, backVars>>

\* _mark_seeded never raises; after a lost reply the error text follows.
AfterSeed(e) == IF job[e].lost THEN "explain" ELSE "announce"

SeedRaising(e) ==                                 \* unguarded mark_seeded (mutant)
    /\ At(e, "seed")
    /\ IF open THEN row' = mark_seeded(row) /\ Goto(e, AfterSeed(e))
                    /\ UNCHANGED <<slackVars, said>>
               ELSE Fail(e, "resend") /\ UNCHANGED row
    /\ UNCHANGED <<procVars, job, backVars, outcome>>
Seed(e) ==
    /\ At(e, "seed")
    /\ row' = IF open THEN mark_seeded(row) ELSE row
    /\ Escape(e, AfterSeed(e))
    /\ UNCHANGED <<procVars, backVars>>

\* What the row now records, the thread is told: the case is gone, or the turn
\* is in it and its reply is lost.
Explain(e) ==
    /\ At(e, "explain")
    /\ Fail(e, IF job[e].lost THEN "noresend" ELSE "gone")
    /\ UNCHANGED <<storeVars, procVars, job, backVars, outcome>>

-----------------------------------------------------------------------------
(* After the commit: the reply, and what the row says of it. *)

\* disable_previous_actions: the previous turn's buttons, best effort.
Announce(e) ==
    /\ At(e, "announce") /\ (open \/ ~job[e].first)
    /\ \/ Goto(e, "deliver") /\ UNCHANGED screen
       \/ /\ open /\ get_last_action_ts(row) # None
          /\ screen' = screen \ {get_last_action_ts(row)}
          /\ Goto(e, "clear")
    /\ UNCHANGED <<storeVars, procVars, job, backVars, owner, pointers, placed, notices,
                   logVars>>

\* The buttons are provably down: forget them.
ClearActions(e) ==
    /\ At(e, "clear")
    /\ row' = IF open THEN clear_last_action_ts(row) ELSE row
    /\ Escape(e, "deliver")
    /\ UNCHANGED <<procVars, backVars>>

\* The opening turn re-reads its case id for the pointer, outside any try.
AnnounceRaises(e) ==
    /\ At(e, "announce") /\ ~open /\ job[e].first
    /\ Escape(e, "finish")
    /\ UNCHANGED <<storeVars, procVars, backVars>>

\* deliver_turn_result, first rung: the blocks, with the pointer and the notes
\* that decorate() hangs on an opening reply.
DeliverBlocks(e) ==
    /\ At(e, "deliver")
    /\ \E choices \in BOOLEAN :
           /\ job' = [job EXCEPT ![e] = [@ EXCEPT
                          !.ts = e, !.buttons = choices, !.replied = TRUE,
                          !.note = job[e].first /\ job[e].restarted]]
           /\ screen' = IF choices THEN screen \union {e} ELSE screen
           /\ owner' = IF choices THEN [owner EXCEPT ![e] = job[e].case] ELSE owner
    /\ pointers' = IF job[e].first THEN Append(pointers, job[e].case) ELSE pointers
    /\ placed' = IF placed[e] = "working" THEN [placed EXCEPT ![e] = "settled"] ELSE placed
    /\ Goto(e, "record") /\ Say(e, "reply")
    /\ UNCHANGED <<storeVars, procVars, backVars, notices, outcome>>

\* A rendering error left unguarded (mutant).
DegradationRaises(e) ==
    /\ At(e, "deliver")
    /\ Escape(e, "finish")
    /\ UNCHANGED <<storeVars, procVars, backVars>>
\* The lower rungs: plain text, or no post at all.  A placeholder, or a click's
\* echo, still names the message the turn landed on.
DeliverDegraded(e) ==
    /\ At(e, "deliver")
    /\ \E what \in {"reply", "undelivered"}, ts \in {None, e} :
           /\ what = "reply" \/ Kind(e) \notin {"click", "assistant"} => ts = e
           /\ job' = [job EXCEPT ![e].ts = ts]
           /\ Say(e, what)
           /\ placed' = IF placed[e] = "working"
                        THEN [placed EXCEPT ![e] = IF what = "reply" THEN "settled" ELSE "refused"]
                        ELSE placed
    /\ Goto(e, "record")
    /\ UNCHANGED <<storeVars, procVars, backVars, screen, owner, pointers, notices, outcome>>

\* record_posted_turn never raises; a click's message is then settled for good.
Record(e) ==
    /\ At(e, "record")
    /\ row' = IF open
              THEN record_turn(row, job[e].ts, IF job[e].buttons THEN e ELSE None)
              ELSE row
    /\ Rewrite(e, screen \ {job[e].msg})
    /\ Goto(e, "finish")
    /\ UNCHANGED <<procVars, job, backVars, owner, pointers, placed, notices, logVars>>

-----------------------------------------------------------------------------
(* The environment. *)

DeleteCase(c) ==
    /\ cases[c] = "live"
    /\ cases' = [cases EXCEPT ![c] = "gone"]
    /\ UNCHANGED <<storeVars, procVars, pc, job, landed, slackVars, logVars>>

\* shutdown_runtime: no new deliveries, then the drain, then store.close().  The
\* drain waits for the workers it found in _active_turns, up to its deadline, so
\* neither a worker started since nor one that outlasts the deadline is waited
\* for: any of them may meet the closed store.
Shutdown ==
    /\ ShutsDown /\ open
    /\ open' = FALSE
    /\ UNCHANGED <<storeVars, busy, probed, restarts, pc, job, backVars, slackVars, logVars>>

\* The process ends, at any point, and a new one starts: daemon workers die with
\* it, an open data box does not, and the row survives only on a kept volume.
Restart(kept) ==
    /\ restarts < MaxRestarts
    /\ restarts' = restarts + 1
    /\ open' = TRUE /\ busy' = FALSE /\ probed' = FALSE
    /\ row' = IF kept THEN row ELSE NoRow
    /\ pc' = [e \in Events |-> IF pc[e] \in {"idle", "modal"} THEN pc[e] ELSE "done"]
    /\ job' = [e \in Events |-> IF pc[e] \in {"idle", "modal"} THEN job[e] ELSE NoJob]
    /\ placed' = [e \in Events |-> IF placed[e] = "working" THEN "killed" ELSE placed[e]]
    /\ UNCHANGED <<backVars, screen, owner, pointers, notices, logVars>>

-----------------------------------------------------------------------------
Listener(e) ==
    \/ AcceptClick(e) \/ RefuseStaleClick(e) \/ ListenShortcut(e)
    \/ ListenFollowup(e) \/ RouteFollowup(e) \/ WeighFollowup(e)
    \/ EnterGate(e) \/ TurnedAway(e) \/ StartWorker(e) \/ StartFails(e)

Opening(e) ==
    \/ PostPlaceholder(e) \/ BeginClick(e) \/ BeginBox(e)
    \/ BeginAssistant(e) \/ TellMissing(e) \/ ForgetThread(e) \/ BeginFollowup(e)
    \/ ClaimNotice(e) \/ PostNotice(e)
    \/ RecoverLostCase(e) \/ MarkRecovered(e) \/ RecoverNothing(e) \/ OrphanRaises(e)
    \/ ReadThread(e) \/ ReadRaises(e) \/ Decline(e)

Turn(e) ==
    \/ FindCase(e) \/ FindNone(e) \/ ClickFindsNone(e) \/ FindRaises(e)
    \/ Create(e) \/ CreateFails(e) \/ MapRaises(e) \/ MapThread(e)
    \/ SubmitCommits(e) \/ SubmitReplayLost(e) \/ SubmitRefused(e)
    \/ SubmitUnknown(e) \/ SubmitEmptyRefused(e) \/ SubmitNotFound(e)
    \/ UnlinkStaleCase(e) \/ UnlinkRaises(e) \/ Seed(e) \/ Explain(e)

Closing(e) ==
    \/ Announce(e) \/ ClearActions(e) \/ AnnounceRaises(e)
    \/ DeliverBlocks(e) \/ DeliverDegraded(e) \/ Record(e) \/ Finish(e)

Next ==
    \/ \E e \in Events, k \in Kinds : Dispatch(e, k)
    \/ \E e \in Events : SubmitBox(e)
    \/ \E e \in Events : Listener(e) \/ Opening(e) \/ Turn(e) \/ Closing(e)
    \/ \E c \in Cases : DeleteCase(c)
    \/ Shutdown
    \/ \E kept \in BOOLEAN : Restart(kept)

Spec == Init /\ [][Next]_vars

\* Workers and listeners get scheduled, and every call they make returns: the
\* client's calls are bounded (TurnRecovery) and Slack's have timeouts.  Nothing
\* makes a user act, a case disappear or the process stop.
FairSpec ==
    Spec /\ \A e \in Events : WF_vars(Listener(e) \/ Opening(e) \/ Turn(e) \/ Closing(e))

-----------------------------------------------------------------------------
(* Safety. *)

\* Drop-if-busy (run_gated, offload_turn): at most one interaction owns the
\* thread, and the gate is held exactly while one does, however workers start,
\* fail to start, raise or are killed.
OneTurnPerThread ==
    /\ \A e, f \in Events : Holds(e) /\ Holds(f) => e = f
    /\ busy <=> \E e \in Events : Holds(e)

\* run_turn reads the mapping once and uses it across the whole turn: while a
\* turn is in flight the row still links the thread to the case it runs on.
TurnOnMappedCase ==
    \A e \in Events :
        pc[e] \in {"submit", "unlink", "seed", "announce", "clear", "deliver", "record"}
            => get(row) = job[e].case

\* A row says seeded, and the thread shows a case pointer, only for a case that
\* holds a committed turn - through restarts and recovery from the thread too.
SeededMeansLanded ==
    /\ row.seeded => row.case \in landed
    /\ \A i \in DOMAIN pointers : pointers[i] \in landed

\* The catch-up is never lost to a failed opening turn: a mention or thread
\* reply submitted to a case with no committed turn asked for the discussion so
\* far (on_app_mention, on_thread_message: "not seeded").
CatchUpDelivered ==
    \A e \in Events :
        pc[e] = "submit" /\ Kind(e) \in {"mention", "followup"}
            => job[e].case \in landed \/ job[e].tried

\* A turn that may have committed is never answered with advice to send it
\* again, whatever fails between the commit and the reply (turn_error_text).
CommittedNotResent ==
    \A e \in Events : said[e] = "resend" => outcome[e] \in {"none", "refused"}

\* A channel's tombstone is explained at most once (claim_unlink_notice): the
\* claim is written before the post, so neither two replies at once nor a crash
\* in between has the thread told again.  The panel tells first and forgets
\* after, and promises only ToldOncePerProcess.
NoticeOnce == notices <= 1

\* ... and a claim whose notice Slack refused is owed again
\* (release_unlink_notice): claimed means posted or being posted, unless the
\* process died, or its store closed, in between.
NoticeNotLost ==
    restarts = 0 /\ open /\ is_unlinked(row) /\ row.notified
        => notices # 0 \/ \E e \in Events : At(e, "notice")

\* The panel tells a missing case once and forgets it (turn_work).  Only a
\* process that ended, or closed its store, between the two leaves the thread
\* to be told again, and then by the next process: one telling each, at most.
ToldOncePerProcess == notices <= 1 + restarts

\* No worker ends with its placeholder still at "Working...", unless it was
\* killed or Slack refused the update (run_turn_and_post, the declines).
PlaceholderSettled ==
    \A e \in Events : pc[e] = "done" => placed[e] # "working"

\* A turn known to be committed ends with its reply offered to Slack
\* (deliver_turn_result).
CommittedReplyOffered ==
    \A e \in Events :
        pc[e] = "finish" /\ outcome[e] = "committed" => said[e] # "none"

\* A decision taken with a button, and data put in a box a button opened, go to
\* the case whose reply showed the button (on_suggested_action's "a later click
\* would land this stale decision on whatever fresh case the thread opens next",
\* on_data_box_submit's "the data was for the case this thread had").
ClickOnOwnCase ==
    \A e \in Events :
        pc[e] = "submit" /\ Kind(e) \in Clicked => job[e].case = owner[job[e].msg]

\* A decision is applied only while the reply it was taken on is the thread's
\* current turn (_refuse_stale_click).
ClickOnCurrentTurn ==
    \A e \in Events :
        pc[e] = "submit" /\ Kind(e) = "click" => row.turnTs \in {None, job[e].msg}

\* The reply of a turn that found an explanation owed (restart_pending) carries
\* it.
RestartExplained ==
    \A e \in Events :
        pc[e] = "record" /\ job[e].replied /\ job[e].restarted => job[e].note

-----------------------------------------------------------------------------
(* What a step may never do. *)

\* restart_pending outlives everything but a landed turn, or the row itself:
\* not the write that opens the replacement case, not a failed opening turn.
RestartOwedUntilLanded ==
    [][restart_pending(row) /\ row'.present /\ ~restart_pending(row')
           => row'.seeded /\ row'.case \in landed']_vars

\* Choice buttons come up with the reply that carries them; they come back only
\* for a click whose turn did not commit (retry_may_help, _restore_actions).
RearmOnlyUncommitted ==
    [][\A m \in screen' \ screen :
           \/ At(m, "deliver")
           \/ \E e \in Events : /\ Kind(e) = "click" /\ job[e].msg = m
                                /\ outcome'[e] \in {"none", "refused"}]_vars

\* A thread whose row was lost is re-linked to the case it last announced.
RecoversCurrentCase ==
    [][\A e \in Events :
           At(e, "begin") /\ pc'[e] = "mark" => row'.case = pointers[Len(pointers)]]_vars

\* The row implements the link it stands for.
L == INSTANCE CaseLink WITH
         link    <- IF Linked(row) THEN {row.case} ELSE {},
         missing <- is_unlinked(row),
         created <- {c \in Cases : cases[c] # "unborn"}
ImplementsCaseLink == L!Spec

-----------------------------------------------------------------------------
(* Liveness, under FairSpec. *)

\* The thread does not stay reserved for good.
ThreadFreed == busy ~> ~busy

\* An interaction taken up is brought to its end; a data box may stay open.
InteractionEnds ==
    \A e \in Events : pc[e] \notin {"idle", "modal"} ~> pc[e] \in {"done", "modal"}
=============================================================================
