# FaultMaven Slack agent: a verification project

The agent turns a Slack thread into an investigation: every mention, reply, click, panel message,
shortcut and data box on a thread becomes one *turn* on one *case* of the FaultMaven backend. This
directory holds TLA+ modules of that program, TLC configurations that check them on small instances,
and TLAPS proofs. Paths below are relative to the repository root.

## 1. The system

| Component | Code | State it keeps | Operations |
|---|---|---|---|
| Thread-to-case store | `store.py` | one SQLite row per thread: case, seeded, tombstone (`unlinked`), `unlink_notified`, `restart_pending`, two turn markers | get, put, mark_seeded, record_turn, mark_unlinked, claim/release of the notice, forget, close |
| Thread gate and workers | `listeners/_turn.py` (738-910) | `_gate._busy`, `_active_turns` | try_begin_turn, end_turn, offload_turn, run_gated, drain_turns |
| Turn runner and delivery | `listeners/_turn.py` (553-687, 1013-1334) | locals of one worker | run_turn, run_turn_and_post, deliver_turn_result, record_posted_turn, disable_previous_actions, unlink_stale_case |
| Channel and DM events | `listeners/events.py` | two `Dedup`s, `probed_threads` | on_app_mention, on_thread_message, orphan_work, recover_lost_case |
| Suggested actions, data box | `listeners/actions.py` | buttons on Slack messages | on_suggested_action, on_data_box, on_data_box_submit |
| Assistant panel | `listeners/assistant.py` | a `Dedup` | user_message |
| Investigate shortcut | `listeners/shortcuts.py` | a `Dedup` | on_investigate_message |
| Turn client | `faultmaven/client.py` (2187-2822, 1788-1864) | locals of one submit_turn, `_stopping` | create_case, submit_turn and its recovery loop, the 401 re-post, the 202 poll |
| Turn sizing | `faultmaven/client.py` (952-1056) | a cached published bound | turn_timing, longest_attempt_seconds |
| Credentials and rotation | `faultmaven/client.py` (628-694, 1133-1785), `credentials.py`, `workspace_credentials.py` | access and refresh tokens, in memory and persisted; a keep-alive thread | _renew, _exchange_refresh_token, _reauth, _persist, _keepalive_loop |
| Workspace binding | `binding.py`, `pending_binds.py`, `web.py`, `listeners/lifecycle.py` | pending binds, per-workspace credentials | start and complete a bind, uninstall, revoke |
| Redelivery | `Dedup`, `_turn_key` in `listeners/_turn.py`, the listeners | a bounded, in-memory set of identities per surface | is_duplicate, turn_key |
| Process lifecycle | `app.py`, `web.py` | shutdown flags, Socket Mode watch | startup, shutdown_runtime, _watch_connection |
| Rendering, text, files, configuration, install pages, OAuth store, home tab, generated models, scripts | the other files | none that the others depend on | formatting, parsing, I/O |

**How they interact.** Bolt runs listeners on a thread pool. A listener decides from the store whether there
is something to do, takes the thread's gate, and hands the work to a daemon thread, which talks to Slack, the
store and the client and releases the gate when it ends. Listeners of one thread interleave freely with each
other and with the one worker that holds the gate. The client calls the backend with an idempotency key per
interaction and keeps asking while the outcome is unknown. Shutdown drains the workers and closes the store
under whoever is left; a supervisor restarts the process; the store file may or may not survive.

**What is hard here.** A reply that is written on a row another interaction has just replaced; a turn that
committed although the client, Slack or the store failed afterwards; an explanation or a notice owed across a
failure; a click on a reply that is no longer current; a row lost and rebuilt from Slack; the gate held by a
worker that never started; a refresh token rotated by two threads. `PROJECT.json` lists these at their lines.

## 2. Modules

| Module | What it is |
|---|---|
| `CaseStore` | One row of `thread_cases`; every method of the store as an operator on the row. |
| `CaseLink` | Abstract: what the map promises, at most one case per thread and never one link overwritten by another. |
| `ThreadTurns` | One Slack thread and all its interactions, from the listener through the gate to the recorded reply. Extends `CaseStore`, implements `CaseLink`. |
| `ErrorAdvice` | The two ladders that turn an error into advice: `turn_error_text` and `retry_may_help`, over error classes. |
| `TurnOutcome` | Abstract: one commit at most, a reply only of a committed turn, no invitation to re-send one that may still commit. |
| `TurnRecovery` | One logical turn under one idempotency key: `submit_turn`'s loop, the network and the backend. Extends `ErrorAdvice`, implements `TurnOutcome`. |
| `TokenCustody` | Abstract: where the one live refresh token is, and how it may move. |
| `CredentialRotation` | One principal's refresh credential: who renews it, the lock, the store, the keepalive, shutdown, another process. Implements `TokenCustody`. |
| `WorkspaceBinding` | Install callbacks and uninstall events for one workspace, composed with `CredentialRotation`'s threads (EXTENDS it). |
| `TurnTiming` | The published bound that sizes an attempt, its cache, and the drain sized by the longest attempt. |
| `Redelivery` | Slack's retries against the bounded `Dedup`, the gate, the idempotency key and the backend's receipts. |
| `MC...` | Each of the above for TLC: symmetry, and a view for the binding. |
| `...Proofs` | Theorems of the module before the suffix, proved (section 4); `ThreadLinkProofs` goes on from `ThreadTurnsProofs`, `CredentialOrderProofs` and `WorkspaceBindingProofs` from `CredentialRotationProofs`. |

`ThreadTurns` takes the client's answers as given, `TurnRecovery` takes the surfaces' reading of an error as given
(`ErrorAdvice` is that reading), `CredentialRotation` supplies the token both need, `TurnTiming` the length of an
attempt that `TurnRecovery` has as a constant, and `Redelivery` the uniqueness of a key that `TurnRecovery` assumes.

### 2.1 ThreadTurns and CaseStore

`pc[e]` is where interaction `e` is and `job[e]` its handler's locals; `row`, `open`, `busy`, `probed` are the
store's row, its connection, the thread's key in `_gate._busy` and in `probed_threads`. The backend is `cases`
(unborn, live, gone) and `landed` (cases with a committed turn); Slack is the buttons showing (`screen`), the case
each reply with buttons was rendered from (`owner`), the case pointers in the thread, placeholders and notices.
`outcome` and `said` record what became of a turn and what the thread was told.

A step is what runs between two points where another actor can get in: a store call, a Slack call, a client
call, the gate. Every store method holds the store's lock, so it is one operator and one step. The order of the
actions is the order of the code: the listener (`ListenFollowup`, `RouteFollowup`, `WeighFollowup`, `AcceptClick`),
the gate (`EnterGate`, `StartWorker`, `StartFails`), what each surface does first (`PostPlaceholder`, `BeginClick`,
`ClaimNotice`, `RecoverLostCase`, `ReadThread`), `run_turn` (`FindCase`, `Create`, `MapThread`, the `Submit...`
answers, `UnlinkStaleCase`, `Seed`), the text or the reply (`Explain`; `Announce`, `ClearActions`, `DeliverBlocks`,
`DeliverDegraded`, `Record`) and the runner's `finally` (`Finish`). A closed store raises; where the code catches it the action goes on, where it
does not the action is a separate `...Raises`. Slack may refuse any call. The environment deletes cases, closes
the store (`Shutdown`) at any point after the drain's list was taken, and kills the process (`Restart`), with the
volume kept or lost.

A post and the store write that goes with it are two steps, because the process can die, or its store close, in
between: `ClaimNotice` writes before `PostNotice` posts, the panel's `TellMissing` posts before `ForgetThread` writes,
`UnlinkStaleCase` and `Seed` write before `Explain` says so, `Announce` takes the buttons down before `ClearActions`
forgets them. One step joins a call that failed, or a read, with the text it is answered by; a text with the settling
of the placeholder or of the clicked message; a reply's record with that settling; a refused notice with the release
of its claim; and reads under the gate that follow one another. Nobody else writes between these, a store closed in
between is as good as closed before, and a process that dies in between leaves what it leaves when it dies before
them, or when Slack refuses the second: only the log of what was said or became of the turn (`said`, `outcome`) could
tell.

So a channel's tombstone is explained once and perhaps never (a crash after the claim), and the panel's once and
perhaps twice (a crash after the telling): `NoticeOnce` and `NoticeNotLost` say the former, `ToldOncePerProcess` the
latter. A thread is a channel's or a 1:1 thread, never both: `is_thread_followup_candidate` leaves `im` channels out.
A case created and never linked (`CreateFails`, `MapRaises`, a crash at `map`) stays at the backend, orphaned; nothing in
the code looks for it and no property forbids it.

The client is abstracted to its answers: committed, committed with the reply lost, refused, unknown, an empty
turn refused, not found. That a refusal means nothing was committed, and that the unknown outcome is not worded
as an invitation, is `TurnRecovery`'s subject; `CommittedNotResent` and `RearmOnlyUncommitted` therefore hold up
to the exceptions found there (section 5).

### 2.2 TurnRecovery and ErrorAdvice

`pc` is where `submit_turn` is; `pending`, `maybe`, `backoff`, `conflicts`, `llm`, `fresh`, `lastAsk` and `wait` are
the loop's locals under the source's meanings; `left` and `alloc` are what remains of the deadline and of the
attempt. Errors are classes (`ErrorAdvice.Errors`), one for each way the ladders can treat an exception. The
backend, external code, is modelled from what the client's comments say of it: a post finds the key's receipt, or
its claim (where the deployment keeps claims), or is run; a run may commit only if the case has not moved under
it; a receipt may lose its reply. Posts the client has given up on keep running (`strays`).

Assumptions: a post reaches the backend during its attempt or not at all; a running attempt holds the case's
lease, so the case's own refusals (closed, being deleted, gone) come only when no run of the turn can commit;
time passes in the client's own steps only; a sleep lasts exactly what was asked; the client's `_stopping` and the
surfaces' `_shutting_down` are one flag. Two idealisations make a bound exact that the code calls approximate: `httpx`
applies its timeout to each phase of a request and not to the whole (`client.py`, 2307), and each question of
the 202 poll is given a second even when less than that is left (`client.py`, 2762).

### 2.3 CredentialRotation and TokenCustody

`cred[o]` holds the fields of a `_Credential` (its refresh token, enterprise, access token and whether that is still
valid, `unpersisted`), `lock[o]` its `renew_lock`, `cached` the client's entry for the workspace, `row` the stored
binding. A token is the number of its issue, so "older" is `<`; an access token is named by the refresh token issued
with it. `at[a]` and `mem[a]` are a thread and its locals. The steps are the code's reads and writes around the locks:
`FirstLook`, `ReadRow` and `Insert` are `_credential_for`; `Look` the unlocked fast path; `Queue`, `TakeLock` and
`Overtaken` the single flight of `_renew`; `Rotate` to `Publish` are `_exchange_refresh_token` under the lock, with
`Refused` and `Alternatives` its fallback; `RetryTake`, `RetrySkip`, `Rewrite`, `Due` the keepalive; `Unauthorized` is
`_reauth`; `CloseWaits` and `Close` the client's `close()`, whose wait for a renewal is bounded: one that outlasts it
(two requests under one lock do) is `cut`, and its credential may be lost. Access tokens expire at any time (`Expire`). `Spec` is the
process-wide default's; `KeyedStep` gathers the steps only a workspace's credential takes, which `WorkspaceBinding` adds.

Assumptions: the backend spends a refresh token when it answers with a successor and accepts no spent one (that is
what the client's comments say of it); another process presents the row's token and nothing else. `_credential_for`'s
`OrderedDict` and its size are one entry here, since there is one principal.

### 2.4 WorkspaceBinding

`pend` is the pending bind's row, `binder` and `leaver` a callback and an uninstall event with what each has read,
`boundTo` the backend's side. `Select` and `Claim` are the two statements of `consume`; `BindWorkspace`,
`StoreBinding` and `ForgetPrevious` are `complete_bind`, each with its failure; `ReadBinding`, `Unbind`,
`RevokeToken`, `ForgetCached` are the teardown in its order. `gone`, `late`, `calm` and `crossed` are the history that
the properties speak about: a finished teardown, the turns begun since, nothing bound or torn down in this process, a
rotated token written over a row of another binding. `Rotating` is every step of `CredentialRotation`'s threads and
`KeyedStep`. The keepalive, shutdown, the expiry of access tokens and another process's renewals are checked in
`rotation` and left out of this composition; a turn whose token is refused renews as one whose token has run out.

### 2.5 TurnTiming

A tick is `_TIMING_RETRY_SECONDS`. `bound` and `timing` are `_bound` and `_timing`, `holder` the `_timing_lock`;
`ReadLongest` and `WriteLongest` are the two halves of `_longest_attempt = max(_longest_attempt, attempt)`, which
runs outside the lock, so `raced` records the one case in which the maximum can be lost. A turn asks `stopping` once
more before it sends (`Check`), which is what keeps an attempt sized after the drain from being in flight.

### 2.6 Redelivery

An event has a kind and, except for some shortcuts, an identity; identities are unique within one of Slack's clocks
and may coincide across them. `Deliver` is the listener up to `run_gated`, with `Recorded` the `Dedup`; `EnterGate` the
gate; `Prepare` what the worker reads of the row and the bytes that follow from it (`prior_context`, the default text
of a bare mention); `Run`, `RunCommits`, `RunFails`, `Answered` and `Refused` the turn under its key. `since[e]` holds
the other identities the same `Dedup` was given after `e`. The backend is external and assumed to keep claims and
receipts: `Run` starts no attempt under a key that has one running or committed. What becomes of a turn where no
claims are kept is `TurnRecovery`'s subject.

## 3. Runs

`CHECK_DEADLOCK FALSE` everywhere: an agent whose interactions have all ended, a turn that is over, a process that has
closed really stop. Only `progress`, `recovery` and `rotation_progress` state fairness.

| Run | What it shows | Bounds |
|---|---|---|
| `channel` | One turn per thread, the turn's case stays the thread's, `seeded` and pointers name landed cases, the catch-up is not lost, one notice per tombstone (the claim) and none lost, an owed restart outlives a failed opening, the link refinement. | 3 interactions (mention, reply, click), 2 cases, 1 restart |
| `direct` | The same link for the DM, panel, shortcut and data box; a missing case told of once by each process; no placeholder left at "Working..."; a committed turn's reply is offered. | 3, 2, 1 restart |
| `progress` | The thread is freed and every interaction ends, under fairness; with the store closed under live workers, no committed turn is invited again and no button re-armed for one. | 2, 2, shutdown; no symmetry |
| `recovery` | One turn: one commit, doubt exactly when raised as such, fresh runs fit, late giving up, the drain covers it, the outcome refinement, termination. | attempt 2, bound 5, backoff 1 to 2, polls 1 to 2, last ask 1, 2 LLM re-sends, Retry-After none, 0, 1, 3, 9 |
| `rotation` | A spent token is presented only when the process has lost the live one; the store never goes back; persist before use; `close()` outlasts the renewal it finds; custody of the live token. | the default principal, 2 turns and the keepalive, 4 tokens, 3 failures |
| `rotation_progress` | A failed write is made good; no turn waits for a renewal for ever. | 1 turn and the keepalive, 4 tokens, 2 failures |
| `binding` | A pending bind is spent once; one `_Credential` per workspace; an unbind ends service; a re-bind's credential is adopted. | 1 workspace, 2 enterprises, 2 turns, 2 objects, 2 callbacks of 1 pending bind, 1 teardown, 3 tokens, 1 failure |
| `timing` | A turn is sized to the bound in force but for one interval; the drain outlasts every attempt in flight. | 3 turns, bounds 1 and 4 around a fallback of 3, Ttl 3, Retry 1 |
| `redelivery` | A key names one event's turn, which commits once; a retry is dropped unless a whole `Dedup` of others came since. | 3 events, 2 workers, a `Dedup` of 2, 5 deliveries, 1 restart |
| `finding_token`, `finding_rebind`, `finding_redelivery` | Three disagreements between the code and its own documents (section 5). | as small as shows them |

**Why the bounds are enough.** Three interactions on two cases let one turn be in flight while a second is
refused or routed and a third has already read the row, and let a case be deleted, tombstoned and replaced while
a button of the first is still on the screen; one restart separates "before" and "after", with the volume kept or
lost. A bound of 5 with attempts of 2 gives an attempt and a re-send in full and a last, shorter one; Retry-After
takes a value below, at and above what is left and above the bound; two LLM re-sends are the code's own constant.
Two turns and the keepalive are a holder of the lock, a thread that waits for it and one that comes back later; four
tokens are the first and three rotations, enough for a rotation, one by another process and a late write between;
`MaxFaults` counts failures, crashes and the other process's renewals together, so three allow a failed write, a crash
and another process in one run. In the binding, three tokens are the one the workspace begins with and two of a rotation
and a re-bind. A `Dedup` of two is overflowed by three events, and five deliveries let one of them come again before,
during and after its turn and across the restart.

Bounds that stand as guards: `MaxRestarts` (`Restart`), `MaxIssued` (a backend past it answers no more, `Unreached`),
`MaxFaults` (`Fault`), `MaxDeliveries` (`Deliver`); `MaxSeen` is `Dedup`'s own maxsize, 2 instead of 5000. `overtime` is
bounded by `Bound` by itself. Symmetry is used in safety runs only. The binding's `View` identifies states
that differ in a `_Credential` no thread and no cache refers to: `Insert`, the only step that can come by such an
object, overwrites it, and no property reads one. It also identifies the ways in which a turn, a callback or a teardown
can have ended, and a callback still to come, once no link is or will be open, with one that has ended, since it can
only be turned away: none of these matters to a later step or to a property.

**Not reached by the runs.** The shortcut without an identity (`None \in Stamps`); a close-down of the process during
a bind; two install links of one workspace at once.

**Fairness.** `ThreadTurns.FairSpec` gives each interaction's handler weak fairness: its thread is scheduled, and
every call it makes returns, because Slack's and the client's calls have timeouts (that the client's ends is
`SubmitEnds`). Nothing obliges a user, the environment or a crash. `TurnRecovery.FairSpec` gives the client weak
fairness; a call it waits for ends by its timeout at the latest (`Unanswered`); the backend owes nothing.
`CredentialRotation.FairSpec` gives each turn and the keepalive, which loops until the process stops, weak fairness, on
the same grounds, and a turn strong fairness on `TakeLock`: the `renew_lock` it waits for is free again and again, since a
holder's requests have timeouts, and the one thread that comes back for it sleeps an hour first
(`_KEEPALIVE_INTERVAL_SECONDS`), far longer than a waiting thread needs.

Each property has a mutant in `PROJECT.json`: an operator placed before the definition it replaces, marked
"(mutant)", with a plausible bug that makes TLC find the property violated.

## 4. Proofs

All for every value of the constants under the assumption each module names (`ConfigAssumption`, `RecoveryAssumption`,
`RotationAssumption`, `BindingAssumption`, `TimingAssumption`, `RedeliveryAssumption`: mostly which numbers are natural, that
`None` is nothing else, and that the tick `Retry`, 30 s in the code, is not 0). Every invariant, action property and
refinement a passing run checks has its theorem; what has none is listed at the end.

**One thread** (`ThreadTurnsProofs`, `ThreadLinkProofs`). The store's writes come first, as lemmas: what each does to a
row's type, its link, its tombstone and its notice.

- `TypeCorrect`: `TypeOK` is not inductive, since a turn's case and a click's message are used where `TypeOK` lets them
  be `None`; `JobOK` adds that a job past its look-up has a case, and a click a message.
- `GateHolds`: steps are sorted into those that leave who holds the gate alone (`OutsideSteps`, `InsideSteps`), the one
  that enters on a free gate, those that leave and free it, and the restart; each keeps "at most one holder, and busy
  exactly while there is one". From here on a step under the gate leaves every other handler outside it (`OthersRest`).
- `TurnKeepsItsCase`, `SeededCasesLanded`, `CatchUpHolds`: one invariant, `LinkInv`. `RowTrue` is what the row, the
  pointers and the backend agree on; `Stands` what the holder has established where it stands: no mapping while it
  opens a case, its own case in the row from there on, a committed turn once it is answered, and the discussion asked
  for unless the row is seeded. None of the three is inductive alone: that a recovered row is seeded rightly rests on
  the pointers, the pointers on the answered turn, and that turn on the row being still its own.
- `RestartStaysOwed`: only `mark_seeded` and a removed row clear what is owed, and by `LinkInv` the former's case landed.
- `NoticeStaysOwed` is inductive by itself, given the gate. `NoticePostedOnce`: `OnceInv` adds that an unclaimed tombstone
  has no notice and that whoever is posting one has claimed it first. `PanelTellsOncePerProcess`: `PanelInv` adds that a
  process about to tell has not told yet, and that a tombstone it has told of it is about to forget, or can no longer
  write. Each is proved of the surfaces it speaks of, "no panel" and "no thread replies" being its hypothesis, through
  `SurfaceInv`: a handler stays on its surface, so `TellMissing` is the panel's alone and `PostNotice` a reply's. Without
  the hypothesis both would be of threads that do not exist, a channel's and 1:1 at once. The run `direct` keeps
  the store open; the theorem is also of a store that closes.
- `RowImplementsLink`: the refinement of `CaseLink`. A step writes the link to a case only where `LinkInv` says there is
  none and the case exists (`LinkMaps`, `LinkOpens`), takes it away where the case is reported missing or the record
  goes (`LinkForgets`), or leaves it alone (`LinkStutters`).
- `CommittedNeverResent`, `ReplyAlwaysOffered`, `PlaceholderAlwaysSettled`, `OnlyUncommittedRearmed`: `ToldInv`, what a
  handler may have learned and told by the step it is at. The second and third do not hold of a process whose store closes
  under a live worker (section 5); they are proved of every state with the store open, and of every state where
  `ShutsDown` is FALSE, which is how `direct` checks them.

**One turn** (`TurnRecoveryProofs`).

- `AdviceAgrees`: the words of a reply and its buttons never contradict each other.
- `OneCommitHolds`: `commits <= 1` alone is not inductive. `KeyedInv` adds that every run was started under the key, that
  a commit leaves a receipt under it, and that after a commit no run is live.
- `DoubtStaysPending`, `FreshRunsFit`, `GivenUpLate`, `ShutdownTakesOneAttempt`: from one invariant, `LoopInv`: the clock
  (an attempt's share and a sleep are within what is left; nothing but the attempt in flight, or one already due, runs
  after shutdown begins), the counters, and the doubt (a fresh run is owed only where nothing may have committed; after
  the last ask's wait no more than `LastAsk` is left). The steps that read an outcome either end the turn (`EndKeeps`) or
  go round (`RoundKeeps`).
- `RecoveryTyped`: type correctness, from `KeyedInv` and `LoopInv`.
- `SenderToldTheTruth`: the refinement of `TurnOutcome`. `OutcomeInv` says what an answer in hand proves about the runs
  (`AnswerInv`: with a claim store one run lives at most, so a labelled failure leaves none; "deleting" is said only of
  a turn that can commit no more), that a client not in doubt is right not to be, where a claim store or a first answer
  makes it so (`CertainInv`, `Sure`), and that what was told stays so (`ToldInv`). Every way the loop ends tells no lie
  (`Honest`); the `Blind` answers are told as "warned", with no promise.

**One credential** (`CredentialRotationProofs`, `CredentialOrderProofs`). But for `RotationTyped`, these are about the
process-wide default (`~Keyed`: one object and one `renew_lock`).

- `RotationTyped`: `Types` is `TypeOK` split by what it speaks of, with what makes it inductive: a thread past `FirstLook`
  has an object (`Aware`), each kind of thread is where its kind may be, and the default's row exists.
- `OneRenewal`: `PresentsLive`. The strengthening `Safe` says that a thread inside the exchange holds the lock; that one
  about to present the object's own token holds the token the object has now; that a thread with a successor not yet
  published is at `minted` or `persisted`; that the object's own token is not live while an alternative is tried, because
  it has been refused, and a refused token is never live again; and that every token anywhere has been issued
  (`AllIssued`), so a new one is no one's. A thread's step leaves the others as they are (`OthersKeep`) since only the one
  inside (`OneInside`) may change the object.
- `UsedStored`, `StoreOrdered`: `UsedMeansStored` and `StoreAdvances` from `Grounds`, which adds `Ordered` to `Types` and
  `Safe`. The live token is the last one issued and nobody here knows a later one (`Newest`, over a bound `Below(n)` that
  a quiet step only keeps and a rotation raises); while another process holds it no thread here has an older successor to
  write, and nothing is owed to the store (`Elsewhere`); a successor between the answer and `token_lock` is newer than
  the row or the object it goes over (`Placed`); and the object's token is in the row, or newer and marked unpersisted
  (`Owed`). `UsedMeansStored` is not inductive alone because a token in use says nothing of the token the next write
  carries. Steps that renew and write nothing are one class (`QuietOrdered`); the seven that do have a lemma each.
- `CloseIsPatient`: `CloseInv` adds that a `close()` which waits has the object's lock on its list, and that nobody comes
  to write once the client is closed, since a request is the only way there (`Soundly`).
- `CustodyKept`: the refinement of `TokenCustody`. Where the live token is reads the whole state (`Where`); `AtWhence`
  says it in the order in which the last token issued is looked for, so that a step has only to say which of the
  first answers it changes. `CustodyInv` adds that an alternative is a token the store or the configuration has had
  (`Traced`), and that a newly provisioned seed has no successor on its way over it.

**One workspace** (`WorkspaceBindingProofs`, on the lemmas of `CredentialRotationProofs`).

- `LinkSpentOnce`: `SpentOnce` with `Spent` (a link some callback got past `consume` with is consumed) and `Alone` (any
  other callback with that link has only read it), so the conditional UPDATE finds it spent.
- `BindingTyped`: the types of the rotation's variables, whose steps are used with a workspace's own look-up
  (`KeyedStep`), and of the binding's.
- `OneObjectCached`: not inductive, because it holds only through the second look at the cache. `Seats` says a thread
  that holds an object is past its look-up and holds the lock where it says so; `CalmInv` that while nothing has been
  bound or torn down every object held is the cached one. A thread's steps are put in one form (`Shape`), proved once.
- `TeardownEndsService`: `GoneInv`: while the row is gone, an object a later turn holds or would be given (`Offered`)
  carries no token that was renewed without the store's refusal being known (`Guarded`).
- `BindingAdopted`: `FitInv`. Until a renewal crosses a re-bind, the row's token acts for the row's enterprise, an
  object's token, if it is still accepted, for the object's, and so does what each thread has read, shows or was given
  (`FitThread`); tokens are added and retired but never change hands (`Grows`). Why a token just given fits goes back
  through what was presented for it, where that was read, and who put it there.

**Sizing and redelivery** (`TurnTimingProofs`, `RedeliveryProofs`).

- `TimingTyped`, `DrainCoversFlight`: `DrainOutlasts` with `SizedOK` (a turn that has been sized has an attempt),
  `LongestCovers` (the longest attempt covers every turn past its write of it, unless `raced`) and `DrainAfter` (a drain
  is sized only once shutdown has begun, which is what the check before sending asks).
- `SizedInTime`: `SizedToBound` from `CacheInv`: once the bound in force has been read it is the one cached, and until
  then the last answer is at least as old as the move, so an expired answer is asked again in time.
- `OneTurnPerKey`: `KeyNamesOneTurn`. A key is its surface's namespace and the event's stamp (`KeyFits`, `KeyIsOwn`), so
  handlers of one key carry one event (`JobsAgree`), as do a handler and the turn that stands under its key
  (`TurnsAgree`); then a handler that finds its turn adds none (`TurnsApart`).
- `RetriesDropped`: `RecentDropped`, for a `Dedup` of any size. `Remembered`: an event's key is in its surface's `Dedup`
  with nothing behind it but keys that came since. Recording a key keeps that for every other one or drops the
  oldest (`Fate`), and then the `Dedup` is full of keys that came since, each once (`FullOverruns`), so as many have come
  as it holds. Moving a known key to its end is what makes this so: without it (`RecordedFirst`) a key stands in front
  of older ones.

`RecoveryTyped`, `TimingTyped` and `BindingTyped` state type correctness where the runs spend their properties elsewhere.

**Only model-checked.** Liveness (`ThreadFreed`, `InteractionEnds`, `SubmitEnds`, `StoreCatchesUp`, `TurnsEnd`): ENABLED and
fairness are beyond the prover. `PresentsLive`, `UsedMeansStored` and `StoreAdvances` are neither checked nor claimed for
a workspace's credential, where two objects may stand for one row after a re-bind and the lock alone does not order
their writes (`finding_rebind`). The properties of section 5 do not hold.

## 5. Where the code and its documents disagree

Three have a run that TLC finds violated; `PROJECT.json` quotes the lines.

| Run | Disagreement |
|---|---|
| `finding_token` | A token renewal that fails at a re-send ends the loop as a plain error, whose text invites a re-send of a turn that may commit. |
| `finding_rebind` | A renewal of the old credential, answered before a workspace is bound anew, writes its token over the new binding's row: `bind` does not hold the `renew_lock`. |
| `finding_redelivery` | An event redelivered to a restarted process sends other bytes under its key, because `prior_context` and a bare mention's default text depend on the thread's row: the backend refuses the key's reuse. |

Six more are stated in the modules as properties no run lists, since they do not hold. Adding one to the configuration
named makes TLC print the behaviour.

| Property | Configuration | Disagreement |
|---|---|---|
| `ThreadTurns!RestartExplained` | `ThreadTurnsChannel.cfg` | The explanation owed after a restart is dropped when the opening turn fails and its retry succeeds. |
| `ThreadTurns!ClickOnOwnCase` | `ThreadTurnsChannel.cfg` | Until the fresh case's first reply is recorded, a button of the deleted case's last reply acts on the fresh case. |
| `ThreadTurns!ClickOnCurrentTurn` | `ThreadTurnsChannel.cfg` | The stale-click guard runs before the gate; another turn can pass in between. |
| `ThreadTurns!RecoversCurrentCase` | `ThreadTurnsChannel.cfg`, `MaxRestarts = 2` | A lost row is re-linked to the first case the thread announced, not the last. |
| `ThreadTurns!CommittedReplyOffered` | `ThreadTurnsDirect.cfg`, `ShutsDown = TRUE` | An opening turn that commits as the store closes loses its reply to an unguarded read. |
| `TurnRecovery!ConflictSettles` | `TurnRecovery.cfg` | Without claims, a second version conflict is read as "nothing committed", when it may have lost to the turn's own earlier run. |

`finding_token` and `ConflictSettles` are why `ImplementsTurnOutcome` excepts `Blind` answers: a failed renewal, a
final 401, the answers of a 202 poll (no backend answers turns so today), and, without claims, a labelled 504 or a
second version conflict. `crossed` marks in `WorkspaceBinding` the states `finding_rebind` leads to, where
`AdoptsBinding` claims nothing.

## 6. Not modelled

Rendering, Slack text, files, the home tab, configuration, install pages, OAuth storage, generated models and scripts
keep no state the rest depends on. The Socket Mode watch is a timer over one flag, whose consequence (the process
stops) is `ThreadTurns`' `Shutdown` and `Restart`. In the modelled parts:

- `CredentialRotation`: the dev-login, which consumes nothing; the token `startup()` asks for before any thread runs,
  a `Begin` like any other; more than one workspace (each has its own row, object and lock).
- `WorkspaceBinding`: who may install, and the texts of the pages.
- `TurnTiming`: the largest of two attempts written from one reading, which `raced` excepts: the code takes the
  maximum outside every lock.
- `ThreadTurns`: Bolt's acknowledgement and its timeouts; what a reply says.
