------------------------------ MODULE ErrorAdvice ------------------------------
(***************************************************************************)
(* What the user is told about a turn that failed (listeners/_turn.py).    *)
(* turn_error_text words the advice and retry_may_help answers the same    *)
(* question for the buttons.  An error is named by its class; the texts    *)
(* are abstracted to whether they invite the user to send the turn again.  *)
(***************************************************************************)

\* FaultMavenTimeoutError: given up on, refused a re-check while in doubt, and
\* refused one by the daily cap.
Unconfirmed == {"unknown", "unchecked", "capped"}

\* The turn's own 409s and 404, and the credential.
OwnAnswers == {"replayLost", "keyReuse", "gone", "terminal", "deleting", "conflict"}
NoAccess   == {"credential", "unlinked"}

\* FaultMavenRateLimitError, with the turn cap as a subclass; other 4xx.
Throttled  == {"rateLimited", "cap"}
Rejections == {"rejected", "unauthorized"}

\* Nothing committed: a labelled 504 (kind request_timeout is "narrow"), a coded
\* 5xx, and what is left to TURN_ERROR_TEXT: an uncoded 5xx, a request that never
\* left, and a FaultMavenError of no other class.
NothingCommitted == {"nothing", "narrow"}
Transient        == {"coded5xx", "uncoded5xx", "unreached", "notStarted", "plain"}

Errors == Unconfirmed \union OwnAnswers \union NoAccess \union Throttled
          \union Rejections \union NothingCommitted \union Transient

\* The ladder of turn_error_text.  Above the shutdown override, only a case being
\* deleted ("write here again") and the cap ("once it has reset") invite.
AboveOverride == Unconfirmed \union NoAccess \union {"cap"} \union (OwnAnswers \ {"conflict"})

OverrideFirst(error, stopping) ==                 \* the override on top (mutant)
    \/ stopping
    \/ error \in {"deleting", "cap"}
    \/ error \in {"conflict", "rateLimited"} \union NothingCommitted \union Transient
turn_error_text(error, stopping) ==
    IF error \in AboveOverride THEN error \in {"deleting", "cap"}
    ELSE \/ stopping                              \* RESTARTING_TEXT
         \/ error \in {"conflict", "rateLimited"} \union NothingCommitted \union Transient

\* The list of retry_may_help, in its own order.
retry_may_help(error, stopping) ==
    /\ error \notin Unconfirmed \union NoAccess
                    \union {"replayLost", "keyReuse", "terminal", "gone"}
    /\ \/ stopping
       \/ error \in {"conflict", "deleting"} \union Throttled \union NothingCommitted
       \/ error \notin Rejections
=============================================================================
