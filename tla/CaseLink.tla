------------------------------- MODULE CaseLink -------------------------------
(***************************************************************************)
(* What the thread->case map promises about one Slack thread, whoever      *)
(* writes it: the thread is linked to at most one case, and a link is      *)
(* never replaced by another one.  The case of a linked thread has first   *)
(* to be reported missing, or its record to be lost with the volume.       *)
(***************************************************************************)
CONSTANT Cases

VARIABLES link,      \* the case the thread is linked to: {} or {c}
          missing,   \* that case was reported missing, and the thread remembers
          created    \* cases opened at the backend so far

vars == <<link, missing, created>>

Init == link = {} /\ missing = FALSE /\ created = {}

\* A case is opened for the thread; it is not linked yet.
Create(c) == c \notin created /\ created' = created \union {c} /\ UNCHANGED <<link, missing>>

\* An unlinked thread is linked to an existing case: a new one, or one recovered.
Link(c) == /\ link = {} /\ c \in created
           /\ link' = {c} /\ missing' = FALSE
           /\ UNCHANGED created

\* The backend could not find the case.
Lose == link # {} /\ link' = {} /\ missing' = TRUE /\ UNCHANGED created

\* A 1:1 thread was told and is forgotten, or the record is gone.
Forget == link' = {} /\ missing' = FALSE /\ UNCHANGED created

Next == \/ \E c \in Cases : Create(c) \/ Link(c)
        \/ Lose
        \/ Forget

Spec == Init /\ [][Next]_vars
=============================================================================
