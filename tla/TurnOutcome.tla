------------------------------ MODULE TurnOutcome ------------------------------
(***************************************************************************)
(* What submit_turn promises about one logical turn, however many times it *)
(* is sent: it commits at most once; its reply is given only for a turn    *)
(* that committed; and once its sender is invited to send it again, it     *)
(* never commits.                                                          *)
(***************************************************************************)
EXTENDS Naturals

VARIABLES commits,    \* how often the turn has been committed
          told        \* its sender knows "nothing" yet, has the "reply", is "warned"
                      \* against sending it again, or "invited" to

Init == commits = 0 /\ told = "nothing"

Commit == /\ commits = 0 /\ told \in {"nothing", "warned"}
          /\ commits' = 1 /\ UNCHANGED told

Tell(what) == told = "nothing" /\ told' = what /\ UNCHANGED commits

Next == \/ Commit
        \/ commits = 1 /\ Tell("reply")
        \/ commits = 0 /\ Tell("invited")
        \/ Tell("warned")

Spec == Init /\ [][Next]_<<commits, told>>
=============================================================================
