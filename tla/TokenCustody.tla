----------------------------- MODULE TokenCustody -----------------------------
(***************************************************************************)
(* What the rotation of a refresh credential promises: where the one live  *)
(* refresh token is, and how it moves (credentials.py, and                 *)
(* _exchange_refresh_token's docstring in faultmaven/client.py).           *)
(***************************************************************************)
EXTENDS Naturals

VARIABLES
    where,  \* where the live token is
    harm,   \* failures so far: of the network, the store, a process
    cut     \* shutdown stopped waiting for a renewal

Places == {"stored",        \* in the durable store: a restart finds it
           "seed",          \* in the configuration: so does a restart
           "inflight",      \* given to a thread that has not stored it yet
           "memory",        \* only in the process: its write failed
           "elsewhere",     \* given to another process
           "lost"}          \* with nobody: an operator must provision anew

Init == where = "stored"

Moves(from, to) == where \in from /\ where' = to
Harmed          == harm' > harm \/ cut

Renew     == Moves({"stored", "seed", "memory"}, "inflight")
Keep      == Moves({"inflight"}, "stored")
Degrade   == Moves({"inflight"}, "memory") /\ Harmed
Heal      == Moves({"memory"}, "stored")
Take      == Moves({"stored"}, "elsewhere")
Return    == Moves({"elsewhere"}, "stored")
Lose      == Moves({"inflight", "memory", "elsewhere"}, "lost") /\ Harmed
Provision == Moves({"lost"}, "seed")

Next == Renew \/ Keep \/ Degrade \/ Heal \/ Take \/ Return \/ Lose \/ Provision

\* A stored token is never lost, none is lost without a failure, and a lost one
\* never comes back.
Spec == Init /\ [][Next]_where
=============================================================================
