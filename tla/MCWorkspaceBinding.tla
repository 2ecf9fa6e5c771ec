-------------------------- MODULE MCWorkspaceBinding --------------------------
(* WorkspaceBinding for TLC. *)
EXTENDS WorkspaceBinding, TLC

Symmetry == Permutations(Turns) \union Permutations(Binders) \union Permutations(Enterprises)

\* An object nobody can reach is as good as unused: Insert overwrites it.
Collected == [o \in Creds |-> IF Spare(o) THEN Unused ELSE cred[o]]

\* However a turn, a callback or a teardown ended, it is over; and a callback still to come,
\* when no pending bind is or will be open, can only be turned away.
TooLate   == \A r \in Pendings : pend[r] \notin {"none", "open"}
Over(s)   == s \in {"bound", "failed", "rejected"} \/ (s = "idle" /\ TooLate)
Threading == [a \in Actors |-> IF at[a] \in Ended THEN "done" ELSE at[a]]
Callbacks == [x \in Binders |-> IF Over(binder[x].step) THEN [binder[x] EXCEPT !.step = "bound"]
                                ELSE binder[x]]
Teardowns == [u \in Leavers |-> IF leaver[u].step \in {"ended", "gaveup"} THEN None ELSE leaver[u]]

View == <<row, Collected, lock, cached, Threading, mem, live, issued, origin, other, faults,
          pend, Callbacks, Teardowns, boundTo, gone, late, calm, crossed>>
=============================================================================
