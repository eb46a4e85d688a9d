------------------------------ MODULE NotifyMC -----------------------------
(* Small instances of Notify for model checking. *)
EXTENDS Notify, TLC

CONSTANTS b1, b2

\* One waiter for a single badge, one for any, and a poller.
MCMask == (1 :> {b1}) @@ (2 :> {b1, b2}) @@ (3 :> {b2})

\* Three driver hosts; the spawner boosted the first.
MCRank == [t \in 1 .. 3 |-> 4]
MCBoost == [t \in 1 .. 3 |-> IF t = 1 THEN 1 ELSE 0]
============================================================================
