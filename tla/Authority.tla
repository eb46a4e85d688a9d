----------------------------- MODULE Authority -----------------------------
(***************************************************************************)
(* What the capability tables promise, with no slots, generations, queues  *)
(* or interrupts: a reference monitor.  A place either carries authority   *)
(* over an object or carries none.  The kernel grants; a holder derives a  *)
(* subset, moves or drops; a revoke takes every authority over the object  *)
(* away in one step.  kernel/include/gj/cap.h and kernel/cap/revoke.c      *)
(* state these as S1 to S7.  Cap implements this specification.            *)
(***************************************************************************)
EXTENDS Integers

CONSTANTS
  Place,    \* where authority can be held
  Obj,      \* objects
  Granted   \* <<place, object, rights>> the kernel itself may hand out

VARIABLE auth   \* place -> the authority it carries

Nothing == [held |-> FALSE, rights |-> {}]
Over(o, r) == [held |-> TRUE, obj |-> o, rights |-> r]

Init == auth = [p \in Place |-> Nothing]

Grant(p, o, r) ==
  /\ auth[p] = Nothing
  /\ <<p, o, r>> \in Granted
  /\ auth' = [auth EXCEPT ![p] = Over(o, r)]

\* The rights of the new place are among those of the old one.
Derive(p, d, r) ==
  /\ auth[p].held /\ r \subseteq auth[p].rights
  /\ auth[d] = Nothing
  /\ {"MINT", "GRANT"} \cap auth[p].rights # {}
  /\ auth' = [auth EXCEPT ![d] = Over(auth[p].obj, r)]

Move(p, d) ==
  /\ auth[p].held /\ auth[d] = Nothing
  /\ "GRANT" \in auth[p].rights
  /\ auth' = [auth EXCEPT ![d] = auth[p], ![p] = Nothing]

Drop(p) == auth' = [auth EXCEPT ![p] = Nothing]

\* All at once, wherever the authority went.
Revoke(o) ==
  auth' = [p \in Place |-> IF auth[p].held /\ auth[p].obj = o THEN Nothing ELSE auth[p]]

Next ==
  \/ \E p \in Place : Drop(p)
  \/ \E o \in Obj : Revoke(o)
  \/ \E p, d \in Place : Move(p, d)
  \/ \E g \in Granted : Grant(g[1], g[2], g[3])
  \/ \E p, d \in Place : \E r \in SUBSET auth[p].rights : Derive(p, d, r)

Spec == Init /\ [][Next]_auth
============================================================================
