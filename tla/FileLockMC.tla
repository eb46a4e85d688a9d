----------------------------- MODULE FileLockMC ----------------------------
(* Small instances of FileLock for model checking. *)
EXTENDS FileLock, TLC

Ask(type, start, len, block) == [type |-> type, start |-> start, len |-> len, block |-> block]

\* Three ranges that touch, the last one open; writers on them, a reader across, and
\* a range past the largest offset.
MCAsks ==
     1 :> {Ask("W", 0, 1, TRUE), Ask("W", 1, 1, TRUE), Ask("W", 2, 0, TRUE), Ask("W", 2, 3, TRUE)}
  @@ 2 :> {Ask("W", 1, 1, TRUE), Ask("W", 2, 0, TRUE), Ask("R", 0, 2, FALSE)}
  @@ 3 :> {Ask("W", 2, 0, TRUE), Ask("R", 0, 0, TRUE), Ask("U", 1, 1, FALSE)}
============================================================================
