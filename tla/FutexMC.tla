------------------------------ MODULE FutexMC ------------------------------
(* Small instances of Futex for model checking. *)
EXTENDS Futex, TLC

CONSTANTS pA, pB

\* Two threads of one process and one of another.
MCProcOf == (1 :> pA) @@ (2 :> pA) @@ (3 :> pB)
============================================================================
