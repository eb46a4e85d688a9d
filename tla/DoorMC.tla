------------------------------- MODULE DoorMC ------------------------------
(* Small instances of Door for model checking: the configurations number     *)
(* the threads and hand out the roles.                                       *)
EXTENDS Door
============================================================================
