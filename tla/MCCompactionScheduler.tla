---------------------- MODULE MCCompactionScheduler ----------------------
(***************************************************************************)
(* CompactionScheduler with two appenders, one caller of compact() and     *)
(* three threads to spawn.  Liveness is checked, so no symmetry is used.   *)
(***************************************************************************)
EXTENDS CompactionScheduler
==========================================================================
