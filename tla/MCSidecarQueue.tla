--------------------------- MODULE MCSidecarQueue ---------------------------
(***************************************************************************)
(* SidecarQueue with the one compaction thread the program can have, and   *)
(* three threads that rebuild sidecars.                                    *)
(***************************************************************************)
EXTENDS SidecarQueue
=============================================================================
