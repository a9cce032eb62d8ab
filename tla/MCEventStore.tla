---------------------------- MODULE MCEventStore ----------------------------
(***************************************************************************)
(* EventStore on small instances: three events on two days, the first two  *)
(* of which share a partition.                                             *)
(***************************************************************************)
EXTENDS EventStore

CONSTANTS e1, e2, e3

MCDayOf == [e \in Events |-> IF e = e3 THEN 2 ELSE 1]
=============================================================================
