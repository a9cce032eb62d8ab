----------------------------- MODULE DurableLog -----------------------------
(***************************************************************************)
(* What the storage layer promises about the events it has accepted, with  *)
(* no files in sight: a set of events that grows by one accepted event at  *)
(* a time while the store is serving, and that nothing else changes - not  *)
(* a rotation, a compaction, a failed step, a crash or a reopening.        *)
(*                                                                         *)
(* EventStore is shown to implement this module.                           *)
(***************************************************************************)
CONSTANT Events

VARIABLES
  stored,   \* the events a reader may ever be promised
  serving   \* whether the store is open and answers calls

vars == <<stored, serving>>

Init == stored = {} /\ serving = FALSE

\* A note is written once or several times; the set does not tell.
Store(e) ==
  /\ serving
  /\ stored' = stored \cup {e}
  /\ UNCHANGED serving

\* Opening and closing or crashing: no event appears or disappears.
Resume == ~serving /\ serving' = TRUE /\ UNCHANGED stored
Stop   == serving /\ serving' = FALSE /\ UNCHANGED stored

Next == (\E e \in Events : Store(e)) \/ Resume \/ Stop

Spec == Init /\ [][Next]_vars
=============================================================================
