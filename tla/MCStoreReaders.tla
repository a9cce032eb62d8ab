--------------------------- MODULE MCStoreReaders ---------------------------
(***************************************************************************)
(* One reader beside a store with two events, both of the same day, so     *)
(* that the second one replaces a partition that has a sidecar.            *)
(***************************************************************************)
EXTENDS StoreReaders

MCDayOf == [e \in Events |-> 1]
=============================================================================
