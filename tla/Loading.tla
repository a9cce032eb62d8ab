-------------------------------- MODULE Loading --------------------------------
(***************************************************************************)
(* Loading a dump into a database that is in use (load_events_with_        *)
(* progress and insert_loaded_dump_record, db/mod.rs).  The dump is read   *)
(* in batches, and a batch is inserted when it has been read: each record  *)
(* is checked, appended to the hot file and sent to the subscriptions.     *)
(*                                                                         *)
(* A record is a packet, or Bad if its note cannot be decoded or its       *)
(* signature is wrong.  A dump can end within a record.  A load that has   *)
(* failed can be started again, from the beginning.                        *)
(***************************************************************************)
EXTENDS HotFile

CONSTANTS
  Dumps,      \* the dumps to load: records and whether the last one is cut short
  Bad,
  LoadBatch,  \* LOAD_BATCH_SIZE
  MaxLoads    \* loads that are started (a bound)

ASSUME DumpsAssumption ==
  /\ Bad \notin Packets /\ LoadBatch \in Nat \ {0}
  /\ \A d \in Dumps : d.records \in Seq(Packets \cup {Bad}) /\ d.cut \in BOOLEAN

VARIABLES
  dump,       \* the dump that is loaded
  load,       \* "idle", "reading", "inserting", or how the load has ended: "ok",
              \* "cut short" or "storage error"
  next,       \* the next record
  batchEnd,   \* the last record of the batch
  announced,  \* the packets that this load has sent to the subscriptions
  loads       \* loads started

loadVars == <<dump, load, next, batchEnd, announced, loads>>

Fine(n) == {dump.records[i] : i \in 1..n} \ {Bad}
Count == Len(dump.records)

LoadInit ==
  /\ Init /\ dump \in Dumps /\ load = "idle"
  /\ next = 1 /\ batchEnd = 0 /\ announced = {} /\ loads = 0

StartLoad ==
  /\ session = "up" /\ load \notin {"reading", "inserting"} /\ loads < MaxLoads
  /\ loads' = loads + 1 /\ load' = "reading"
  /\ next' = 1 /\ batchEnd' = 0 /\ announced' = {}
  /\ UNCHANGED <<dump, vars>>

\* Up to LoadBatch records, unless the dump ends within one of them.
ReadBatch ==
  /\ load = "reading" /\ UNCHANGED <<dump, next, announced, loads, vars>>
  /\ IF batchEnd + LoadBatch > Count /\ dump.cut
     THEN load' = "cut short" /\ UNCHANGED batchEnd
     ELSE /\ batchEnd' = Min({batchEnd + LoadBatch, Count})
          /\ load' = IF batchEnd' > batchEnd THEN "inserting" ELSE "ok"

Advance ==
  /\ next' = next + 1
  /\ load' = IF next = batchEnd THEN "reading" ELSE "inserting"
  /\ UNCHANGED <<dump, batchEnd, loads>>

Inserting == session = "up" /\ load = "inserting"

\* is_load_record_error
SkipRecord == Inserting /\ dump.records[next] = Bad /\ Advance /\ UNCHANGED <<announced, vars>>

InsertRecord ==
  /\ Inserting /\ dump.records[next] # Bad /\ Advance
  /\ Accept(dump.records[next])
  /\ announced' = announced \cup {dump.records[next]}

\* Fault: a record that the storage refuses is skipped like a bad one.
RefusedRecordSkipped ==
  /\ Inserting /\ dump.records[next] # Bad /\ Advance
  /\ AppendFails(dump.records[next]) \/ UNCHANGED vars
  /\ UNCHANGED announced

\* Fault: the subscriptions are told before the packet is stored.
AnnouncedThenRefused ==
  /\ Inserting /\ dump.records[next] # Bad /\ load' = "storage error"
  /\ AppendFails(dump.records[next]) \/ UNCHANGED vars
  /\ announced' = announced \cup {dump.records[next]}
  /\ UNCHANGED <<dump, next, batchEnd, loads>>

\* The storage refuses the packet, or has stored it and cannot rotate.
InsertFails ==
  /\ Inserting /\ dump.records[next] # Bad /\ load' = "storage error"
  /\ AppendFails(dump.records[next]) \/ UNCHANGED vars
  /\ UNCHANGED <<dump, next, batchEnd, announced, loads>>

\* What the database does besides.  A crash ends the load.
Beside ==
  /\ Next /\ UNCHANGED <<dump, next, batchEnd, announced, loads>>
  /\ load' = IF session' = "down" THEN "idle" ELSE load

LoadNext == StartLoad \/ ReadBatch \/ SkipRecord \/ InsertRecord \/ InsertFails \/ Beside

LoadSpec == LoadInit /\ [][LoadNext]_<<vars, loadVars>>

-----------------------------------------------------------------------------

\* A load that ends well has inserted and announced every record but the bad ones
\* of a dump that is whole.  If the dump ends within a record, exactly the batches
\* before that record's were inserted.  If the storage fails, it was a prefix.
LoadAccounted ==
  /\ load = "ok" => ~dump.cut /\ announced = Fine(Count)
  /\ load = "cut short" => dump.cut /\ announced = Fine((Count \div LoadBatch) * LoadBatch)
  /\ load = "storage error" => announced = Fine(next - 1)
  /\ announced \subseteq Fine(Count)

\* What a load sends to the subscriptions is in the database, and is not lost by a
\* crash or a compaction: whoever was told of a packet can query it.
AnnouncedIsStored == Readable => announced \subseteq Stored
=============================================================================
