---------------------------- MODULE StoreReaders ----------------------------
(***************************************************************************)
(* A reader beside the store: query_streaming() without and with search    *)
(* terms (storage/streaming_query.rs, cursor.rs), query_streaming_batch()  *)
(* (storage/batched_query.rs) and negentropy_items_for_unix_day()          *)
(* (storage/hot.rs).                                                       *)
(*                                                                         *)
(* A reader takes a snapshot of the hot file and the listed compacting     *)
(* files, then reads partition after partition, while appends, rotations,  *)
(* merges and other readers' repairs go on between any two of its reads.   *)
(* The store is EventStore; this module says what one reader sees of it.   *)
(* The filter is one that every event matches: what a filter selects and   *)
(* what is visible is decided packet by packet, whatever file it is in.    *)
(* A batch is of two queries, one of them a search; seen is what the other *)
(* one finds, and excuse is the search's.                                  *)
(***************************************************************************)
EXTENDS EventStore

ASSUME DaysAreNumbers == Days \subseteq Nat

VARIABLES
  step,      \* where the reader is, "idle" between two calls
  kind,      \* "query", "search", "batch" or "negentropy"
  promised,  \* the readable events at the moment the call began
  seen,      \* the events read so far
  toRead,    \* compacting files still to be read
  toScan,    \* partitions still to be read
  index,     \* the search index a search has read, or NoSidecar
  excuse     \* why a search may have left out (part of) a partition; "index of
             \* another file" is history, the code reports the others

rvars == <<step, kind, promised, seen, toRead, toScan, index, excuse>>

\* hot_snapshot() keeps the state lock; a rebuild keeps the sidecar guard.
HoldsLock  == step \in {"clone paths", "read compacting"}
HoldsGuard == step \in {"rebuilding missing", "rebuilding invalid", "rebuilding index"}

Kinds == {"query", "search", "batch", "negentropy"}

Goto(next) == step' = next
Sees(events) == seen' = seen \cup events
HotEvents(file) == UNION {file[d].events : d \in Days}

InitR ==
  /\ Init
  /\ step = "idle" /\ kind = "query" /\ promised = {} /\ seen = {}
  /\ toRead = {} /\ toScan = {} /\ index = NoSidecar /\ excuse = {}

(***************************************************************************)
(* The call, and hot_snapshot().                                           *)
(***************************************************************************)
Begin(k, day) ==
  /\ session = "up" /\ step \in {"idle", "done"}
  /\ kind' = k /\ promised' = {e \in Readable : k = "negentropy" => DayOf[e] = day}
  /\ seen' = {} /\ toRead' = {} /\ index' = NoSidecar /\ excuse' = {}
  /\ IF k = "negentropy" THEN toScan' = {day} /\ Goto("scan first")
                         ELSE toScan' = {} /\ Goto("read hot")
  /\ UNCHANGED vars

\* negentropy_items_for_unix_day reads the partition before the hot snapshot.
ScanFirst(d) ==
  /\ step = "scan first" /\ d \in toScan
  /\ Sees(partition[d].events)
  /\ toScan' = {} /\ Goto("read hot")
  /\ UNCHANGED <<vars, kind, promised, toRead, index, excuse>>

ReadHot ==
  /\ step = "read hot"
  /\ Sees(HotEvents(hot))
  /\ Goto("clone paths")
  /\ UNCHANGED <<vars, kind, promised, toRead, toScan, index, excuse>>

\* Fault: only hot.events is read.
CloneNoPaths ==
  /\ step = "clone paths"
  /\ toRead' = {} /\ Goto("read compacting")
  /\ UNCHANGED <<vars, kind, promised, seen, toScan, index, excuse>>

ClonePaths ==
  /\ step = "clone paths"
  /\ toRead' = paths /\ Goto("read compacting")
  /\ UNCHANGED <<vars, kind, promised, seen, toScan, index, excuse>>

\* A listed file that is gone by now counts as empty.
ReadCompacting(f) ==
  /\ step = "read compacting" /\ f \in toRead
  /\ Sees(HotEvents(compacting[f]))
  /\ toRead' = toRead \ {f}
  /\ UNCHANGED <<vars, step, kind, promised, toScan, index, excuse>>

FinishSnapshot ==
  /\ step = "read compacting" /\ toRead = {}
  /\ Goto(IF kind = "negentropy" THEN "done" ELSE "list days")
  /\ UNCHANGED <<vars, kind, promised, seen, toRead, toScan, index, excuse>>

ListDays ==
  /\ step = "list days"
  /\ toScan' = {d \in Days : partition[d] # Empty} /\ Goto("next day")
  /\ UNCHANGED <<vars, kind, promised, seen, toRead, index, excuse>>

(***************************************************************************)
(* One partition, newest day first.                                        *)
(***************************************************************************)
Today(d) == d \in toScan /\ \A other \in toScan : other <= d

NextDay == /\ toScan' = toScan \ {CHOOSE d \in toScan : Today(d)}
           /\ Goto("next day")

AllDays ==
  /\ step = "next day" /\ toScan = {}
  /\ Goto("done")
  /\ UNCHANGED <<vars, kind, promised, seen, toRead, toScan, index, excuse>>

\* Fault: a partition without a usable index is left out for both queries.
SkipForAll == NextDay

\* A search leaves the partition out; the other query of a batch scans it.
Skip == \/ kind = "search" /\ NextDay
        \/ kind = "batch" /\ Goto("scan") /\ UNCHANGED toScan

\* Without search terms, or without an index, the file is opened and scanned.
ScanDay(d) ==
  /\ step = "scan" \/ (step = "next day" /\ kind = "query")
  /\ Today(d)
  /\ Sees(partition[d].events) /\ NextDay
  /\ UNCHANGED <<vars, kind, promised, toRead, index, excuse>>

\* Fault: a partition without a sidecar is taken to have nothing to find.
ProbeSkippingMissing(d) ==
  /\ step = "next day" /\ kind \in {"search", "batch"} /\ Today(d)
  /\ IF sidecar[d] = NoSidecar THEN NextDay ELSE Goto("bloom") /\ UNCHANGED toScan
  /\ UNCHANGED <<vars, kind, promised, seen, toRead, index, excuse>>

\* search_path.exists()
Probe(d) ==
  /\ step = "next day" /\ kind \in {"search", "batch"} /\ Today(d)
  /\ Goto(IF sidecar[d] = NoSidecar THEN "rebuild missing" ELSE "bloom")
  /\ UNCHANGED <<vars, kind, promised, seen, toRead, toScan, index, excuse>>

\* search_bloom_may_match and read_search_bloom_for_events, before and after a
\* repair.
Bloom(d) ==
  /\ step = "bloom" /\ Today(d)
  /\ Goto(IF IsCurrent(d) THEN "index" ELSE "remove invalid")
  /\ UNCHANGED <<vars, kind, promised, seen, toRead, toScan, index, excuse>>

BloomAgain(d) ==
  /\ step = "bloom again" /\ Today(d)
  /\ \/ /\ IsCurrent(d) /\ Goto(IF kind = "batch" THEN "index again" ELSE "index")
        /\ UNCHANGED <<toScan, excuse>>
     \/ ~IsCurrent(d) /\ Skip /\ excuse' = excuse \cup {"unreadable after repair"}
  /\ UNCHANGED <<vars, kind, promised, seen, toRead, index>>

\* read_search_index_for_events, and then File::open.  What to a search is a
\* second repair is to a batch the same one as that for the Bloom filter.
ReadIndex(d) ==
  /\ step = "index" /\ Today(d)
  /\ \/ IsCurrent(d) /\ index' = sidecar[d] /\ Goto("open")
     \/ /\ ~IsCurrent(d) /\ UNCHANGED index
        /\ Goto(IF kind = "batch" THEN "remove invalid" ELSE "remove index")
  /\ UNCHANGED <<vars, kind, promised, seen, toRead, toScan, excuse>>

ReadIndexAgain(d) ==
  /\ step = "index again" /\ Today(d)
  /\ \/ /\ IsCurrent(d) /\ index' = sidecar[d] /\ Goto("open")
        /\ UNCHANGED <<toScan, excuse>>
     \/ ~IsCurrent(d) /\ Skip /\ excuse' = excuse \cup {"unreadable after repair"} /\ UNCHANGED index
  /\ UNCHANGED <<vars, kind, promised, seen, toRead>>

\* The index lists offsets of the partition it was read with.  In a partition
\* that was replaced since, they lead to other packets or into the middle of
\* one: the search fails, or misses packets, and with a search the other query
\* of a batch, which follows the same index.
OpenAndSearch(d) ==
  /\ step = "open" /\ Today(d)
  /\ index' = NoSidecar
  /\ \/ /\ index = partition[d]
        /\ Sees(partition[d].events) /\ NextDay /\ UNCHANGED excuse
     \/ /\ index # partition[d] /\ excuse' = excuse \cup {"index of another file"}
        /\ \/ \E found \in SUBSET index.events : Sees(found) /\ NextDay
           \/ Goto("idle") /\ UNCHANGED <<seen, toScan>>
  /\ UNCHANGED <<vars, kind, promised, toRead>>

(***************************************************************************)
(* Repairs: remove_file_if_exists without the guard, and                   *)
(* rebuild_partition_sidecars with it.                                     *)
(***************************************************************************)
Remove(d) ==
  /\ step \in {"remove invalid", "remove index"} /\ Today(d)
  /\ sidecar' = [sidecar EXCEPT ![d] = NoSidecar]
  /\ Goto(IF step = "remove invalid" THEN "rebuild invalid" ELSE "rebuild index")
  /\ UNCHANGED <<hot, compacting, partition, summarized, memory, inserts, faults,
                 kind, promised, seen, toRead, toScan, index, excuse>>

BeginRepair(d) ==
  /\ Today(d) /\ Rebuild(d)
  /\ \/ step = "rebuild missing" /\ Goto("rebuilding missing")
     \/ step = "rebuild invalid" /\ Goto("rebuilding invalid")
     \/ step = "rebuild index" /\ Goto("rebuilding index")
  /\ UNCHANGED <<kind, promised, seen, toRead, toScan, index, excuse>>

FinishRepair ==
  /\ HoldsGuard /\ FinishRebuild
  /\ \/ step = "rebuilding missing" /\ Goto("bloom")
     \/ step = "rebuilding invalid" /\ Goto("bloom again")
     \/ step = "rebuilding index" /\ Goto("index again")
  /\ UNCHANGED <<kind, promised, seen, toRead, toScan, index, excuse>>

\* The partition cannot be read, or its sidecar not be written: no file has changed.
RepairRefused(d) ==
  /\ step \in {"rebuild missing", "rebuild invalid", "rebuild index"} /\ Today(d)
  /\ Skip /\ excuse' = excuse \cup {"repair failed"}
  /\ UNCHANGED <<vars, kind, promised, seen, toRead, index>>

\* The metadata cannot be merged.  Either way the partition is skipped with a
\* warning.
RepairFails ==
  /\ HoldsGuard /\ RebuildFails
  /\ Skip /\ excuse' = excuse \cup {"repair failed"}
  /\ UNCHANGED <<kind, promised, seen, toRead, index>>

-----------------------------------------------------------------------------
SnapshotStep == \/ ReadHot \/ ClonePaths \/ FinishSnapshot \/ ListDays
                \/ \E f \in Files : ReadCompacting(f)
                \/ \E d \in Days : ScanFirst(d)

DayStep == \/ AllDays
           \/ \E d \in Days : \/ ScanDay(d) \/ Probe(d) \/ Bloom(d) \/ BloomAgain(d)
                              \/ ReadIndex(d) \/ ReadIndexAgain(d) \/ OpenAndSearch(d)

RepairStep == \/ FinishRepair \/ RepairFails
              \/ \E d \in Days : Remove(d) \/ BeginRepair(d) \/ RepairRefused(d)

\* What goes on beside the reader: everything, but for appends and rotations
\* under the state lock it holds, and the rebuild that is its own.
Beside ==
  /\ \/ MergeStep \/ OpenStep \/ SidecarStep
     \/ RunStep /\ (HoldsLock => UNCHANGED hot)
  /\ HoldsGuard => UNCHANGED guard
  /\ UNCHANGED rvars

CrashR ==
  /\ Crash
  /\ Goto("idle")
  /\ UNCHANGED <<kind, promised, seen, toRead, toScan, index, excuse>>

NextR == \/ \E k \in Kinds, d \in Days : Begin(k, d)
         \/ SnapshotStep \/ DayStep \/ RepairStep \/ Beside \/ CrashR

SpecR == InitR /\ [][NextR]_<<vars, rvars>>

-----------------------------------------------------------------------------
(***************************************************************************)
(* Properties.                                                             *)
(***************************************************************************)
\* Only a rotation that failed half way may hide an event (NothingHidden).
Misplaced(e) == \E f \in misplaced : Holds(compacting[f], e)
Complete == \A e \in promised \ seen : Misplaced(e)

\* A query finds every event that was readable when it was called, although
\* the files it reads are rotated, merged and removed while it reads them: it
\* looks where events come from before it looks where they go.  In a batch with
\* a search it does so too, whatever becomes of sidecars and their repairs, unless
\* the partition is replaced between the reading of its index and its opening.
QueryComplete ==
  step = "done" /\ kind \in {"query", "batch"} /\ "index of another file" \notin excuse => Complete

\* So does a search, with two exceptions: it has left a partition out with a
\* warning, because the repair of its sidecar failed or did not make it readable;
\* or the partition was replaced after its index was read and before it was opened,
\* which the code does not notice.  A sidecar that is missing, stale or between two
\* renames costs it nothing else.
SearchAccounted ==
  step = "done" /\ kind \in {"search", "batch"} /\ excuse = {} => Complete

\* README.md:36 "Search queries also repair a missing or unreadable partition
\* sidecar on demand and use the rebuilt sidecar in the same query when repair
\* succeeds".
RebuiltIsUsed == "unreadable after repair" \notin excuse

\* README.md:47 "Storage-level negentropy item collection: (created_at,
\* event_id) values for a Unix day": the items of the day, all of them.
NegentropyComplete == step = "done" /\ kind = "negentropy" => Complete

\* The invariant behind the first two, with IndInv of the store.  What was
\* readable when the call began is on disk, and the reader knows it or has still
\* to look where it is: in hot.events until that has been read, which no append
\* or rotation follows before the compacting files have been read; in one of
\* these, or in the partition to which it goes from there; and in a partition
\* that has not been scanned yet.
DaySteps == {"next day", "scan", "bloom", "bloom again", "index", "index again", "open",
             "remove invalid", "remove index", "rebuild missing", "rebuild invalid",
             "rebuild index", "rebuilding missing", "rebuilding invalid", "rebuilding index"}

Excused == "index of another file" \in excuse \/ (kind = "search" /\ excuse # {})

\* A rotation that failed leaves its file alone on disk, until the next open.
MisplacedInv ==
  /\ session # "up" => misplaced = {}
  /\ misplaced \subseteq OnDisk /\ job \notin misplaced

SnapshotInv ==
  /\ HoldsLock => HotEvents(hot) \subseteq seen
  /\ step = "read compacting" /\ kind # "negentropy" =>
       \A e \in promised \ seen :
         Misplaced(e) \/ Holds(partition, e) \/ \E f \in toRead : Holds(compacting[f], e)
  /\ step = "list days" /\ kind # "negentropy" =>
       \A e \in promised \ seen : Misplaced(e) \/ Holds(partition, e)

ScanInv ==
  kind # "negentropy" /\ ~Excused =>
    /\ step \in DaySteps =>
         \A e \in promised \ seen :
           Misplaced(e) \/ (DayOf[e] \in toScan /\ Holds(partition, e))
    /\ step = "done" => Complete

ReaderInv ==
  /\ promised \subseteq Durable /\ toRead \subseteq Files /\ toScan \subseteq Days
  /\ step # "idle" => session = "up"
  /\ MisplacedInv /\ SnapshotInv /\ ScanInv
=============================================================================
