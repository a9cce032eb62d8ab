----------------------------- MODULE EventStore -----------------------------
(***************************************************************************)
(* The files of the storage layer and the steps that move events through   *)
(* them (storage/hot.rs, storage/compaction.rs, storage/reindex*.rs):      *)
(*                                                                         *)
(*   hot.events  --rotate-->  hot.events.compacting-*  --merge-->          *)
(*       partitions/<day>.events + <day>.search + the visibility LMDB      *)
(*                                                                         *)
(* Every disk effect that can be separated from the next one by a crash or *)
(* by a failing system call is a step of its own.  A crash is the end of   *)
(* the process: the effects of completed system calls survive, the         *)
(* memory of HotEvents does not.                                           *)
(*                                                                         *)
(* A packet is abstracted to its event and to a length of one; a file to   *)
(* the events it holds on each day and to how many packets those take, so  *)
(* that the length test on the sidecars keeps its meaning.  The order of   *)
(* the packets inside a file is left to the query modules.  Who may start  *)
(* a compaction, and when, is CompactionScheduler; here one starts only    *)
(* while none is in progress, which CompactionScheduler proves.            *)
(***************************************************************************)
EXTENDS Integers, FiniteSets, Functions

CONSTANTS
  Events,      \* event ids
  Days,        \* unix days
  DayOf,       \* the day of an event's created_at
  Files,       \* names compacting_hot_path() may give; bounds the files on disk
  NoFile,
  NoSidecar,
  NoDay,
  MaxPackets,  \* hot_events_max_bytes, in packets
  Workers,     \* compact_workers
  MaxInserts,  \* bound on the packets appended in a behaviour
  MaxFaults    \* bound on the crashes and failed calls of a behaviour

ASSUME ConstantsAssumption ==
  /\ DayOf \in [Events -> Days]
  /\ NoFile \notin Files /\ NoDay \notin Days
  /\ MaxPackets \in Nat /\ Workers \in Nat \ {0}
  /\ MaxInserts \in Nat /\ MaxFaults \in Nat

Content == [events : SUBSET Events, packets : Nat]

ASSUME NoSidecarAssumption == NoSidecar \notin Content

\* created_at is a u64: there are finitely many days, and Packets sums over them.
ASSUME DaysAssumption == IsFiniteSet(Days)

VARIABLES
  hot,         \* hot.events: what it holds for each day
  compacting,  \* the compacting files on disk; EmptyFile where there is none
  partition,   \* partitions/<day>.events
  sidecar,     \* partitions/<day>.search: the content it was built from
  summarized,  \* events merged into the visibility LMDB
  session,     \* "down", "recovering" (inside open) or "up"
  paths,       \* HotEvents.compacting_paths
  misplaced,   \* files renamed by a rotation that failed before listing them
  job,         \* the compacting file being compacted, or NoFile
  stage,       \* how far that compaction is
  merge,       \* how far each day's merge_packets_into_partition is
  guard,       \* the SidecarUpdateQueue's active guard: its kind, or "free"
  rebuilding,  \* the day whose sidecars a reindex or a query is rebuilding
  doomed,      \* days whose sidecar a query found unreadable and will remove
  inserts, faults

disk   == <<hot, compacting, partition, sidecar, summarized>>
memory == <<session, paths, misplaced, job, stage, merge, guard, rebuilding, doomed>>
vars   == <<disk, memory, inserts, faults>>

-----------------------------------------------------------------------------
Empty     == [events |-> {}, packets |-> 0]
EmptyFile == [d \in Days |-> Empty]

Plus(a, b) == [events  |-> a.events \cup b.events,
               packets |-> a.packets + b.packets]

Packets(file) == FoldFunction(LAMBDA c, n : c.packets + n, 0, file)

OnDisk == {f \in Files : compacting[f] # EmptyFile}

\* Fault: the length test is dropped.
PresentIsCurrent(d) == sidecar[d] # NoSidecar

\* read_search_bloom_trusted, read_search_index_trusted: the length decides.
IsCurrent(d) == sidecar[d] # NoSidecar /\ sidecar[d].packets = partition[d].packets

Holds(file, e) == e \in file[DayOf[e]].events

\* The events that are in some file, and those that a reader is shown: hot
\* snapshot (hot.events and the listed compacting files) and partitions.
Durable  == {e \in Events : \/ Holds(hot, e) \/ Holds(partition, e)
                            \/ \E f \in Files : Holds(compacting[f], e)}
Readable == {e \in Events : \/ Holds(hot, e) \/ Holds(partition, e)
                            \/ \E f \in paths : Holds(compacting[f], e)}

Phases == {"idle", "todo", "writing", "renamed", "indexed", "done", "failed"}
Busy   == {d \in Days : merge[d] \in {"writing", "renamed", "indexed"}}
Failed == {d \in Days : merge[d] = "failed"}
Todo   == {d \in Days : merge[d] = "todo"}
AllIdle == [d \in Days |-> "idle"]

Fault == faults < MaxFaults /\ faults' = faults + 1

-----------------------------------------------------------------------------
Init ==
  /\ hot = EmptyFile /\ compacting = [f \in Files |-> EmptyFile]
  /\ partition = EmptyFile /\ sidecar = [d \in Days |-> NoSidecar]
  /\ summarized = {}
  /\ session = "down" /\ paths = {} /\ misplaced = {}
  /\ job = NoFile /\ stage = "none" /\ merge = AllIdle
  /\ guard = "free" /\ rebuilding = NoDay /\ doomed = {}
  /\ inserts = 0 /\ faults = 0

(***************************************************************************)
(* Appending and rotating.  Both run under the state lock, which every     *)
(* reader of the hot file takes too, and a crash between the write and the *)
(* rename leaves the state of an append without a rotation.                *)
(***************************************************************************)

\* Fault: the file handle is not reopened, the old packets stay in hot.
RotateKeepingHot(f, content) ==
  /\ compacting' = [compacting EXCEPT ![f] = content]
  /\ hot' = content
  /\ paths' = paths \cup {f}
  /\ job' = f /\ stage' = "rotated"

\* rotate_hot_for_compaction: the file goes to f, f is listed, hot is empty.
RotateTo(f, content) ==
  /\ compacting' = [compacting EXCEPT ![f] = content]
  /\ hot' = EmptyFile
  /\ paths' = paths \cup {f}
  /\ job' = f /\ stage' = "rotated"

Write(e) == [hot EXCEPT ![DayOf[e]] = Plus(@, [events |-> {e}, packets |-> 1])]

\* append_packet rotates a hot file that is too large, unless compact_running is
\* set: it is while a file is compacted, and for some steps before and after
\* (CompactionScheduler), which are not told apart here.
Append(e) ==
  /\ session = "up" /\ inserts < MaxInserts
  /\ inserts' = inserts + 1
  /\ \/ hot' = Write(e) /\ UNCHANGED <<compacting, paths, job, stage>>
     \/ /\ Packets(Write(e)) > MaxPackets /\ job = NoFile
        /\ \E f \in Files \ OnDisk : RotateTo(f, Write(e))
  /\ UNCHANGED <<partition, sidecar, summarized, session, misplaced, merge,
                 guard, rebuilding, doomed, faults>>

\* compact() and prepare_pending_compaction: the owner of the compaction slot
\* rotates a hot file that is not empty.
Rotate ==
  /\ session = "up" /\ job = NoFile /\ hot # EmptyFile
  /\ \E f \in Files \ OnDisk : RotateTo(f, hot)
  /\ UNCHANGED <<partition, sidecar, summarized, session, misplaced, merge,
                 guard, rebuilding, doomed, inserts, faults>>

\* The rotation fails after hot.events was opened anew and before the push on
\* compacting_paths: the file is on disk and no reader knows its name.
RotateFails ==
  /\ session = "up" /\ job = NoFile /\ hot # EmptyFile /\ Fault
  /\ \E f \in Files \ OnDisk :
       /\ compacting' = [compacting EXCEPT ![f] = hot]
       /\ misplaced' = misplaced \cup {f}
  /\ hot' = EmptyFile
  /\ UNCHANGED <<partition, sidecar, summarized, session, paths, job, stage,
                 merge, guard, rebuilding, doomed, inserts>>

(***************************************************************************)
(* compact_hot_file: the days of the file are merged by worker threads,    *)
(* under the sidecar guard.                                                *)
(***************************************************************************)
BeginMerge ==
  /\ stage = "rotated" /\ guard = "free"
  /\ stage' = "merging" /\ guard' = "compaction"
  /\ merge' = [d \in Days |-> IF compacting[job][d] = Empty THEN "idle" ELSE "todo"]
  /\ UNCHANGED <<disk, session, paths, misplaced, job, rebuilding, doomed,
                 inserts, faults>>

\* A worker that failed has returned; the others go on taking days.
TakeDay(d) ==
  /\ stage = "merging" /\ merge[d] = "todo"
  /\ Cardinality(Busy \cup Failed) < Workers
  /\ merge' = [merge EXCEPT ![d] = "writing"]
  /\ UNCHANGED <<disk, session, paths, misplaced, job, stage, guard, rebuilding,
                 doomed, inserts, faults>>

\* Fault: the packets already in the partition are not read.
RenameEventsOverwriting(d) ==
  /\ stage = "merging" /\ merge[d] = "writing"
  /\ partition' = [partition EXCEPT ![d] = compacting[job][d]]
  /\ merge' = [merge EXCEPT ![d] = "renamed"]
  /\ UNCHANGED <<hot, compacting, sidecar, summarized, session, paths, misplaced,
                 job, stage, guard, rebuilding, doomed, inserts, faults>>

\* merge_packets_into_partition: both temporary files are complete; the first
\* rename replaces the partition by the merge of its packets and the file's.
RenameEvents(d) ==
  /\ stage = "merging" /\ merge[d] = "writing"
  /\ partition' = [partition EXCEPT ![d] = Plus(@, compacting[job][d])]
  /\ merge' = [merge EXCEPT ![d] = "renamed"]
  /\ UNCHANGED <<hot, compacting, sidecar, summarized, session, paths, misplaced,
                 job, stage, guard, rebuilding, doomed, inserts, faults>>

\* Fault: the visibility summary is never merged.
RenameSidecarOnly(d) ==
  /\ stage = "merging" /\ merge[d] = "renamed"
  /\ sidecar' = [sidecar EXCEPT ![d] = partition[d]]
  /\ merge' = [merge EXCEPT ![d] = "done"]
  /\ UNCHANGED <<hot, compacting, partition, summarized, session, paths, misplaced,
                 job, stage, guard, rebuilding, doomed, inserts, faults>>

RenameSidecar(d) ==
  /\ stage = "merging" /\ merge[d] = "renamed"
  /\ sidecar' = [sidecar EXCEPT ![d] = partition[d]]
  /\ merge' = [merge EXCEPT ![d] = "indexed"]
  /\ UNCHANGED <<hot, compacting, partition, summarized, session, paths, misplaced,
                 job, stage, guard, rebuilding, doomed, inserts, faults>>

\* merge_summary: one LMDB transaction over the whole merged partition.
MergeVisibility(d) ==
  /\ stage = "merging" /\ merge[d] = "indexed"
  /\ summarized' = summarized \cup partition[d].events
  /\ merge' = [merge EXCEPT ![d] = "done"]
  /\ UNCHANGED <<hot, compacting, partition, sidecar, session, paths, misplaced,
                 job, stage, guard, rebuilding, doomed, inserts, faults>>

\* Any of these steps may fail; what was done before it stays.
DayFails(d) ==
  /\ stage = "merging" /\ d \in Busy /\ Fault
  /\ merge' = [merge EXCEPT ![d] = "failed"]
  /\ UNCHANGED <<disk, session, paths, misplaced, job, stage, guard, rebuilding,
                 doomed, inserts>>

\* Reading the file back fails before any guard is taken.
ReadFails ==
  /\ stage = "rotated" /\ Fault
  /\ job' = NoFile /\ stage' = "none"
  /\ session' = IF session = "recovering" THEN "down" ELSE session
  /\ UNCHANGED <<disk, paths, misplaced, merge, guard, rebuilding, doomed, inserts>>

\* Every worker has returned Ok: the jobs are exhausted.
MergeSucceeds ==
  /\ stage = "merging" /\ Busy = {} /\ Todo = {} /\ Failed = {}
  /\ stage' = "merged" /\ guard' = "free" /\ merge' = AllIdle
  /\ UNCHANGED <<disk, session, paths, misplaced, job, rebuilding, doomed,
                 inserts, faults>>

\* Fault: the error path forgets the file, as the success path does.
MergeFailsDroppingPath ==
  /\ stage = "merging" /\ Busy = {} /\ Failed # {}
  /\ Todo = {} \/ Cardinality(Failed) = Workers
  /\ paths' = paths \ {job}
  /\ job' = NoFile /\ stage' = "none" /\ guard' = "free" /\ merge' = AllIdle
  /\ session' = IF session = "recovering" THEN "down" ELSE session
  /\ UNCHANGED <<disk, misplaced, rebuilding, doomed, inserts, faults>>

\* Fault: the guard outlives a failed compaction.
MergeFailsKeepingGuard ==
  /\ stage = "merging" /\ Busy = {} /\ Failed # {}
  /\ Todo = {} \/ Cardinality(Failed) = Workers
  /\ job' = NoFile /\ stage' = "none" /\ merge' = AllIdle
  /\ session' = IF session = "recovering" THEN "down" ELSE session
  /\ UNCHANGED <<disk, guard, paths, misplaced, rebuilding, doomed, inserts, faults>>

\* Every worker has returned, one of them Err: the file and its name stay
\* as they are.  In a running store that is the end of it until the next
\* open; inside open the error is open's result.
MergeFails ==
  /\ stage = "merging" /\ Busy = {} /\ Failed # {}
  /\ Todo = {} \/ Cardinality(Failed) = Workers
  /\ job' = NoFile /\ stage' = "none" /\ guard' = "free" /\ merge' = AllIdle
  /\ session' = IF session = "recovering" THEN "down" ELSE session
  /\ UNCHANGED <<disk, paths, misplaced, rebuilding, doomed, inserts, faults>>

\* run_one_compaction: the readers forget the file before it is removed.
DropPath ==
  /\ session = "up" /\ stage = "merged"
  /\ paths' = paths \ {job}
  /\ stage' = "unlisted"
  /\ UNCHANGED <<disk, session, misplaced, job, merge, guard, rebuilding, doomed,
                 inserts, faults>>

RemoveFile ==
  /\ session = "up" /\ stage = "unlisted"
  /\ compacting' = [compacting EXCEPT ![job] = EmptyFile]
  /\ job' = NoFile /\ stage' = "none"
  /\ UNCHANGED <<hot, partition, sidecar, summarized, session, paths, misplaced,
                 merge, guard, rebuilding, doomed, inserts, faults>>

\* A failed removal is only logged.
RemoveFileFails ==
  /\ session = "up" /\ stage = "unlisted" /\ Fault
  /\ job' = NoFile /\ stage' = "none"
  /\ UNCHANGED <<disk, session, paths, misplaced, merge, guard, rebuilding, doomed,
                 inserts>>

(***************************************************************************)
(* Opening: the storage lock and the hot file, then every compacting file  *)
(* found in the directory is compacted and removed, one after the other.   *)
(***************************************************************************)
Open ==
  /\ session = "down"
  /\ session' = "recovering"
  /\ UNCHANGED <<disk, paths, misplaced, job, stage, merge, guard, rebuilding,
                 doomed, inserts, faults>>

Recover(f) ==
  /\ session = "recovering" /\ job = NoFile /\ f \in OnDisk
  /\ job' = f /\ stage' = "rotated"
  /\ UNCHANGED <<disk, session, paths, misplaced, merge, guard, rebuilding,
                 doomed, inserts, faults>>

RemoveRecovered ==
  /\ session = "recovering" /\ stage = "merged"
  /\ compacting' = [compacting EXCEPT ![job] = EmptyFile]
  /\ job' = NoFile /\ stage' = "none"
  /\ UNCHANGED <<hot, partition, sidecar, summarized, session, paths, misplaced,
                 merge, guard, rebuilding, doomed, inserts, faults>>

RemoveRecoveredFails ==
  /\ session = "recovering" /\ stage = "merged" /\ Fault
  /\ session' = "down" /\ job' = NoFile /\ stage' = "none"
  /\ UNCHANGED <<disk, paths, misplaced, merge, guard, rebuilding, doomed, inserts>>

\* Fault: open does not look for the compacting files.
FinishOpenEarly ==
  /\ session = "recovering" /\ job = NoFile
  /\ session' = "up"
  /\ UNCHANGED <<disk, paths, misplaced, job, stage, merge, guard, rebuilding,
                 doomed, inserts, faults>>

FinishOpen ==
  /\ session = "recovering" /\ job = NoFile /\ OnDisk = {}
  /\ session' = "up"
  /\ UNCHANGED <<disk, paths, misplaced, job, stage, merge, guard, rebuilding,
                 doomed, inserts, faults>>

\* The process ends, at any step: the memory is gone, the disk is not.
Crash ==
  /\ session # "down" /\ Fault
  /\ session' = "down" /\ paths' = {} /\ misplaced' = {}
  /\ job' = NoFile /\ stage' = "none" /\ merge' = AllIdle
  /\ guard' = "free" /\ rebuilding' = NoDay /\ doomed' = {}
  /\ UNCHANGED <<disk, inserts>>

(***************************************************************************)
(* Sidecars outside a compaction: reindex() and a search query that finds  *)
(* a sidecar missing or unreadable rebuild it under the guard.  The query  *)
(* removes the unreadable one before that, without the guard.              *)
(***************************************************************************)
Rebuild(d) ==
  /\ session = "up" /\ guard = "free" /\ partition[d] # Empty
  /\ sidecar' = [sidecar EXCEPT ![d] = partition[d]]
  /\ guard' = "reindex" /\ rebuilding' = d
  /\ UNCHANGED <<hot, compacting, partition, summarized, session, paths, misplaced,
                 job, stage, merge, doomed, inserts, faults>>

FinishRebuild ==
  /\ rebuilding # NoDay
  /\ summarized' = summarized \cup partition[rebuilding].events
  /\ guard' = "free" /\ rebuilding' = NoDay
  /\ UNCHANGED <<hot, compacting, partition, sidecar, session, paths, misplaced,
                 job, stage, merge, doomed, inserts, faults>>

\* The merge of the metadata fails.  A rebuild that cannot read the partition or
\* write the sidecar has changed no file: it is a step that does nothing.
RebuildFails ==
  /\ rebuilding # NoDay /\ Fault
  /\ guard' = "free" /\ rebuilding' = NoDay
  /\ UNCHANGED <<disk, session, paths, misplaced, job, stage, merge, doomed, inserts>>

FindUnreadable(d) ==
  /\ session = "up" /\ sidecar[d] # NoSidecar /\ ~IsCurrent(d)
  /\ doomed' = doomed \cup {d}
  /\ UNCHANGED <<disk, session, paths, misplaced, job, stage, merge, guard,
                 rebuilding, inserts, faults>>

RemoveSidecar(d) ==
  /\ d \in doomed
  /\ doomed' = doomed \ {d}
  /\ sidecar' = [sidecar EXCEPT ![d] = NoSidecar]
  /\ UNCHANGED <<hot, compacting, partition, summarized, session, paths, misplaced,
                 job, stage, merge, guard, rebuilding, inserts, faults>>

-----------------------------------------------------------------------------
MergeStep ==
  \/ BeginMerge
  \/ \E d \in Days : \/ TakeDay(d) \/ RenameEvents(d) \/ RenameSidecar(d)
                     \/ MergeVisibility(d) \/ DayFails(d)
  \/ ReadFails \/ MergeSucceeds \/ MergeFails

OpenStep ==
  \/ Open \/ RemoveRecovered \/ RemoveRecoveredFails \/ FinishOpen
  \/ \E f \in Files : Recover(f)

RunStep ==
  \/ \E e \in Events : Append(e)
  \/ Rotate \/ RotateFails \/ DropPath \/ RemoveFile \/ RemoveFileFails

SidecarStep ==
  \/ \E d \in Days : Rebuild(d) \/ FindUnreadable(d) \/ RemoveSidecar(d)
  \/ FinishRebuild \/ RebuildFails

Next == MergeStep \/ OpenStep \/ RunStep \/ SidecarStep \/ Crash

Spec == Init /\ [][Next]_vars

\* The owner opens the store again after a crash, and every thread that has
\* something to do goes on: nothing else is assumed.  Appending, rotating,
\* rebuilding and failing are never obliged to happen.  A compaction that
\* waits for the guard gets it however often readers rebuild sidecars: that
\* is what SidecarQueue shows, and the strong fairness of BeginMerge says it.
FairSpec ==
  /\ Spec
  /\ WF_vars(Open) /\ WF_vars(FinishOpen) /\ WF_vars(RemoveRecovered)
  /\ \A f \in Files : WF_vars(Recover(f))
  /\ SF_vars(BeginMerge) /\ WF_vars(MergeSucceeds) /\ WF_vars(MergeFails)
  /\ \A d \in Days : WF_vars(TakeDay(d) \/ RenameEvents(d) \/ RenameSidecar(d)
                              \/ MergeVisibility(d))
  /\ WF_vars(DropPath) /\ WF_vars(RemoveFile) /\ WF_vars(FinishRebuild)

-----------------------------------------------------------------------------
(***************************************************************************)
(* Properties.                                                             *)
(***************************************************************************)

\* Types, and the two facts that hold the memory together: a compaction has a
\* file exactly while it has a stage, and days are merged only in "merging".
TypeOK ==
  /\ hot \in [Days -> Content] /\ compacting \in [Files -> [Days -> Content]]
  /\ partition \in [Days -> Content]
  /\ sidecar \in [Days -> Content \cup {NoSidecar}]
  /\ summarized \subseteq Events
  /\ session \in {"down", "recovering", "up"}
  /\ paths \subseteq Files /\ misplaced \subseteq Files
  /\ job \in Files \cup {NoFile}
  /\ stage \in {"none", "rotated", "merging", "merged", "unlisted"}
  /\ merge \in [Days -> Phases]
  /\ guard \in {"free", "compaction", "reindex"}
  /\ rebuilding \in Days \cup {NoDay} /\ doomed \subseteq Days
  /\ inserts \in Nat /\ faults \in Nat
  /\ (stage = "none") <=> (job = NoFile)
  /\ (guard = "compaction") <=> (stage = "merging")
  /\ (guard = "reindex") <=> (rebuilding # NoDay)

\* While the store is up, a reader that looks at hot.events, the listed
\* compacting files and the partitions finds every event there is on disk;
\* only a rotation that failed half way hides a file, until the next open.
\* hot_snapshot() and the queries rely on it at every step of a compaction,
\* failed ones and removals that failed included.
NothingHidden ==
  session = "up" =>
    \A e \in Durable : \/ e \in Readable
                       \/ \E f \in misplaced : Holds(compacting[f], e)

\* A sidecar that passes the length test describes the partition beside it:
\* queries and the non-forced reindex trust that test alone, whatever crash,
\* failed rename or repeated merge came before.
SidecarTrusted ==
  \A d \in Days : IsCurrent(d) => sidecar[d] = partition[d]

\* An event of a partition that the visibility LMDB does not know yet is still
\* in a compacting file, so the next open merges it again: a crash or an error
\* between the rename of the events and merge_summary() leaves nothing that
\* only a forced reindex would repair.
VisibilityRecoverable ==
  \A d \in Days : \A e \in partition[d].events \ summarized :
     \E f \in Files : e \in compacting[f][d].events

\* The inductive invariant behind the properties above.  A content without
\* packets has no events; the phase of a day tells what is already in its
\* partition and in the LMDB; a file that is on disk while the store is up and
\* that readers cannot see any more is wholly in the partitions; and a sidecar
\* is never longer than its partition, which only grows.
WellFormed(file) == \A d \in Days : file[d].packets = 0 => file[d] = Empty

FilesInv == WellFormed(hot) /\ \A f \in Files : WellFormed(compacting[f])

Merged(f, d)  == compacting[f][d].events \subseteq partition[d].events
Indexed(f, d) == Merged(f, d) /\ compacting[f][d].events \subseteq summarized

MergeInv ==
  /\ stage = "merging" =>
       \A d \in Days :
         /\ (merge[d] = "idle") <=> (compacting[job][d] = Empty)
         /\ merge[d] \in {"renamed", "indexed"} => Merged(job, d)
         /\ merge[d] = "done" => Indexed(job, d)
  /\ stage \in {"merged", "unlisted"} => \A d \in Days : Indexed(job, d)

PathInv ==
  session = "up" =>
    \A f \in Files \ (paths \cup misplaced) : \A d \in Days : Merged(f, d)

SidecarInv ==
  \A d \in Days :
    sidecar[d] # NoSidecar => /\ sidecar[d].packets <= partition[d].packets
                              /\ (IsCurrent(d) => sidecar[d] = partition[d])

IndInv == TypeOK /\ FilesInv /\ MergeInv /\ PathInv /\ SidecarInv /\ VisibilityRecoverable

\* As long as nothing has failed, every append is in exactly one place: in
\* hot.events, in the part of the compacting file that is still to be merged,
\* or in a partition.  (After a fault a merge may be repeated, and partitions
\* then hold copies, which the queries skip.)
Unmerged(d) == \/ stage = "rotated"
               \/ stage = "merging" /\ merge[d] \in {"todo", "writing"}
ToMerge == [d \in Days |-> IF Unmerged(d) THEN compacting[job][d] ELSE Empty]

ExactlyOnce ==
  faults = 0 => inserts = Packets(hot) + Packets(partition) + Packets(ToMerge)

\* What makes that inductive: as long as nothing has failed, no day has, and
\* the only compacting file on disk is the one of the running compaction.
OnceInv ==
  /\ ExactlyOnce
  /\ faults = 0 => Failed = {} /\ OnDisk \subseteq {job}

\* The files implement the durable log: every step of the store either stores
\* one event or leaves the set of events on disk alone.
DL == INSTANCE DurableLog WITH stored <- Durable, serving <- session = "up"
ImplementsDurableLog == DL!Spec

\* An event left in a compacting file by the end of a process reaches the
\* partition of its day, however many of the following opens fail.
OrphansAreMerged ==
  \A e \in Events :
    (session = "down" /\ \E f \in Files : Holds(compacting[f], e)) ~> Holds(partition, e)

\* A compaction that has begun ends, well or badly: neither a failed worker
\* nor readers that rebuild sidecars leave it waiting for the guard for ever.
CompactionEnds == \A f \in Files : (job = f) ~> (job # f)
=============================================================================
