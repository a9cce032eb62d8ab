# searchnos-db in TLA+

A verification project for the storage engine and the live subscriptions of
searchnos-db: TLA+ modules translated from the Rust source, TLC configurations
that check them on small instances, and TLAPS proofs for every value of the
constants. Paths below are relative to `src/src/` unless they name the
repository's `README.md`.

1. [Inventory](#1-inventory-of-the-system)
2. [Modules](#2-modules-and-how-they-correspond-to-the-code)
3. [Runs](#3-runs-bounds-and-what-they-show)
4. [Fairness](#4-fairness)
5. [Proofs](#5-proofs)
6. [Disagreements](#6-where-code-and-documentation-disagree)
7. [Not modelled](#7-what-is-not-modelled)
8. [Plan](#8-plan)

Checking by hand, inside `tla/`:

    tlc -config MCEventStore.cfg MCEventStore.tla
    tlapm EventStoreProofs.tla

## 1. Inventory of the system

Events are appended to `hot.events`. When it is too long it is renamed to a
*compacting file*, and a *compaction* merges that file into one partition per
day, each with a search sidecar; deletions and replaceable winners go to a
visibility LMDB. Queries read hot file, compacting files and partitions.
Subscribers get a snapshot query and then live events through a bounded channel.

    insert --> append_packet --> hot.events --rotate--> compacting file --merge--> partition, sidecar, LMDB
       |            ^ state lock                             ^ sidecar guard            ^ sidecar guard
       |            |                                        |                          |
       |            +---- hot_snapshot <---- queries ---- read in this order -----------+---- reindex, repairs
       +--> broadcast --> channels <-- snapshot workers <-- dispatcher <-- subscribe

| Component | State | Operations | Hard behaviours | What makes it correct |
|---|---|---|---|---|
| Hot file (`storage/hot.rs`, `event.rs`, `partition.rs`) | `hot.events`, its search index, `compacting_paths`, the state lock | `append_packet`, `compact`, open and recovery | crash between any two system calls, failed rotation, detached compaction thread | no accepted event is lost or hidden; what a crash left is merged at the next open |
| Compaction (`storage/compaction.rs`) | one job, one worker per day, `compact_running`, `compact_pending` | rotate, merge a day, remove the file, hand over | hand-over of ownership between threads, partial failure among days | one owner; the files implement an append-only log; nothing stays oversized |
| Sidecar queue (`storage/sidecar_queue.rs`) | `active`, `pending_compactions`, a condition variable | `acquire_compaction`, `acquire_reindex`, drop of the guard | spurious and lost wakeups, priority | mutual exclusion, no thread forgotten, compactions first |
| Reindex (`storage/reindex*.rs`) | the guard while it rebuilds | rebuild a sidecar and its visibility | runs beside compactions and queries | leaves a sidecar that describes its partition |
| Search sidecars (`storage/search.rs`, `text.rs`) | `<day>.search` | build, test for currency, bloom test, read | stale after a crash, replaced between two reads | a sidecar that is trusted is right; no false negatives |
| Visibility (`storage/visibility.rs`) | LMDB tables of deletions and winners | merge a summary, is_visible | three indexes that learn at different times | hides exactly what is deleted or superseded |
| Streaming query (`streaming_query.rs`, `cursor.rs`, `query.rs`) | cursors, limits, emitted ids | snapshot, scan or search each day, repair sidecars | files move while they are read | everything readable at the call is found, once, in order |
| Batched query (`batched_query.rs`) | the same for many requests | one pass for all requests | requests end while it runs | the same answer as independent queries |
| Negentropy (`hot.rs:408`) | none | collect a day's ids | files move while they are read | all ids of the day |
| Subscriptions (`db/subscription.rs`, `db/mod.rs`) | table of entries, bounded channels | subscribe, insert and broadcast, drop | insert beside subscribe, full channel | no gap between snapshot and live events |
| Snapshot batcher (`db/snapshot_batch.rs`) | dispatcher queue, batches, idle workers | enqueue, dispatch, process, shut down | worker accounting, failed batch, shutdown with requests queued | every request answered or ended |
| Database facade (`db/mod.rs`) | the parts above | insert, query, open, drop | a client's filters are checked and given limits | calls reach the storage as the client meant them |
| Dump and load (`db/mod.rs`, `cmd/`) | the position in a dump | dump, load | load fails half way, beside everything else | exactly a prefix is inserted; what is announced is stored |
| Filters, notes, CLI (`nostr/`, `ndb_ext.rs`, `cmd/`, `main.rs`) | none | parsing, matching, printing | | pure or plain input and output |
| Purge policy (`db/purge_policy.rs`) | none | parser, unused | | |

`PROJECT.json` lists under "hazards" each hazard at its line, with the property
that covers it or the reason why none does.

## 2. Modules and how they correspond to the code

`PROJECT.json` maps every definition to its lines. A definition whose comment
begins with "Fault:" is not part of any specification: it is a faulty version
of the definition beside it, kept to show that a property notices the fault.

**DurableLog** is the abstract specification: a set `stored` that grows by one
accepted event at a time while the store is `serving`, and that nothing else
changes.

**EventStore** holds the files and the steps between them. `hot`,
`compacting`, `partition`, `sidecar`, `summarized` are the disk (`summarized`
is the set of events whose metadata is in the LMDB); `paths`, `job`, `stage`,
`merge`, `guard`, `rebuilding`, `doomed` are the memory of `HotEvents` and of
the running compaction, and a `Crash` clears them at any step. A file is
abstracted to what it holds for each day, as a set of events and a number of
packets: the number is what the currency test of a sidecar compares (the byte
length in the code), and what repeated merges raise. Each disk effect is an
action: `RenameEvents`, `RenameSidecar` and `MergeVisibility` are the three
effects of `merge_packets_into_partition`; the work before the first rename
touches only temporary files and has no action. `Append` and `Rotate` are one
step because they run under the state lock that every reader of the hot file
takes. `DayFails`, `ReadFails`, `RotateFails`, `RemoveFileFails`,
`RemoveRecoveredFails` and `RebuildFails` are the error paths; a failed
recovery fails the open. `misplaced` is a history variable: the files that a
rotation renamed and, failing, did not list.

**CompactionScheduler** says who compacts. Appenders, callers of `compact()`
and spawned threads pass `compact_running` and `compact_pending` to one
another, one atomic access per step; `lock` is the state lock while an append
decides about a file that is too long. EventStore assumes that one compaction
runs at a time, and `OneOwner` is that assumption, proved here.

**SidecarQueue** is `SidecarUpdateQueue`: a mutex that nobody keeps between
steps, a condition variable with spurious wakeups, and the counter that lets
waiting compactions go first. EventStore's `guard` is this queue's guard.

**StoreReaders** extends EventStore with one reader: `query_streaming` without
and with search terms, `query_streaming_batch` with one query of each kind, and
`negentropy_items_for_unix_day`. The two queries of a batch share the reading of
a partition: the one without a search scans a partition that the search leaves
out, and otherwise reads what the index lists. Each read of a file
is a step, and everything of EventStore goes on between two of them (`Beside`),
except what the state lock or the sidecar guard the reader holds excludes.
Other readers and reindexes are EventStore's `Rebuild`, `FindUnreadable` and
`RemoveSidecar`. `promised` remembers what was readable at the call, `excuse`
why a search left something out (in a batch there may be several reasons).

**Subscriptions** is the subscription table, the broadcast of an insert (one
thread per event; an insert may also be told not to notify, or fail after it has
stored its event, and then nobody is told), the dispatcher and the snapshot workers. A channel is its
length (`backlog`) and the set of items ever put into it (`sent`). A worker's
query finds at least what was stored when it began, which is what
`QueryComplete` says of a query, and may find more. `asOf` remembers what was
stored when `subscribe()` registered the channel.

**Visibility** is `visibility.rs` as operators: replaceable keys, what a
deletion names, summaries, the index of the hot packets, the LMDB store and the
merge of a summary into it. Notes are numbers whose order is that of their ids;
tags are sequences, so that the look for the first "d" tag, tags without values
and values that are too long can be told apart.

**SearchIndex** is the search index as operators on texts, which are sequences
of characters: extending and building it, the grams of its Bloom filter, and the
three ways to search - the hot file's in the joined text (`Candidates`), the
partition's record by record (`RecordsMatching`) and the test of one text
(`TextMatches`). A Bloom filter is the set of grams in it; what it admits by
accident costs a reader time and changes no answer.

**HotFile** is `hot.events` packet by packet with its index in memory, and what
becomes of both: a file is a sequence of whole packets and of parts of packets
whose write was cut short, in the length or in the data. `ReadFile` is
`read_event_packets`, which ends at a length that the end of the file cuts short
and fails at everything else that is cut short. A compaction is one step here,
with one day and one compacting file; its steps are EventStore's. Sessions may
have other searchable kinds (`KindSets`), so that a sidecar is met by a session
that it was not written for.

**Loading** extends it with `load_events`: the batches of a dump, bad records, a
dump that is cut short, records that the storage refuses or stores and refuses
nevertheless, and a second load of the same dump, beside everything that HotFile
does.

**Queries** extends Visibility with what a client's filters become
(`Understood`, `Normalize`, `EffectiveLimit`) and with what `query_streaming` and `query_streaming_batch`
answer in one state of the files: filters, the days they read, the merge of the
cursors with limits that run on from day to day, and `emit_candidate` with
receivers that fail (`room`). A receiver that closes between two days, which
ends its query as a failed send does, is not told apart.

**VisibleEvents** is the state machine around them: notes arrive in any order
and more than once, a compaction renames and merges day by day. It is
EventStore with contents and without faults, and one compacting file at a time.

The composition is: StoreReaders extends EventStore; EventStore implements
DurableLog (`DL`); EventStore takes from CompactionScheduler that there is one
compaction and from SidecarQueue that the guard excludes and is served;
Subscriptions takes from StoreReaders that a query is complete; Loading extends
HotFile, which extends SearchIndex and takes its steps from EventStore;
VisibleEvents extends Queries, which extends Visibility, and takes its steps
from EventStore.

## 3. Runs, bounds and what they show

| Run | Instance | Shows |
|---|---|---|
| `event_store` | 3 events on 2 days, 2 file names, 2 workers, 3 appends, 2 faults, rotation after 1 packet | `TypeOK`, `IndInv`, `NothingHidden`, `SidecarTrusted`, `VisibilityRecoverable`, `ExactlyOnce`, refinement of DurableLog; orphaned files are merged; compactions end |
| `scheduler` | 2 appenders, 1 caller of `compact()`, 3 spawned threads, rotations may fail, traffic goes on | one owner; the hot file keeps being rotated; `compact()` returns |
| `scheduler_stranded` | 1 appender, 2 spawned threads | violation, see section 6 |
| `sidecar_queue` | 1 compaction, 3 reindexes | exclusion, no lost wakeup, priority, service |
| `readers` | 2 events on 1 day, 2 files, 1 fault | queries and batches are complete; a search leaves nothing out without a reason |
| `readers_search`, `readers_negentropy` | the same, no faults | violations, see section 6 |
| `subscriptions` | 2 events, 2 subscriptions, 1 worker, or 4 subscriptions, 2 workers and no event; capacity 1 | EOSE after the snapshot; no gap; worker accounting; shutdown settles every request; nobody forgotten; the invariants `DeliveryInv` and `QueueInv` |
| `hot_file` | 2 packets, 2 pieces in the file, 1 of them cut short, 2 sets of searchable kinds, 3 queries, 2 loads of a dump of 3 records in batches of 2 | nothing is lost without an error; the index is that of the file; searches find what has the terms; a load inserts a prefix |
| `hot_search_batch` | the same | violation, see section 6 |
| `visible_events` | 5 notes of one author on 2 days, 7 queries, 2 of them rejected, one note resent | searches are exact; limits; batched as alone |
| `visible_events_late` | the same | violation, see section 6 |

Why the bounds are enough to meet the interesting cases:

- Three events, two of them on one day, give a partition that is merged twice
  and a compaction of two days that fails in one and succeeds in the other; two
  workers let both days be in progress. Two faults give a crash during the
  recovery from a crash, and a repeated merge after a failed removal. With two
  file names an orphan, or a file whose rotation or merge failed, stands beside
  the one being compacted; the theorems hold for any number of names.
- `MaxInserts`, `MaxFaults` and `HotCap` cap counters that the code does not
  bound; they appear in guards only. `HotCap` is above `MaxHot`, so lengths are
  told apart where the code compares them.
- One day is enough for the reader: partitions are read one by one, and nothing
  moves between days. Two events on it give a partition that is replaced while
  it is searched.
- The sidecar queue has one compaction because there never are two.
- A channel of capacity 1 is full after any item, so every order of snapshot
  and live sends meets a full channel. Two events are needed for a snapshot to
  find it full of another event. The fourth request is the first that waits in
  a ready batch when there are two workers; events do not matter to the
  dispatcher, so the four come without any. With two subscriptions the two
  inserts follow one another, and they overlap while there is one subscription;
  the theorems hold for all of them together.
- The text of the first packet ends as that of the second begins and has words
  of one character, so a term occurs inside a record, across two and as a word
  of its own; the second packet has no text for one of the sets of kinds. Two
  pieces let a packet stand behind one that is cut short, and the file that is
  compacted adds two more. The dump has a batch and a rest, with a bad record.
- The five notes are two versions with the same time, two of an addressable
  key on different days, and a deletion of an id and an address. The filters have a limit that is used up on the first
  day, one that is used up between days, an overlap of two filters, and a
  `since` inside a day, a tag, ids, and a limit beyond the largest; no filter at
  all, a filter with an unknown field and one with a tag that is no list are
  asked too. Every order of arrival is explored.

What the main properties say:

- `NothingHidden`: while the store is up, whoever reads hot file, listed
  compacting files and partitions sees every event on disk, at every step of
  every compaction, failed ones included, save the file of a rotation that
  failed half way (which the next open recovers: `OrphansAreMerged`).
- `ImplementsDurableLog`: nothing but an append changes the set of events on
  disk. `ExactlyOnce` adds that without faults no packet is copied.
- `SidecarTrusted`: the length test, the only one on which queries and the
  non-forced reindex rely, never accepts a sidecar of another content.
  `VisibilityRecoverable`: metadata that is behind is behind for events that
  recovery will merge again.
- `QueryComplete`, `SearchAccounted`: a reader that takes no lock across its
  reads still finds all that was readable when it began, because it looks where
  events come from before it looks where they go. A search may miss more in two
  cases: it left a partition out with a warning, after a repair that failed or did
  not help, or it followed an index into a partition that was replaced between the
  reading of the one and the opening of the other, which the code does not notice.
  These are excepted, not held against it (`excuse`).
- `NoSilentLoss`: a packet whose append returned Ok is among those that are
  read, or the reading fails; `IndexMatchesFile`: the hot index numbers the
  packets as the file does, whatever writes failed between.
- `HotSearchAccounted`: a search of the hot file yields no packet without the
  terms, and misses one only if a term also occurs across the beginning of its
  record (section 6). `PartitionSearchExact`: a partition's search yields exactly
  the packets with the terms, Bloom filter included, unless a term has a single
  character, which the filter knows only as a word of its own.
- `LoadAccounted`, `AnnouncedIsStored`: however a load ends, what it has
  inserted is a prefix of the dump without its bad records, and what it announced
  can be queried, also after a crash.
- `SnapshotBeforeEose`, `NoGap`: EOSE means the snapshot is complete, and a
  subscription still in the table has every event whose insert was to notify
  subscribers and has returned Ok. An event stored without notification, or by an
  insert that failed after storing it, is owed only to snapshots that are taken
  later.
- `ShutdownSettles`, `WorkersAccounted`, `NobodyForgotten`: no request is left
  behind by a busy pool, a failed query or a shutdown: when every thread is at
  rest, a subscription still in the table has had its EOSE.
- `SearchExact`: a search answers the notes that are neither deleted nor
  superseded, at every step of every compaction. The reference, `Visible`, is
  defined note by note from what deletes and supersedes what, without winners
  or summaries. Notes that arrive after one that hides them was merged are
  excepted, with their key, until they are merged (`Disturbed`).
- `PlainFollowsCompaction`: a query without a search shows every matching note
  of the hot and the compacting file, hidden or not, and of the partitions what
  nothing merged hides: it misses no visible note, and an old version disappears
  when it and what hides it have both been compacted.
- `LimitsNewest`, `BatchAgrees`: the loops over days and filters with their
  running limits answer the newest of each filter, once, in order; the one pass
  for many queries gives each the answer it would have alone, cut off where its
  receiver fails.

Runs with CHECK_DEADLOCK FALSE are those in which the system may stop: the
bounds on appends, faults, loads and subscriptions are used up, or the database
is closed. The scheduler and the queue run with deadlock checking.

## 4. Fairness

Fairness is assumed for threads that have begun something, never for callers.

- EventStore: the owner opens the store again, and open, merge and removal go
  on. Appending, rotating, rebuilding and failing are never obliged to happen.
  `BeginMerge` is strongly fair because the guard it waits for gives
  compactions priority: that is `CompactionServed` of SidecarQueue.
- CompactionScheduler: weak fairness for each thread; strong fairness where a
  thread waits for the state lock (the mutex is granted eventually) and where
  it spawns a thread (the program never waits for one, only the finite set
  `Runners` does). `scheduler` adds, in `TrafficSpec`, that appends keep
  coming; `OversizedIsRotated` shows what happens without that.
- SidecarQueue: a woken thread gets the mutex, and work under the guard ends.
  No spurious wakeup is ever relied upon.

## 5. Proofs

Every safety property that a passing run checks is also proved by TLAPS, for
all values of the constants that satisfy the named assumptions of the modules:

- sets of threads are disjoint, those of the sidecar queue finite; markers lie
  outside the sets they mark; `DayOf` is a function; `Workers`, `NWorkers`,
  `Capacity`, `LoadBatch` and `SecondsPerDay` are positive; other bounds, and
  the `since`, `until` and `limit` of a filter, are numbers, and limits do not
  exceed `NoLimit` (a `usize`);
- there are finitely many days, and they are numbers where readers go through
  them (`created_at` is a `u64`);
- a dump is a finite sequence of packets and bad records; a text is a sequence
  of characters; a term is one without spaces and not empty, as `search_terms`
  splits a query; there are finitely many notes, with ids and times that are
  numbers.

The inductive invariants `IndInv`, `OnceInv`, `ReaderInv`, `DeliveryInv`,
`QueueInv`, `StoreInv`, and `IndexInv` with `SidecarInv`, were checked by TLC on
the instances of section 3 before they were proved; some of them the runs still
check.

**EventStoreProofs.** `TypeCorrect` (types, and the coherence of job, stage and
guard), then `Inductive`: `IndInv` is an inductive invariant. `NothingHidden`
is not inductive: that a reader may forget a file (`DropPath`) rests on its
days being merged, which rests on the phase of each day's merge. So `IndInv`
says what each phase has made durable (`MergeInv`), that a file on disk which no
reader can see is wholly in the partitions (`PathInv`), that a sidecar is never
longer than its partition, and equal to it if as long (`SidecarInv`),
that a content without packets is empty (`FilesInv`), and
`VisibilityRecoverable`, which is a conjunct because it is inductive only with
`MergeInv`. From it follow `HidesNothing`, `TrustsSidecars` and
`RecoversVisibility`. `Implements` proves the refinement of DurableLog under
`stored <- Durable`: every action but `Append` leaves the set of events on disk
alone, for which removing a file needs `MergeInv` again. `StoresExactlyOnce`
adds to `IndInv` that without faults the job's file is the only compacting file
on disk (`OnceInv`). It counts packets: the sum over the days is unfolded, a step
that changes one day changes the sum by as much, and a rotation, which changes
them all, is dealt with day by day, by induction on the finite set of days.

**StoreReadersProofs.** `ReaderInductive`: `ReaderInv` is inductive with
`IndInv`. It says, for each place at which the reader may be, where an event is
that was readable at the call and has not been seen: while the lock is held, in
a listed file that is still to be read or in a partition (`SnapshotInv`); while
partitions are read, in one that is still to be read (`ScanInv`). That an event
leaves a file only after its partition has it is `MergeInv`, so the proof for a
step of the store uses the invariant of EventStore. `QueriesComplete` and
`SearchesAccounted` follow, and `ReadersImplement`: what readers do to the files,
removing and rebuilding sidecars, leaves the durable log as it is. Negentropy
reads in the other direction and is excepted in the invariant as it is in the
property (section 6).

**CompactionSchedulerProofs.** `TypeCorrect` and `OneOwnerAlways`. `OneOwner`
with `TypeOK` is inductive: each step takes the flag when nobody owns, passes
ownership to one spawned thread, or gives both up.

**SidecarQueueProofs.** `TypeCorrect` (the counter is the number of waiting
compactions), `Excludes`, `ForgetsNobody` and, as an action property,
`NeverOvertaken`, for any finite numbers of threads.

**SubscriptionsProofs.** `Delivers`: `DeliveryInv` is inductive. `NoGap` needs
to know of a notifying insert under way what it still owes (`InsertInv`), and
`SnapshotBeforeEose` what an active request has been sent and what its query
must find (`SnapshotInv`). `EoseComesLast` and `LeavesNoGap` follow. `Queues`:
`QueueInv` is inductive with `DeliveryInv`. Each worker is in one place - in the
idle queue, announced in the inbox, or at work - and a worker is idle only while
no request waits (`PoolInv`); nothing is asked behind a shutdown, and a
dispatcher that has ended leaves no request behind (`ClosingInv`); what is owed to
a subscription in the table is in the inbox, among the pending ones, in a ready
batch or with a worker (`OwedInv`). `TypeCorrect`, `NoWorkerLost`,
`NobodyLeftWaiting` and `Settles` follow. That no request is lost when pending
ones are split into batches is a lemma about the splitting.

**VisibleEventsProofs.** `MergesAsOne`: merging the summary of one set of notes
into that of another gives the summary of both, whatever the sets, and so
whatever order notes arrive and are merged in. Hence `StoreIsASummary`: the
LMDB is always the summary of the merged notes, but for some that the running
compaction has renamed and not yet merged (`StoreInv`). `SearchesExact` and
`PlainFollows` follow by relating a summary to what supersedes and deletes
a note. `OrderForgotten` says more than a run does: with nothing to compact, no
note is disturbed and a search shows exactly the visible ones.

`LimitsAreNewest` is about the loop over the days. Its invariant: after each day
a query's remaining limits, emitted ids and answer are what they would be had it
met all notes so far at once. It rests on the order of notes being strict and
total, so that "the newest `k`" of a set is those with fewer than `k` before them
(`NoteRanks`), and on the days being met newest first. `BatchesAgree` is about
the one pass for all queries, in which a query may end because its limits are
used up or its receiver fails while others go on. `PassedIs` and `PassStep` give
each query's state after any number of candidates in closed form, and it mentions
no other query; at the end it is the answer that the query has alone, cut off
after `room` events.

**LoadingProofs.** Over `LoadSpec`, so beside appends, failing writes,
compactions, crashes and restarts: `TypeCorrect`, `LosesNothingSilently`,
`AnnouncedStaysStored` and `LoadsAPrefix`. `NoSilentLoss` speaks of what a
reader gets from the files and is not inductive, since a file that was an error
is not merged: `FilesInv` says instead that every accepted packet is somewhere
in the pieces of a file or in the partition, and the lemma `ReadsAll` that a
file that can be read gives all its packets. `LoadInv` relates the place of the
load in its batch to what it has announced, and says that as long as a dump
with a cut is read the batches are whole, which is what `LoadsAPrefix` needs for
the end at the cut.

**SearchProofs.** The search index, beside all that HotFile and Loading do, with
the invariant of LoadingProofs. `Represents` says what an index has to be for
given texts; extending it packet by packet and building it at once both give one
that is (`IndexInv` for the hot file, `SidecarInv` for the sidecar, which one of
the two has made). `IndexCorrect` follows, and `PartitionSearchesExact`, where
the Bloom filter must be shown to have every gram of every term that occurs.
`HotSearchesAccounted` is about `find_iter` over the joined texts, which goes on
behind each occurrence: the occurrence that hides one inside a record must
itself overlap it, so it begins before the record, which is the exception that
the property states.

Induction. The library's induction theorems take an operator as a parameter,
which no installed prover can instantiate, so they are not used. Loops are
written as recursive functions, or as folds whose defining function is expanded,
and what they compute is proved from the well-foundedness of the natural numbers
and of the finite subsets (`WFMin`), applied to the *set* of the places at which a
claim fails (`Least`, `Induction`, `Recursion`, `First`, `DayByDay`).

Only model-checked: liveness - `OrphansAreMerged`, `CompactionEnds`,
`CompactReturns`, `KeepsRotating` and `CompactionServed`. They rest on fairness,
and so on ENABLED, which the prover does not handle.

## 6. Where code and documentation disagree

- **An oversized hot file may stay** (`scheduler_stranded`). An append finds
  `compact_running` set (`hot.rs:182`) and sets `compact_pending` (`hot.rs:195`)
  after the owner has looked at it for the last time (`compaction.rs:86`). The
  file is rotated only when another event arrives, while the repository's
  `README.md:34` says it is when the size is exceeded.
- **A rebuilt sidecar is not always used** (`readers_search`). Two searches
  that find the same sidecar unreadable both remove it and rebuild it; the
  removal (`streaming_query.rs:145`) is not guarded, so one may remove what the
  other has rebuilt, which then skips the partition. `README.md:36` says the
  rebuilt sidecar is used in the same query when repair succeeds.
- **Negentropy may miss an event** (`readers_negentropy`). The partition is
  read before the hot snapshot (`hot.rs:413`, `:417`), against the direction in
  which a compaction moves events.
- **What arrives late is shown** (`visible_events_late`). Hot packets are tested
  against the index of the hot packets alone (`streaming_query.rs:54`,
  `batched_query.rs:597`), so an event that arrives after the deletion or the
  newer version that hides it was compacted is found by searches until it is
  compacted too, while `README.md:14` says that queries hide it. `SearchExact`
  says how far this goes: the event's own key, and no longer.

- **The two queries search the hot file differently** (`hot_search_batch`). The
  streaming query searches the joined text of all hot records, going on behind
  each occurrence (`search.rs:587`), and drops an occurrence that reaches into
  the next record. With the texts "b a" and "aa" and the term "aa", the
  occurrence across the two hides the one in the second record, which is not
  found until it is compacted. The batched query finds it
  (`batched_query.rs:454`). `storage/tests.rs:333` says that the two agree.

Met while modelling, without a run of its own: the streaming scan of a
partition asks the visibility store for filters without a search too
(`streaming_query.rs:201`), so such a filter shows old versions of replaceable
events while they are hot, as `storage/tests.rs:498` expects, and not after
they were compacted; the batched query always shows them (`batched_query.rs:590`).
`BatchAgrees` therefore compares searches only. In a batch with a search, a
query without one reads the packets that the search's index lists; if a merge
replaces the partition between the reading of the index and the opening of the
file, it too may miss packets (`batched_query.rs:212-232`), while alone it would
not. `QueryComplete` excepts that case by name. A term of a single character is
found inside a word while the packet is hot and by live subscriptions, and not in
a partition whose Bloom filter lacks it as a word (`search.rs:746`).

`README.md:36` also says that opening storage runs a non-forced reindex; open
(`hot.rs:80-130`) does not call it. It is listed as a hazard: nothing modelled
depends on it, since searches repair sidecars themselves.

## 7. What is not modelled

- Bytes: a file is read as pieces, so a part of a packet that lacks exactly as
  many bytes as the packets behind it have is not told from a packet; the format
  of sidecars and its validation. A crash is the end of the process; loss of
  power, where completed writes may vanish (the hot file is not synced), is not
  considered.
- How a note becomes a normalized text, hash collisions of the Bloom filter, the
  byte format of LMDB keys. The queries of VisibleEvents take terms as sets.
- Queries' answers while files move under them: StoreReaders has the moving
  files without contents, VisibleEvents the contents in one state.
- A failure to open `hot.events` anew after the rename of a rotation; and the
  detached compaction thread that outlives the drop of the storage.
- An append whose packet was written and whose text could then not be added to
  the index in memory (`hot.rs:175-179`): the note has been decoded before.
- In Subscriptions, a rotation that fails half way and hides stored events from
  the queries until the next open: that exception is EventStore's
  (`NothingHidden`) and StoreReaders' (`Misplaced`).
- Panics, poisoned locks, and the paths that only they reach (a dispatcher
  whose worker is gone, `subscribe()` after the dispatcher ended).
- Statistics, progress callbacks, logging, the command line, parsing, the
  unused purge policy.

## 8. Plan

Built so far: DurableLog, EventStore, CompactionScheduler, SidecarQueue,
StoreReaders, Subscriptions, Visibility, Queries, VisibleEvents, SearchIndex,
HotFile, Loading, and the proofs above: the core of the storage first, because
every other promise rests on it.

Next, in this order:

1. Theorems that join modules: that VisibleEvents takes the steps of EventStore
   (a refinement with the notes as events), and that what EventStore and
   Subscriptions assume of CompactionScheduler, SidecarQueue and StoreReaders is
   what those prove.
2. **CloseReopen**: drop of the storage while the compaction thread goes on,
   and a second open that recovers the same file.
3. The walk of a reindex over the partitions with its workers and its errors.
