---------------------------- MODULE VisibleEvents ----------------------------
(***************************************************************************)
(* What queries show while events arrive, in any order and more than once, *)
(* and compactions move them from the hot file through a compacting file   *)
(* to the partitions and their metadata to the visibility store.           *)
(*                                                                         *)
(* This is EventStore with the contents of the notes and without its       *)
(* faults: a file is the set of notes in it, and one compaction at a time  *)
(* merges one compacting file, day by day.                                 *)
(***************************************************************************)
EXTENDS Queries

CONSTANTS
  Resent,  \* the notes that may arrive again (a bound: any note may)
  Asked,   \* queries to ask, each a sequence of a client's filters
  Always   \* Filter::new()

ASSUME DaysAssumption ==
  Days \subseteq Nat /\ IsFiniteSet(Days) /\ \A n \in Notes : DayOf(n) \in Days

VARIABLES
  hot,         \* hot.events
  compacting,  \* the compacting file, {} if there is none
  phase,       \* each day's merge: "todo", "renamed" or "done"
  partition,   \* the notes in each day's partition
  store        \* the visibility store

vars == <<hot, compacting, phase, partition, store>>

\* hot_snapshot, and what the storage holds.
Snapshot == hot \cup compacting
Merged == UNION {partition[d] : d \in Days}
Stored == Snapshot \cup Merged

Init ==
  /\ hot = {} /\ compacting = {} /\ phase = [d \in Days |-> "done"]
  /\ partition = [d \in Days |-> {}] /\ store = EmptyStore

\* append_packet: whatever is stored already, the packet is appended.
AppendPacket(n) ==
  /\ n \notin hot /\ (n \in Stored => n \in Resent)
  /\ hot' = hot \cup {n}
  /\ UNCHANGED <<compacting, phase, partition, store>>

Rotate ==
  /\ compacting = {} /\ hot # {}
  /\ compacting' = hot /\ hot' = {}
  /\ phase' = [d \in Days |-> IF \E n \in hot : DayOf(n) = d THEN "todo" ELSE "done"]
  /\ UNCHANGED <<partition, store>>

\* Fault: the notes are not grouped by day.
RenameEventsOfAllDays(d) ==
  /\ phase[d] = "todo"
  /\ partition' = [partition EXCEPT ![d] = @ \cup compacting]
  /\ phase' = [phase EXCEPT ![d] = "renamed"]
  /\ UNCHANGED <<hot, compacting, store>>

\* merge_packets_into_partition: the partition is replaced, ...
RenameEvents(d) ==
  /\ phase[d] = "todo"
  /\ partition' = [partition EXCEPT ![d] = @ \cup {n \in compacting : DayOf(n) = d}]
  /\ phase' = [phase EXCEPT ![d] = "renamed"]
  /\ UNCHANGED <<hot, compacting, store>>

\* ... and then the metadata of all its notes goes to the store.
MergeVisibility(d) ==
  /\ phase[d] = "renamed"
  /\ store' = MergeSummary(store, Summary(partition[d]))
  /\ phase' = [phase EXCEPT ![d] = "done"]
  /\ UNCHANGED <<hot, compacting, partition>>

RemoveFile ==
  /\ compacting # {} /\ \A d \in Days : phase[d] = "done"
  /\ compacting' = {}
  /\ UNCHANGED <<hot, phase, partition, store>>

\* The queries that are answered, and the filters they come to.
Accepted == SelectSeq(Asked, LAMBDA raws : Understood(raws))
AllQueries == [q \in DOMAIN Accepted |-> NormalizedFilters(Accepted[q], Always)]

Next ==
  \/ \E n \in Notes : AppendPacket(n)
  \/ Rotate
  \/ \E d \in Days : RenameEvents(d) \/ MergeVisibility(d)
  \/ RemoveFile

Spec == Init /\ [][Next]_vars

-----------------------------------------------------------------------------
(***************************************************************************)
(* Properties.                                                             *)
(***************************************************************************)
\* Types; and a note is in the partition of its day.
TypeOK ==
  /\ hot \subseteq Notes /\ compacting \subseteq Notes
  /\ phase \in [Days -> {"todo", "renamed", "done"}]
  /\ partition \in [Days -> SUBSET Notes]
  /\ \A d \in Days : \A n \in partition[d] : DayOf(n) = d

\* What a note does to another, and the notes that ought to be visible.
SameKey(m, n) == m \in Keyed /\ n \in Keyed /\ KeyOf[m] = KeyOf[n]
Supersedes(m, n) == SameKey(m, n) /\ Before(m, n)
Deletes(m, n) ==
  /\ m \in Deletions /\ n \notin Deletions /\ note[n].pubkey = note[m].pubkey
  /\ \/ n \in DeletedIds[m]
     \/ /\ n \in Keyed /\ KeyOf[n] \in DeletedKeys[m]
        /\ note[n].created_at <= note[m].created_at
HiddenBy == [n \in Notes |-> {m \in Notes : Supersedes(m, n) \/ Deletes(m, n)}]
Visible(n) == Stored \cap HiddenBy[n] = {}

\* A note disturbs its key, or itself, if it arrived after a note that hides it
\* was merged, and is not merged yet: the hot index does not know better.
Disturbed(n) ==
  \E m \in Snapshot : (m = n \/ SameKey(m, n)) /\ (Merged \ Snapshot) \cap HiddenBy[m] # {}

Answer(f, index) == UNION {Found(f, d, Snapshot, index, partition, store) : d \in Days}

Filters == UNION {ToSet(AllQueries[q]) : q \in DOMAIN AllQueries}
Searches == {f \in Filters : IsSearch(f)}
SearchQueries ==
  Restrict(AllQueries, {q \in DOMAIN AllQueries : ToSet(AllQueries[q]) \subseteq Searches})

ASSUME FiltersAssumption ==
  /\ SecondsPerDay \in Nat \ {0}
  /\ \A f \in Filters : f.since \in Nat /\ f.until \in Nat /\ f.limit \in Nat

\* The inductive invariant behind the next two, with TypeOK: the store is the
\* summary of a set of notes, as if they had been merged at once and in whatever
\* order they came; it lacks of the partitions at most what a compaction has
\* renamed and not merged yet.
StoreInv ==
  \E M \in SUBSET Merged :
    /\ store = Summary(M)
    /\ \A n \in Merged \ M : n \in compacting /\ phase[DayOf(n)] = "renamed"

\* A search shows exactly the visible notes that match, wherever each of them
\* and what hides it are - hot, in the file that is being compacted, in a
\* partition that is renamed but whose metadata is not merged - unless a note
\* arrived late.  Late ones cost it no more than their own key, and only until
\* they are merged: with nothing to compact every order of arrival has come to
\* the same answer.
SearchExact ==
  \A f \in Searches, index \in {Summary(Snapshot)} :
    LET answer == Answer(f, index) IN
    \A n \in Stored :
      ~Disturbed(n) /\ Matches(f, n) => (n \in answer <=> Visible(n))

\* What a query without a search shows depends on where a note is: every note
\* that matches while it is in the hot or the compacting file (storage/tests.rs:498),
\* hidden or not, and always those that nothing merged hides.  So none that is
\* visible is ever missing; and a hidden note that is no longer in the snapshot is
\* not shown, if what hides it is not there any more either.
PlainFollowsCompaction ==
  \A f \in Filters \ Searches, index \in {Summary(Snapshot)} :
    LET answer == Answer(f, index) IN
    \A n \in Stored : Matches(f, n) =>
      /\ n \in Snapshot \/ Merged \cap HiddenBy[n] = {} => n \in answer
      /\ n \in answer => n \in Snapshot \/ (Merged \ Snapshot) \cap HiddenBy[n] = {}

\* Limits: the loop over the days, with limits that are used up from day to day
\* and notes that several filters yield, answers the union of the newest of
\* each filter, newest first, each note once.
LimitsNewest ==
  \A q \in DOMAIN AllQueries, index \in {Summary(Snapshot)} :
    LET filters == AllQueries[q] IN
    Streaming(filters, Snapshot, index, partition, store)
      = Sorted(UNION {Newest(filters[i].limit, Answer(filters[i], index)) :
                        i \in DOMAIN filters})

\* tests.rs:333 "batched query matches independent queries", for searches: one
\* pass for all queries answers each as if it were alone, and a query whose
\* receiver fails has had its first packets and disturbs no other.
BatchAgrees ==
  \A index \in {Summary(Snapshot)} :
  \A accepting \in {Accepting(SearchQueries, Stored, Snapshot, index, store)},
     alone \in {[q \in DOMAIN SearchQueries |->
                   Streaming(SearchQueries[q], Snapshot, index, partition, store)]} :
  \A room \in [DOMAIN SearchQueries -> {1, Cardinality(Notes)}] :
    Batched(SearchQueries, room, accepting)
      = [q \in DOMAIN SearchQueries |->
           SubSeq(alone[q], 1, IF room[q] < Len(alone[q]) THEN room[q] ELSE Len(alone[q]))]

\* README.md:14 "query visibility hides deleted events and superseded
\* replaceable/addressable events": whatever they arrive after.
HidesDeletedAndSuperseded ==
  \A f \in Searches, index \in {Summary(Snapshot)} : \A n \in Answer(f, index) : Visible(n)
=============================================================================
