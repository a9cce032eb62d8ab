-------------------------------- MODULE HotFile --------------------------------
(***************************************************************************)
(* hot.events packet by packet, with the search index that is kept beside  *)
(* it in memory, and what becomes of both when an append is cut short, the *)
(* process ends, the file is rotated and merged, and the storage is opened *)
(* again, perhaps with other searchable kinds (storage/hot.rs, event.rs,   *)
(* search.rs, compaction.rs, reindex.rs).                                  *)
(*                                                                         *)
(* A file is a sequence of pieces: whole packets, and at most MaxCuts      *)
(* parts of packets whose write failed or ended with the process, in the   *)
(* length or in the data.  A reader that comes to such a part takes bytes  *)
(* of the packets behind it for the rest, and their other bytes for a      *)
(* length.  That this goes unnoticed, because a write lacked just as many  *)
(* bytes as are behind it, is left out.                                    *)
(*                                                                         *)
(* There is one day, and one compacting file at a time; the steps of a     *)
(* compaction, its crashes and several files are in EventStore.            *)
(***************************************************************************)
EXTENDS SearchIndex

CONSTANTS
  Order,      \* the packets, in the order of a partition
  KindSets,   \* the searchable kinds that a session may have
  TextOf,     \* the text of each packet, if these kinds are searchable
  Queries,    \* sets of terms to search for
  NoSidecar,
  MaxPieces,  \* pieces in the hot file (a bound)
  MaxCuts     \* pieces that are cut short (a bound)

Packets == ToSet(Order)
Parts == {"in length", "in data"}
ASSUME PiecesAssumption ==
  Order \in Seq(Packets) /\ Packets \cap Parts = {} /\ MaxCuts \in Nat

\* search_terms splits a query at the spaces and leaves no empty term.
Characters ==
  UNION {ToSet(text) : text \in UNION Queries \cup {TextOf[k][p] : k \in KindSets, p \in Packets}}
ASSUME TextsAssumption ==
  /\ \A k \in KindSets, p \in Packets : TextOf[k][p] \in Seq(Characters)
  /\ \A term \in UNION Queries : term \in Seq(Characters \ {Space}) /\ term # <<>>

VARIABLES
  hot,         \* the pieces of hot.events
  index,       \* hot_search_index
  compacting,  \* the pieces of the compacting file, none if there is no file
  partition,   \* the packets of the partition
  sidecar,     \* its search sidecar, with the kinds it was built for
  kinds,       \* the searchable kinds of the session
  session,     \* "up" or "down"
  accepted     \* the packets whose append has returned Ok

vars == <<hot, index, compacting, partition, sidecar, kinds, session, accepted>>

(***************************************************************************)
(* Files.                                                                  *)
(***************************************************************************)
Cuts(file) == {i \in DOMAIN file : file[i] \in Parts}

\* The packets before the first part of one.
UpToCut(file) ==
  SubSeq(file, 1, CHOOSE i \in 0..Len(file) :
                    /\ Cuts(file) \cap 1..i = {}
                    /\ i < Len(file) => i + 1 \in Cuts(file))

\* Fault: whatever is cut short ends the file.
ReadTolerantly(file) == [packets |-> UpToCut(file), ok |-> TRUE]

\* read_event_packets: a length that the end of the file cuts short is the end
\* of the packets, and everything else that is cut short is an error.
ReadFile(file) ==
  [packets |-> UpToCut(file),
   ok      |-> \A i \in Cuts(file) : i = Len(file) /\ file[i] = "in length"]

Readable == ReadFile(hot).ok /\ ReadFile(compacting).ok

\* The packets of hot_snapshot.
Snapshot == ReadFile(hot).packets \o ReadFile(compacting).packets

Stored == ToSet(Snapshot) \cup partition

Texts(packets, k) == [i \in DOMAIN packets |-> TextOf[k][packets[i]]]

(***************************************************************************)
(* Sidecars.                                                               *)
(***************************************************************************)
Sorted(S) ==
  LET kept[i \in 0..Len(Order)] == IF i = 0 THEN <<>>
                                  ELSE IF Order[i] \in S THEN Append(kept[i - 1], Order[i])
                                  ELSE kept[i - 1]
  IN kept[Len(Order)]

\* Fault: the searchable kinds are not compared.
IsCurrentWhateverKinds == sidecar # NoSidecar

\* search_sidecar_is_current: that it is as long as its partition says, which a
\* merge sees to, and was built for the searchable kinds of the session.
IsCurrent == sidecar # NoSidecar /\ sidecar.kinds = kinds

-----------------------------------------------------------------------------
Init ==
  /\ hot = <<>> /\ compacting = <<>> /\ partition = {} /\ sidecar = NoSidecar
  /\ kinds \in KindSets /\ index = EmptyIndex
  /\ session = "up" /\ accepted = {}

(***************************************************************************)
(* append_packet.                                                          *)
(***************************************************************************)
Store(p) ==
  /\ session = "up" /\ Len(hot) < MaxPieces
  /\ hot' = Append(hot, p)
  /\ index' = Extend(index, TextOf[kinds][p])
  /\ UNCHANGED <<compacting, partition, sidecar, kinds, session>>

Accept(p) == Store(p) /\ accepted' = accepted \cup {p}

\* The packet is stored, but the rotation that it calls for fails.
RotationFails(p) == Store(p) /\ UNCHANGED accepted

CutShort(part) ==
  /\ Cardinality(Cuts(hot)) + Cardinality(Cuts(compacting)) < MaxCuts
  /\ Len(hot) < MaxPieces
  /\ hot' = Append(hot, part)

\* Fault: the index is extended before the packet is written.
WriteFailsAfterIndex(p, part) ==
  /\ session = "up" /\ CutShort(part)
  /\ index' = Extend(index, TextOf[kinds][p])
  /\ UNCHANGED <<compacting, partition, sidecar, kinds, session, accepted>>

\* write_all fails half way.
WriteFails(p, part) ==
  /\ session = "up" /\ CutShort(part)
  /\ UNCHANGED <<index, compacting, partition, sidecar, kinds, session, accepted>>

\* That nothing was written changes nothing.
AppendFails(p) == RotationFails(p) \/ \E part \in Parts : WriteFails(p, part)

(***************************************************************************)
(* Compaction.                                                             *)
(***************************************************************************)
Rotate ==
  /\ session = "up" /\ hot # <<>> /\ compacting = <<>>
  /\ compacting' = hot /\ hot' = <<>> /\ index' = EmptyIndex
  /\ UNCHANGED <<partition, sidecar, kinds, session, accepted>>

\* Fault: what is cut short is merged like a packet.
MergePieces(file, k) ==
  /\ ReadFile(file).ok
  /\ compacting' = <<>>
  /\ partition' = partition \cup ToSet(file)
  /\ sidecar' = IF file = <<>> THEN sidecar
                ELSE [kinds |-> k, index |-> Appended(Texts(Sorted(partition'), k))]

\* compact_hot_file, of a file that can be read, for the searchable kinds k.  A
\* file without a packet changes no partition.
MergeFile(file, k) ==
  /\ ReadFile(file).ok
  /\ compacting' = <<>>
  /\ partition' = partition \cup ToSet(ReadFile(file).packets)
  /\ sidecar' = IF ReadFile(file).packets = <<>> THEN sidecar
                ELSE [kinds |-> k, index |-> Appended(Texts(Sorted(partition'), k))]

Merge ==
  /\ session = "up" /\ compacting # <<>>
  /\ MergeFile(compacting, kinds)
  /\ UNCHANGED <<hot, index, kinds, session, accepted>>

\* reindex(), or a search that finds the sidecar stale.
Rebuild ==
  /\ session = "up" /\ partition # {} /\ ~IsCurrent
  /\ sidecar' = [kinds |-> kinds, index |-> Build(Texts(Sorted(partition), kinds))]
  /\ UNCHANGED <<hot, index, compacting, partition, kinds, session, accepted>>

(***************************************************************************)
(* Restart.  A storage with a file that cannot be read cannot be opened.   *)
(***************************************************************************)
Crash ==
  /\ session = "up" /\ session' = "down" /\ index' = EmptyIndex
  /\ UNCHANGED hot \/ \E part \in Parts : CutShort(part)
  /\ UNCHANGED <<compacting, partition, sidecar, kinds, accepted>>

Open(k) ==
  /\ session = "down" /\ session' = "up" /\ kinds' = k
  /\ ReadFile(hot).ok /\ index' = Build(Texts(ReadFile(hot).packets, k))
  /\ MergeFile(compacting, k)
  /\ UNCHANGED <<hot, accepted>>

Next ==
  \/ \E p \in Packets : Accept(p) \/ AppendFails(p)
  \/ Rotate \/ Merge \/ Rebuild \/ Crash
  \/ \E k \in KindSets : Open(k)

Spec == Init /\ [][Next]_vars

-----------------------------------------------------------------------------
(***************************************************************************)
(* Searches.                                                               *)
(***************************************************************************)

\* hot_snapshot: with packets of a compacting file, the index is built anew.
SnapshotIndex ==
  IF ReadFile(compacting).packets = <<>> THEN index ELSE Build(Texts(Snapshot, kinds))

\* hot_candidates of the batched query, which looks at each record by itself.
BatchCandidates(searched, terms) == RecordsMatching(searched, terms)

\* packet_matches_filter, which decides about live events.
PacketMatches(p, terms) == TextMatches(TextOf[kinds][p], terms)

\* search_bloom_may_match and PacketCursor::partition_search, with a sidecar that
\* is current.
PartitionSearch(terms) ==
  IF BloomMayMatch(sidecar.index, terms)
  THEN {p \in {Sorted(partition)[r] : r \in RecordsMatching(sidecar.index, terms)} :
          PacketMatches(p, terms)}
  ELSE {}

(***************************************************************************)
(* Properties.                                                             *)
(***************************************************************************)

\* Types; no more than MaxCuts packets are cut short.
TypeOK ==
  /\ \A file \in {hot, compacting} : \A i \in DOMAIN file : file[i] \in Packets \cup Parts
  /\ Cardinality(Cuts(hot)) + Cardinality(Cuts(compacting)) <= MaxCuts
  /\ partition \subseteq Packets /\ accepted \subseteq Packets
  /\ kinds \in KindSets /\ session \in {"up", "down"}
  /\ sidecar # NoSidecar => sidecar.kinds \in KindSets

\* A packet whose append returned Ok is never missing from what is read: a file
\* that hides it behind one that was cut short is an error to every query, every
\* compaction and every open, never a shorter answer.
NoSilentLoss == Readable => accepted \subseteq Stored

\* The index in memory is that of the file, whatever appends failed between and
\* whatever the file was when the storage was opened: the numbers that it yields
\* are taken for places among the packets that were read from the file.
IndexMatchesFile ==
  session = "up" /\ ReadFile(hot).ok =>
    \A packets \in {ReadFile(hot).packets} :
      /\ Len(index.offsets) = Len(packets) + 1
      /\ \A r \in DOMAIN packets : RecordText(index, r) = TextOf[kinds][packets[r]]

\* A term occurs across the beginning of the record.
Straddles(searched, r, term) ==
  \E at \in Occurrences(searched.text, term) :
    /\ at - 1 < searched.offsets[r]
    /\ at - 1 + Len(term) > searched.offsets[r]

\* The hot file is searched in one piece.  Every packet it yields has all terms,
\* and one with all terms that it misses has a term that also occurs across its
\* beginning: find_iter goes on behind that occurrence.
HotSearchAccounted ==
  session = "up" /\ Readable =>
    \A searched \in {SnapshotIndex}, packets \in {Snapshot}, terms \in Queries :
      \A found \in {Candidates(searched, terms)}, r \in DOMAIN packets :
        IF r \in found THEN PacketMatches(packets[r], terms)
        ELSE PacketMatches(packets[r], terms) =>
               \E term \in terms : Straddles(searched, r, term)

\* A search in a partition finds exactly the packets with the terms, as the
\* kinds of this session have it, whatever kinds it was merged with and whether
\* its index was appended to or built.  With a term of a single character it may
\* find none: the Bloom filter knows such a term only as a word of its own.
PartitionSearchExact ==
  session = "up" /\ IsCurrent =>
    \A terms \in Queries :
      \/ PartitionSearch(terms) = {p \in partition : PacketMatches(p, terms)}
      \/ PartitionSearch(terms) = {} /\ \E term \in terms : Len(term) = 1

\* tests.rs:333 "batched_query_matches_independent_queries_across_search_terms_
\* and_filters": both queries find the same packets in the hot file.
BatchSearchesAlike ==
  session = "up" /\ Readable =>
    \A searched \in {SnapshotIndex}, terms \in Queries :
      BatchCandidates(searched, terms) = Candidates(searched, terms)
=============================================================================
