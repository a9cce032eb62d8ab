------------------------------ MODULE Visibility ------------------------------
(***************************************************************************)
(* What deletions and newer versions hide (storage/visibility.rs): the     *)
(* summary of a set of packets, the index that is built of the hot packets *)
(* for one query, and the LMDB store that compactions merge summaries      *)
(* into.                                                                   *)
(*                                                                         *)
(* A note is its id; note[n] is the record [pubkey, kind, created_at, tags, *)
(* terms] of its fields.  tags is a sequence of tags, a tag a sequence of  *)
(* elements; the value of an "a" tag is the record [kind, pubkey, d] that  *)
(* it parses to; terms are the search terms found in the note's text.      *)
(***************************************************************************)
EXTENDS Integers, Sequences, FiniteSets

CONSTANTS
  Notes, note,
  LongValues,    \* values of "d" tags above MAX_INDEXED_TAG_VALUE_BYTES
  LongAddresses  \* values of "d" tags whose whole address is above it

ASSUME NotesAssumption ==
  /\ Notes \subseteq Nat /\ IsFiniteSet(Notes) /\ DOMAIN note = Notes
  /\ \A n \in Notes : note[n].created_at \in Nat

DeletionKind == 5

\* Newer first, then the smaller id: the order of packets in every file and
\* answer (compare_packets), and of the candidates to win a key (compare_winner).
Before(a, b) ==
  \/ note[a].created_at > note[b].created_at
  \/ note[a].created_at = note[b].created_at /\ a < b

-----------------------------------------------------------------------------
IsRegularReplaceable(kind) == kind \in {0, 3, 41} \/ kind \in 10000..19999
IsAddressable(kind) == kind \in 30000..39999

\* The first "d" tag counts, and the look stops at a tag without a name; no
\* value, and one that is too long, count as the empty one.
FirstD(tags) ==
  LET stops == {i \in DOMAIN tags : tags[i] = <<>> \/ tags[i][1] = "d"}
      first == CHOOSE i \in stops : \A j \in stops : i <= j
  IN IF stops = {} \/ Len(tags[first]) < 2 \/ tags[first][2] \in LongValues
     THEN "" ELSE tags[first][2]

\* A kind that is replaceable whole has keys without a d.
NoD == "no d"
Key(pubkey, kind, d) ==
  [pubkey |-> pubkey, kind |-> kind, d |-> IF IsRegularReplaceable(kind) THEN NoD ELSE d]

\* replaceable_key, for the notes that have one.
Keyed == {n \in Notes : IsRegularReplaceable(note[n].kind) \/ IsAddressable(note[n].kind)}
KeyOf == [n \in Keyed |-> Key(note[n].pubkey, note[n].kind, FirstD(note[n].tags))]

\* apply_deletion: what a deletion names.  Tags without a name or a value are
\* passed over; an address counts only if it is short and its author's own.
Deletions == {n \in Notes : note[n].kind = DeletionKind}
Named(n, name) ==
  LET tags == note[n].tags
  IN {tags[i][2] : i \in {j \in DOMAIN tags : Len(tags[j]) >= 2 /\ tags[j][1] = name}}
DeletedIds == [n \in Deletions |-> Named(n, "e")]
DeletedKeys == [n \in Deletions |->
  {Key(a.pubkey, a.kind, a.d) : a \in {b \in Named(n, "a") :
                                        /\ b.d \notin LongAddresses
                                        /\ b.pubkey = note[n].pubkey}}]

(***************************************************************************)
(* VisibilitySummary::from_packets, the order of whose packets does not    *)
(* matter.  A VisibilityIndex is the summary of the packets it is made of. *)
(* The winner of a key is found by its own key.  Of several deletions of   *)
(* an address the latest decides, so that it is no matter that they are    *)
(* all kept, as the store does, where the summary keeps the latest.        *)
(***************************************************************************)

\* update_winner: of the notes of a key, the one that is before all others.
Winners(S) == {n \in S \cap Keyed :
                 \A m \in S \cap Keyed : KeyOf[m] = KeyOf[n] => m = n \/ Before(n, m)}

Summary(packets) ==
  LET deletions == packets \cap Deletions IN
  [winners   |-> Winners(packets),
   ids       |-> UNION {DeletedIds[n] \X {note[n].pubkey} : n \in deletions},
   addresses |-> UNION {DeletedKeys[n] \X {note[n].created_at} : n \in deletions}]

NotDeleted(index, n) ==
  /\ <<n, note[n].pubkey>> \notin index.ids
  /\ \A a \in index.addresses : n \in Keyed /\ a[1] = KeyOf[n] => note[n].created_at > a[2]

\* VisibilityIndex::is_visible: what is not the winner of its key is hidden.
VisibleInIndex(index, n) ==
  \/ n \in Deletions
  \/ /\ NotDeleted(index, n)
     /\ n \in Keyed => \A w \in index.winners : KeyOf[w] = KeyOf[n] => w = n

(***************************************************************************)
(* VisibilityStore, three databases: the winner of each key, the deletions *)
(* of an id by a pubkey, and those of an address at a time.                *)
(***************************************************************************)
EmptyStore == [winners |-> {}, ids |-> {}, addresses |-> {}]

\* Fault: the winner of the summary replaces the one that is stored.
MergeSummaryLatest(store, s) ==
  [winners   |-> s.winners \cup {n \in store.winners :
                                   \A m \in s.winners : KeyOf[m] # KeyOf[n]},
   ids       |-> store.ids \cup s.ids,
   addresses |-> store.addresses \cup s.addresses]

\* merge_summary, one transaction.
MergeSummary(store, s) ==
  [winners   |-> Winners(store.winners \cup s.winners),
   ids       |-> store.ids \cup s.ids,
   addresses |-> store.addresses \cup s.addresses]

\* is_visible_in_txn: what the winner of its key beats is hidden.
VisibleInStore(store, n) ==
  \/ n \in Deletions
  \/ /\ NotDeleted(store, n)
     /\ n \in Keyed => \A w \in store.winners : KeyOf[w] = KeyOf[n] => ~Before(w, n)
=============================================================================
