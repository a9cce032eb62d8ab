------------------------- MODULE VisibleEventsProofs -------------------------
(***************************************************************************)
(* What queries show, for any notes, days, arrivals and filters: merging   *)
(* summaries in whatever order comes to the summary of all the notes, a    *)
(* search shows exactly the visible ones, unless one arrived late, the     *)
(* limits leave the newest, and one pass for all queries answers each as   *)
(* if it were alone.                                                       *)
(***************************************************************************)
EXTENDS VisibleEvents, FiniteSetTheorems, WellFoundedInduction, TLAPS

(***************************************************************************)
(* The order of packets.                                                   *)
(***************************************************************************)
LEMMA Order ==
  /\ \A a \in Notes : ~Before(a, a)
  /\ \A a, b \in Notes : a = b \/ Before(a, b) \/ Before(b, a)
  /\ \A a, b \in Notes : ~(Before(a, b) /\ Before(b, a))
  /\ \A a, b, c \in Notes : Before(a, b) /\ Before(b, c) => Before(a, c)
  <1>1. \A n \in Notes : n \in Nat /\ note[n].created_at \in Nat
    BY NotesAssumption
  <1> QED BY <1>1 DEF Before

\* A set of notes that is not empty has one that is before all others: of the sets
\* without one, a smallest would have at least two notes, and without one of them
\* it has a first.
LEMMA First ==
  ASSUME NEW S \in SUBSET Notes, S # {}
  PROVE  \E n \in S : \A m \in S : m = n \/ Before(n, m)
  <1> DEFINE Has(T) == \E n \in T : \A m \in T : m = n \/ Before(n, m)
             Lacking == {T \in SUBSET Notes : T # {} /\ ~Has(T)}
  <1>1. SUFFICES ASSUME ~Has(S) PROVE FALSE
    OBVIOUS
  <1>2. /\ S \in Lacking
        /\ \A T \in Lacking : T \in SUBSET Notes /\ T # {} /\ ~Has(T)
        /\ \A T \in SUBSET Notes : T # {} /\ ~Has(T) => T \in Lacking
    BY <1>1
  <1>3. Lacking \subseteq FiniteSubsetsOf(Notes)
    BY <1>2, FS_Subset, NotesAssumption DEF FiniteSubsetsOf
  <1> HIDE DEF Lacking
  <1>4. PICK T \in Lacking : \A U \in Lacking : <<U, T>> \notin StrictSubsetOrdering(Notes)
    BY <1>2, <1>3, FS_StrictSubsetOrderingWellFounded, WFMin
  <1>5. PICK x \in T : TRUE
    BY <1>2
  <1>6. T \ {x} \notin Lacking
    <2>1. T \ {x} \in SUBSET Notes /\ T \in SUBSET Notes /\ T \ {x} # T
      BY <1>2, <1>5
    <2>2. <<T \ {x}, T>> \in StrictSubsetOrdering(Notes)
      BY <2>1 DEF StrictSubsetOrdering
    <2> QED BY <1>4, <2>2
  <1>7. T \in SUBSET Notes /\ T \ {x} \in SUBSET Notes /\ x \in Notes
    BY <1>2, <1>5
  <1>8. CASE T \ {x} = {}
    <2>1. \A m \in T : m = x
      BY <1>8
    <2> QED BY <1>2, <1>5, <2>1
  <1>9. CASE T \ {x} # {}
    <2>1. Has(T \ {x})
      BY <1>2, <1>6, <1>7, <1>9
    <2>2. PICK n \in T \ {x} : \A m \in T \ {x} : m = n \/ Before(n, m)
      BY <2>1
    <2>3. CASE Before(n, x)
      <3>1. \A m \in T : m = n \/ Before(n, m)
        BY <2>2, <2>3
      <3> QED BY <1>2, <2>2, <3>1
    <2>4. CASE Before(x, n)
      <3>1. \A m \in T : m = x \/ Before(x, m)
        BY <1>7, <2>2, <2>4, Order
      <3> QED BY <1>2, <1>5, <3>1
    <2>5. n # x /\ n \in Notes
      BY <1>7, <2>2
    <2> QED BY <1>7, <2>3, <2>4, <2>5, Order
  <1> QED BY <1>8, <1>9

\* The winner of a key: there is one as soon as there is a note of the key.
LEMMA HasWinner ==
  ASSUME NEW S \in SUBSET Notes, NEW n \in S \cap Keyed
  PROVE  \E w \in Winners(S) : KeyOf[w] = KeyOf[n] /\ (w = n \/ Before(w, n))
  <1> DEFINE T == {m \in S \cap Keyed : KeyOf[m] = KeyOf[n]}
  <1>1. T \in SUBSET Notes /\ n \in T
    OBVIOUS
  <1>2. PICK w \in T : \A m \in T : m = w \/ Before(w, m)
    BY <1>1, First
  <1>3. w \in Winners(S)
    BY <1>2 DEF Winners
  <1> QED BY <1>1, <1>2, <1>3

LEMMA WinnersOfUnion ==
  ASSUME NEW A \in SUBSET Notes, NEW B \in SUBSET Notes
  PROVE  Winners(Winners(A) \cup Winners(B)) = Winners(A \cup B)
  <1> DEFINE W == Winners(A) \cup Winners(B)
  <1>1. W \subseteq (A \cup B) \cap Keyed /\ W \in SUBSET Notes
    BY DEF Winners, Keyed
  <1>2. ASSUME NEW n \in Winners(A \cup B) PROVE n \in Winners(W)
    <2>1. n \in W
      BY <1>2 DEF Winners
    <2> QED BY <1>1, <1>2, <2>1 DEF Winners
  <1>3. ASSUME NEW n \in Winners(W) PROVE n \in Winners(A \cup B)
    <2>1. n \in W /\ n \in (A \cup B) \cap Keyed /\ n \in Notes
      BY <1>1, <1>3 DEF Winners
    <2>2. ASSUME NEW m \in (A \cup B) \cap Keyed, KeyOf[m] = KeyOf[n], m # n
          PROVE  Before(n, m)
      <3>1. PICK w \in W : KeyOf[w] = KeyOf[m] /\ (w = m \/ Before(w, m))
        BY <2>2, HasWinner
      <3>2. w \in W \cap Keyed /\ w \in Notes /\ m \in Notes
        BY <1>1, <2>2, <3>1
      <3>3. w = n \/ Before(n, w)
        BY <1>3, <2>2, <3>1, <3>2 DEF Winners
      <3> QED BY <2>1, <2>2, <3>1, <3>2, <3>3, Order
    <2> QED BY <2>1, <2>2 DEF Winners
  <1> QED BY <1>2, <1>3

\* Merging summaries, in whatever order and however often, is summarising all the
\* notes at once (merge_summary and VisibilitySummary::from_packets).
THEOREM MergesAsOne ==
  ASSUME NEW A \in SUBSET Notes, NEW B \in SUBSET Notes
  PROVE  MergeSummary(Summary(A), Summary(B)) = Summary(A \cup B)
  <1> DEFINE Ids(S) == UNION {DeletedIds[n] \X {note[n].pubkey} : n \in S \cap Deletions}
             Addresses(S) == UNION {DeletedKeys[n] \X {note[n].created_at} : n \in S \cap Deletions}
  <1>1. ASSUME NEW x PROVE x \in Ids(A \cup B) <=> x \in Ids(A) \/ x \in Ids(B)
    <2>1. \A S : x \in Ids(S) <=>
            \E n \in S \cap Deletions : x \in DeletedIds[n] \X {note[n].pubkey}
      OBVIOUS
    <2> HIDE DEF Ids
    <2> QED BY <2>1
  <1>2. ASSUME NEW x PROVE x \in Addresses(A \cup B) <=> x \in Addresses(A) \/ x \in Addresses(B)
    <2>1. \A S : x \in Addresses(S) <=>
            \E n \in S \cap Deletions : x \in DeletedKeys[n] \X {note[n].created_at}
      OBVIOUS
    <2> HIDE DEF Addresses
    <2> QED BY <2>1
  <1>3. \A S : Summary(S) = [winners |-> Winners(S), ids |-> Ids(S), addresses |-> Addresses(S)]
    BY DEF Summary
  <1> HIDE DEF Ids, Addresses
  <1>4. Ids(A \cup B) = Ids(A) \cup Ids(B) /\ Addresses(A \cup B) = Addresses(A) \cup Addresses(B)
    BY <1>1, <1>2
  <1> QED BY <1>3, <1>4, WinnersOfUnion DEF MergeSummary

(***************************************************************************)
(* What the summary of a set of notes says of a note.                      *)
(***************************************************************************)
LEMMA KeyOwners ==
  /\ \A n \in Keyed : KeyOf[n].pubkey = note[n].pubkey
  /\ \A m \in Deletions : \A k \in DeletedKeys[m] : k.pubkey = note[m].pubkey
  <1>1. ASSUME NEW p, NEW kind, NEW d PROVE Key(p, kind, d).pubkey = p
    BY DEF Key
  <1>2. ASSUME NEW m \in Deletions, NEW k \in DeletedKeys[m] PROVE k.pubkey = note[m].pubkey
    <2>1. PICK a \in {b \in Named(m, "a") : /\ b.d \notin LongAddresses
                                            /\ b.pubkey = note[m].pubkey} :
            k = Key(a.pubkey, a.kind, a.d)
      BY <1>2 DEF DeletedKeys
    <2> QED BY <1>1, <2>1
  <1>3. ASSUME NEW n \in Keyed PROVE KeyOf[n].pubkey = note[n].pubkey
    BY <1>1 DEF KeyOf
  <1> QED BY <1>2, <1>3

\* Deletions have no key, and nothing hides them.
LEMMA DeletionsStay ==
  \A n \in Deletions : n \notin Keyed /\ HiddenBy[n] = {}
  <1>1. ~IsRegularReplaceable(5) /\ ~IsAddressable(5)
    BY DEF IsRegularReplaceable, IsAddressable
  <1>2. ASSUME NEW n \in Deletions PROVE n \in Notes /\ n \notin Keyed
    BY <1>1 DEF Deletions, DeletionKind, Keyed
  <1>3. ASSUME NEW n \in Deletions PROVE HiddenBy[n] = {}
    BY <1>2 DEF HiddenBy, Supersedes, SameKey, Deletes
  <1> QED BY <1>2, <1>3

LEMMA Deleted ==
  ASSUME NEW A \in SUBSET Notes, NEW n \in Notes \ Deletions
  PROVE  NotDeleted(Summary(A), n) <=> \A m \in A : ~Deletes(m, n)
  <1>1. \A m \in Notes : note[m].created_at \in Nat
    BY NotesAssumption
  <1>2. <<n, note[n].pubkey>> \in Summary(A).ids <=>
          \E m \in A \cap Deletions : n \in DeletedIds[m] /\ note[n].pubkey = note[m].pubkey
    <2>1. Summary(A).ids = UNION {DeletedIds[m] \X {note[m].pubkey} : m \in A \cap Deletions}
      BY DEF Summary
    <2> QED BY <2>1
  <1>3. \A a : a \in Summary(A).addresses <=>
          \E m \in A \cap Deletions : a \in DeletedKeys[m] \X {note[m].created_at}
    <2>1. Summary(A).addresses
            = UNION {DeletedKeys[m] \X {note[m].created_at} : m \in A \cap Deletions}
      BY DEF Summary
    <2> QED BY <2>1
  <1>4. ASSUME n \in Keyed
        PROVE  (\E a \in Summary(A).addresses : a[1] = KeyOf[n] /\ ~(note[n].created_at > a[2]))
                 <=> \E m \in A \cap Deletions : /\ KeyOf[n] \in DeletedKeys[m]
                                                 /\ note[n].created_at <= note[m].created_at
    <2>1. ASSUME NEW a \in Summary(A).addresses, a[1] = KeyOf[n], ~(note[n].created_at > a[2])
          PROVE  \E m \in A \cap Deletions : /\ KeyOf[n] \in DeletedKeys[m]
                                             /\ note[n].created_at <= note[m].created_at
      <3>1. PICK m \in A \cap Deletions : a \in DeletedKeys[m] \X {note[m].created_at}
        BY <1>3, <2>1
      <3>2. a[1] \in DeletedKeys[m] /\ a[2] = note[m].created_at
        BY <3>1
      <3> QED BY <1>1, <2>1, <3>2
    <2>2. ASSUME NEW m \in A \cap Deletions, KeyOf[n] \in DeletedKeys[m],
                 note[n].created_at <= note[m].created_at
          PROVE  \E a \in Summary(A).addresses :
                   a[1] = KeyOf[n] /\ ~(note[n].created_at > a[2])
      <3>1. <<KeyOf[n], note[m].created_at>> \in Summary(A).addresses
        BY <1>3, <2>2
      <3>2. ~(note[n].created_at > note[m].created_at)
        BY <1>1, <2>2
      <3> QED BY <3>1, <3>2
    <2> QED BY <2>1, <2>2
  <1>5. ASSUME n \in Keyed, NEW m \in Deletions, KeyOf[n] \in DeletedKeys[m]
        PROVE  note[n].pubkey = note[m].pubkey
    BY <1>5, KeyOwners
  <1>6. Deletions \subseteq Notes /\ A \subseteq Notes
    BY DEF Deletions
  <1>7. NotDeleted(Summary(A), n) <=>
          /\ ~\E m \in A \cap Deletions : n \in DeletedIds[m] /\ note[n].pubkey = note[m].pubkey
          /\ n \in Keyed => ~\E m \in A \cap Deletions :
                               /\ KeyOf[n] \in DeletedKeys[m]
                               /\ note[n].created_at <= note[m].created_at
    BY <1>2, <1>4 DEF NotDeleted
  <1> QED BY <1>5, <1>6, <1>7 DEF Deletes

\* A partition's note is hidden by the store exactly if a note that has been merged
\* hides it.
LEMMA StoreShows ==
  ASSUME NEW A \in SUBSET Notes, NEW n \in Notes
  PROVE  VisibleInStore(Summary(A), n) <=> A \cap HiddenBy[n] = {}
  <1>1. CASE n \in Deletions
    BY <1>1, DeletionsStay DEF VisibleInStore
  <1>2. CASE n \notin Deletions
    <2>1. NotDeleted(Summary(A), n) <=> \A m \in A : ~Deletes(m, n)
      BY <1>2, Deleted
    <2>2. Summary(A).winners = Winners(A)
      BY DEF Summary
    <2>3. (n \in Keyed => \A w \in Winners(A) : KeyOf[w] = KeyOf[n] => ~Before(w, n))
            <=> \A m \in A : ~Supersedes(m, n)
      <3>1. ASSUME NEW m \in A, Supersedes(m, n)
            PROVE  n \in Keyed /\ \E w \in Winners(A) : KeyOf[w] = KeyOf[n] /\ Before(w, n)
        <4>1. m \in A \cap Keyed /\ n \in Keyed /\ KeyOf[m] = KeyOf[n] /\ Before(m, n)
          BY <3>1 DEF Supersedes, SameKey
        <4>2. PICK w \in Winners(A) : KeyOf[w] = KeyOf[m] /\ (w = m \/ Before(w, m))
          BY <4>1, HasWinner
        <4>3. w \in Notes /\ m \in Notes
          BY <4>1, <4>2 DEF Winners
        <4> QED BY <4>1, <4>2, <4>3, Order
      <3>2. ASSUME n \in Keyed, NEW w \in Winners(A), KeyOf[w] = KeyOf[n], Before(w, n)
            PROVE  \E m \in A : Supersedes(m, n)
        BY <3>2 DEF Winners, Supersedes, SameKey
      <3> QED BY <3>1, <3>2
    <2>4. \A m \in A : m \in HiddenBy[n] <=> Supersedes(m, n) \/ Deletes(m, n)
      BY DEF HiddenBy
    <2> QED BY <1>2, <2>1, <2>2, <2>3, <2>4 DEF VisibleInStore
  <1> QED BY <1>1, <1>2

\* The hot index shows a note exactly if none of its notes hides it, and, when the
\* note is not one of them, none of its key is older either.
LEMMA IndexShows ==
  ASSUME NEW A \in SUBSET Notes, NEW n \in Notes
  PROVE  VisibleInIndex(Summary(A), n) <=>
           /\ A \cap HiddenBy[n] = {}
           /\ n \notin A => \A m \in A : ~Supersedes(n, m)
  <1>1. CASE n \in Deletions
    BY <1>1, DeletionsStay DEF VisibleInIndex, Supersedes, SameKey
  <1>2. CASE n \notin Deletions
    <2>1. NotDeleted(Summary(A), n) <=> \A m \in A : ~Deletes(m, n)
      BY <1>2, Deleted
    <2>2. Summary(A).winners = Winners(A)
      BY DEF Summary
    <2>3. ASSUME n \in Keyed, NEW w \in Winners(A), KeyOf[w] = KeyOf[n], w # n
          PROVE  \/ \E m \in A : Supersedes(m, n)
                 \/ n \notin A /\ \E m \in A : Supersedes(n, m)
      <3>1. w \in A \cap Keyed /\ w \in Notes
        BY <2>3 DEF Winners
      <3>2. CASE Before(w, n)
        BY <2>3, <3>1, <3>2 DEF Supersedes, SameKey
      <3>3. CASE Before(n, w)
        <4>1. Supersedes(n, w)
          BY <2>3, <3>1, <3>3 DEF Supersedes, SameKey
        <4>2. n \notin A
          <5>1. n \in A => Before(w, n)
            BY <2>3 DEF Winners
          <5> QED BY <3>1, <3>3, <5>1, Order
        <4> QED BY <3>1, <4>1, <4>2
      <3> QED BY <2>3, <3>1, <3>2, <3>3, Order
    <2>4. ASSUME NEW m \in A, Supersedes(m, n)
          PROVE  n \in Keyed /\ \E w \in Winners(A) : KeyOf[w] = KeyOf[n] /\ w # n
      <3>1. m \in A \cap Keyed /\ n \in Keyed /\ KeyOf[m] = KeyOf[n] /\ Before(m, n)
        BY <2>4 DEF Supersedes, SameKey
      <3>2. PICK w \in Winners(A) : KeyOf[w] = KeyOf[m] /\ (w = m \/ Before(w, m))
        BY <3>1, HasWinner
      <3>3. w # n
        BY <3>1, <3>2, Order
      <3> QED BY <3>1, <3>2, <3>3
    <2>5. ASSUME n \notin A, NEW m \in A, Supersedes(n, m)
          PROVE  n \in Keyed /\ \E w \in Winners(A) : KeyOf[w] = KeyOf[n] /\ w # n
      <3>1. m \in A \cap Keyed /\ n \in Keyed /\ KeyOf[m] = KeyOf[n]
        BY <2>5 DEF Supersedes, SameKey
      <3>2. PICK w \in Winners(A) : KeyOf[w] = KeyOf[m]
        BY <3>1, HasWinner
      <3>3. w \in A
        BY <3>2 DEF Winners
      <3> QED BY <2>5, <3>1, <3>2, <3>3
    <2>6. \A m \in A : m \in HiddenBy[n] <=> Supersedes(m, n) \/ Deletes(m, n)
      BY DEF HiddenBy
    <2> QED BY <1>2, <2>1, <2>2, <2>3, <2>4, <2>5, <2>6 DEF VisibleInIndex
  <1> QED BY <1>1, <1>2

-----------------------------------------------------------------------------
(***************************************************************************)
(* The store is the summary of notes, however they came.                   *)
(***************************************************************************)
LEMMA InitVisible == Init => TypeOK /\ StoreInv
  <1> SUFFICES ASSUME Init PROVE TypeOK /\ StoreInv
    OBVIOUS
  <1>1. TypeOK
    BY DEF Init, TypeOK
  <1>2. Merged = {}
    BY DEF Init, Merged
  <1>3. Summary({}) = EmptyStore
    BY DEF Summary, EmptyStore, Winners
  <1> QED BY <1>1, <1>2, <1>3 DEF Init, StoreInv

LEMMA NextVisible ==
  ASSUME TypeOK, StoreInv, [Next]_vars
  PROVE  TypeOK' /\ StoreInv'
  <1>1. PICK M \in SUBSET Merged :
          /\ store = Summary(M)
          /\ \A n \in Merged \ M : n \in compacting /\ phase[DayOf(n)] = "renamed"
    BY DEF StoreInv
  <1>2. /\ hot \subseteq Notes /\ compacting \subseteq Notes
        /\ phase \in [Days -> {"todo", "renamed", "done"}]
        /\ partition \in [Days -> SUBSET Notes]
        /\ \A d \in Days : \A n \in partition[d] : DayOf(n) = d
    BY DEF TypeOK
  <1>3. \A n : n \in Merged <=> \E d \in Days : n \in partition[d]
    BY DEF Merged
  <1>4. CASE UNCHANGED vars
    BY <1>4 DEF vars, TypeOK, StoreInv, Merged
  <1>5. ASSUME NEW n \in Notes, AppendPacket(n) PROVE TypeOK' /\ StoreInv'
    BY <1>5 DEF AppendPacket, TypeOK, StoreInv, Merged
  <1>6. CASE Rotate
    <2>1. Merged' = Merged /\ M = Merged
      BY <1>1, <1>6 DEF Rotate, Merged
    <2>2. StoreInv'
      BY <1>1, <1>6, <2>1 DEF Rotate, StoreInv
    <2>3. TypeOK'
      BY <1>6 DEF Rotate, TypeOK
    <2> QED BY <2>2, <2>3
  <1>7. ASSUME NEW d \in Days, RenameEvents(d) PROVE TypeOK' /\ StoreInv'
    <2>1. /\ partition' = [partition EXCEPT ![d] = @ \cup {n \in compacting : DayOf(n) = d}]
          /\ phase' = [phase EXCEPT ![d] = "renamed"]
          /\ hot' = hot /\ compacting' = compacting /\ store' = store
      BY <1>7 DEF RenameEvents
    <2>2. TypeOK'
      BY <1>2, <2>1 DEF TypeOK
    <2>3. \A n : n \in Merged' <=> n \in Merged \/ (n \in compacting /\ DayOf(n) = d)
      <3>1. \A n : n \in Merged' <=> \E e \in Days : n \in partition'[e]
        BY DEF Merged
      <3>2. partition'[d] = partition[d] \cup {n \in compacting : DayOf(n) = d}
            /\ \A e \in Days : e # d => partition'[e] = partition[e]
        BY <1>2, <2>1
      <3> QED BY <1>3, <3>1, <3>2
    <2>4. M \in SUBSET Merged'
      BY <2>3
    <2>5. ASSUME NEW n \in Merged' \ M PROVE n \in compacting' /\ phase'[DayOf(n)] = "renamed"
      <3>1. DayOf(n) \in Days
        BY <1>2, <1>3, <2>3, DaysAssumption
      <3> QED BY <1>1, <1>2, <2>1, <2>3, <2>5, <3>1
    <2>6. StoreInv'
      BY <1>1, <2>1, <2>4, <2>5 DEF StoreInv
    <2> QED BY <2>2, <2>6
  <1>8. ASSUME NEW d \in Days, MergeVisibility(d) PROVE TypeOK' /\ StoreInv'
    <2>1. /\ store' = MergeSummary(store, Summary(partition[d]))
          /\ phase' = [phase EXCEPT ![d] = "done"]
          /\ hot' = hot /\ compacting' = compacting /\ partition' = partition
      BY <1>8 DEF MergeVisibility
    <2>2. TypeOK'
      BY <1>2, <2>1 DEF TypeOK
    <2>3. M \in SUBSET Notes /\ partition[d] \in SUBSET Notes
      BY <1>2, <1>3
    <2>4. store' = Summary(M \cup partition[d])
      BY <1>1, <2>1, <2>3, MergesAsOne
    <2>5. Merged' = Merged /\ M \cup partition[d] \in SUBSET Merged
      BY <1>3, <2>1 DEF Merged
    <2>6. ASSUME NEW n \in Merged \ (M \cup partition[d])
          PROVE  n \in compacting' /\ phase'[DayOf(n)] = "renamed"
      <3>1. PICK e \in Days : n \in partition[e]
        BY <1>3
      <3>2. DayOf(n) = e /\ e # d
        BY <1>2, <2>6, <3>1
      <3> QED BY <1>1, <1>2, <2>1, <2>6, <3>1, <3>2
    <2>7. StoreInv'
      BY <2>4, <2>5, <2>6 DEF StoreInv
    <2> QED BY <2>2, <2>7
  <1>9. CASE RemoveFile
    <2>1. Merged' = Merged
      BY <1>9 DEF RemoveFile, Merged
    <2>2. M = Merged
      <3>1. ASSUME NEW n \in Merged \ M PROVE FALSE
        <4>1. DayOf(n) \in Days
          BY <1>2, <1>3, <3>1
        <4> QED BY <1>1, <1>9, <3>1, <4>1 DEF RemoveFile
      <3> QED BY <3>1
    <2>3. StoreInv'
      BY <1>1, <1>9, <2>1, <2>2 DEF RemoveFile, StoreInv
    <2>4. TypeOK'
      BY <1>9 DEF RemoveFile, TypeOK
    <2> QED BY <2>3, <2>4
  <1> QED BY <1>4, <1>5, <1>6, <1>7, <1>8, <1>9 DEF Next

\* The inductive invariant: the types, and what the store has of the partitions.
THEOREM StoreIsASummary == Spec => [](TypeOK /\ StoreInv)
  BY InitVisible, NextVisible, PTL DEF Spec

\* Every note of a partition is of its day, and files and partitions hold notes.
THEOREM TypeCorrect == Spec => []TypeOK
  BY StoreIsASummary, PTL

-----------------------------------------------------------------------------
(***************************************************************************)
(* What a query answers.                                                   *)
(***************************************************************************)
LEMMA Division ==
  ASSUME NEW c \in Nat, NEW s \in Nat \ {0}
  PROVE  \E q \in Nat, r \in Nat : q = c \div s /\ r < s /\ q * s + r = c
  <1>1. PICK q, r : q = c \div s /\ r = c % s
    OBVIOUS
  <1>2. q \in Nat /\ r \in Nat /\ r < s
    BY <1>1, Z3
  <1>3. q * s + r = c
    BY <1>1, <1>2, Z3
  <1> QED BY <1>1, <1>2, <1>3

\* A filter that matches a note does not leave its day out.
LEMMA DayIsRead ==
  ASSUME NEW f \in Filters, NEW n \in Notes, Matches(f, n)
  PROVE  PartitionDayOverlaps(DayOf(n), f)
  <1>1. PICK c \in Nat, s \in Nat \ {0} : c = note[n].created_at /\ s = SecondsPerDay
    BY NotesAssumption, FiltersAssumption
  <1>2. PICK a \in Nat, b \in Nat : a = f.since /\ b = f.until
    BY FiltersAssumption
  <1>3. a <= c /\ c <= b
    BY <1>1, <1>2 DEF Matches, MatchesWithoutSearch
  <1>4. PICK q \in Nat, r \in Nat : q = c \div s /\ r < s /\ q * s + r = c
    BY <1>1, Division
  <1>5. (q + 1) * s = q * s + s
    BY <1>1, <1>4
  <1>6. PICK p \in Nat, t \in Nat : p = q * s /\ t = (q + 1) * s
    BY <1>1, <1>4
  <1>7. p + r = c /\ t = p + s
    BY <1>4, <1>5, <1>6
  <1>8. a <= t - 1 /\ p <= b
    BY <1>1, <1>2, <1>3, <1>4, <1>6, <1>7
  <1>9. DayOf(n) = q
    BY <1>1, <1>4 DEF DayOf
  <1> QED BY <1>1, <1>2, <1>6, <1>8, <1>9 DEF PartitionDayOverlaps

\* An answer has a note from the hot file or from the partition, each with its
\* own tests.
LEMMA Answers ==
  ASSUME TypeOK, NEW f \in Filters, NEW index, NEW n \in Stored, Matches(f, n)
  PROVE  n \in Answer(f, index) <=>
           /\ IsSearch(f) => VisibleInIndex(index, n)
           /\ n \in Snapshot \/ (n \in Merged /\ VisibleInStore(store, n))
  <1>1. /\ n \in Notes /\ DayOf(n) \in Days
        /\ \A d \in Days : n \in partition[d] => DayOf(n) = d
    BY DaysAssumption DEF TypeOK, Stored, Snapshot, Merged
  <1>2. PartitionDayOverlaps(DayOf(n), f)
    BY <1>1, DayIsRead
  <1>3. ASSUME NEW d \in Days
        PROVE  n \in Found(f, d, Snapshot, index, partition, store) <=>
                 /\ DayOf(n) = d
                 /\ IsSearch(f) => VisibleInIndex(index, n)
                 /\ n \in Snapshot \/ (n \in partition[d] /\ VisibleInStore(store, n))
    BY <1>1, <1>2 DEF Found, HotMatches, PartitionMatches
  <1>4. n \in Answer(f, index) <=>
          \E d \in Days : n \in Found(f, d, Snapshot, index, partition, store)
    BY DEF Answer
  <1>5. n \in Merged <=> n \in partition[DayOf(n)]
    BY <1>1 DEF Merged
  <1> QED BY <1>1, <1>3, <1>4, <1>5

\* What the state tells of the notes in it.
LEMMA Sources ==
  ASSUME TypeOK, StoreInv
  PROVE  /\ Snapshot \in SUBSET Notes /\ Merged \in SUBSET Notes /\ Stored = Snapshot \cup Merged
         /\ \E M \in SUBSET Merged : store = Summary(M) /\ Merged \ Snapshot \subseteq M
  <1>1. Snapshot \in SUBSET Notes /\ Merged \in SUBSET Notes /\ Stored = Snapshot \cup Merged
    BY DEF TypeOK, Snapshot, Merged, Stored
  <1>2. PICK M \in SUBSET Merged :
          /\ store = Summary(M)
          /\ \A n \in Merged \ M : n \in compacting /\ phase[DayOf(n)] = "renamed"
    BY DEF StoreInv
  <1>3. Merged \ Snapshot \subseteq M
    BY <1>2 DEF Snapshot
  <1> QED BY <1>1, <1>2, <1>3

\* A search shows a matching note exactly if nothing in the storage hides it, in
\* every state of a compaction, unless a note arrived late.
THEOREM SearchesExact == Spec => []SearchExact
  <1>1. ASSUME TypeOK, StoreInv, NEW f \in Searches, NEW n \in Stored,
               ~Disturbed(n), Matches(f, n)
        PROVE  n \in Answer(f, Summary(Snapshot)) <=> Visible(n)
    <2>1. /\ Snapshot \in SUBSET Notes /\ Merged \in SUBSET Notes
          /\ Stored = Snapshot \cup Merged /\ n \in Notes
      BY <1>1, Sources
    <2>2. PICK M \in SUBSET Merged : store = Summary(M) /\ Merged \ Snapshot \subseteq M
      BY <1>1, Sources
    <2>3. n \in Answer(f, Summary(Snapshot)) <=>
            /\ VisibleInIndex(Summary(Snapshot), n)
            /\ n \in Snapshot \/ (n \in Merged /\ VisibleInStore(store, n))
      <3>1. f \in Filters /\ IsSearch(f)
        BY DEF Searches
      <3> QED BY <1>1, <3>1, Answers
    <2>4. VisibleInStore(store, n) <=> M \cap HiddenBy[n] = {}
      BY <2>1, <2>2, StoreShows
    <2>5. VisibleInIndex(Summary(Snapshot), n) <=>
            /\ Snapshot \cap HiddenBy[n] = {}
            /\ n \notin Snapshot => \A m \in Snapshot : ~Supersedes(n, m)
      BY <2>1, IndexShows
    <2>6. Visible(n) <=> Snapshot \cap HiddenBy[n] = {} /\ Merged \cap HiddenBy[n] = {}
      BY <2>1 DEF Visible
    <2>7. CASE n \in Snapshot
      <3>1. (Merged \ Snapshot) \cap HiddenBy[n] = {}
        BY <1>1, <2>7 DEF Disturbed
      <3> QED BY <2>3, <2>5, <2>6, <2>7, <3>1
    <2>8. CASE n \notin Snapshot
      <3>1. n \in Merged
        BY <2>1, <2>8
      <3>2. ASSUME NEW m \in Snapshot PROVE ~Supersedes(n, m)
        <4>1. SUFFICES ASSUME Supersedes(n, m) PROVE FALSE
          OBVIOUS
        <4>2. SameKey(m, n) /\ n \in HiddenBy[m]
          BY <2>1, <4>1 DEF Supersedes, SameKey, HiddenBy
        <4>3. n \in (Merged \ Snapshot) \cap HiddenBy[m]
          BY <2>8, <3>1, <4>2
        <4> QED BY <1>1, <4>2, <4>3 DEF Disturbed
      <3>3. (Snapshot \cup M) \cap HiddenBy[n] = (Snapshot \cup Merged) \cap HiddenBy[n]
        BY <2>2
      <3> QED BY <2>3, <2>4, <2>5, <2>6, <2>8, <3>1, <3>2, <3>3
    <2> QED BY <2>7, <2>8
  <1>2. TypeOK /\ StoreInv => SearchExact
    BY <1>1 DEF SearchExact
  <1> QED BY <1>2, StoreIsASummary, PTL

\* A query without a search shows the notes of the snapshot, and of the partitions
\* those that nothing merged hides; a compaction that has put an old version and a
\* newer one away hides the old one from then on (PacketCursor::partition, which
\* asks the store without a search too).
THEOREM PlainFollows == Spec => []PlainFollowsCompaction
  <1>1. ASSUME TypeOK, StoreInv, NEW f \in Filters \ Searches, NEW index, NEW n \in Stored,
               Matches(f, n)
        PROVE  /\ n \in Snapshot \/ Merged \cap HiddenBy[n] = {} => n \in Answer(f, index)
               /\ n \in Answer(f, index) =>
                    n \in Snapshot \/ (Merged \ Snapshot) \cap HiddenBy[n] = {}
    <2>1. Merged \in SUBSET Notes /\ Stored = Snapshot \cup Merged /\ n \in Notes
      BY <1>1, Sources
    <2>2. PICK M \in SUBSET Merged : store = Summary(M) /\ Merged \ Snapshot \subseteq M
      BY <1>1, Sources
    <2>3. VisibleInStore(store, n) <=> M \cap HiddenBy[n] = {}
      BY <2>1, <2>2, StoreShows
    <2>4. ~IsSearch(f) /\ f \in Filters
      BY <1>1 DEF Searches
    <2>5. n \in Answer(f, index) <=> n \in Snapshot \/ (n \in Merged /\ VisibleInStore(store, n))
      BY <1>1, <2>4, Answers
    <2>6. M \subseteq Merged
      BY <2>2
    <2>7. n \in Snapshot \/ Merged \cap HiddenBy[n] = {} => n \in Answer(f, index)
      BY <2>1, <2>3, <2>5, <2>6
    <2>8. n \in Answer(f, index) => n \in Snapshot \/ (Merged \ Snapshot) \cap HiddenBy[n] = {}
      BY <2>2, <2>3, <2>5
    <2> QED BY <2>7, <2>8
  <1>2. TypeOK /\ StoreInv => PlainFollowsCompaction
    BY <1>1 DEF PlainFollowsCompaction
  <1> QED BY <1>2, StoreIsASummary, PTL

\* With nothing left to compact, a search answers the visible notes that match and
\* nothing else: in what order they came, how often, and where they were while they
\* were merged makes no difference any more.
THEOREM OrderForgotten ==
  Spec => [](Snapshot = {} => \A f \in Searches :
               Answer(f, Summary({})) = {n \in Stored : Matches(f, n) /\ Visible(n)})
  <1>1. ASSUME TypeOK, SearchExact, Snapshot = {}, NEW f \in Searches
        PROVE  Answer(f, Summary({})) = {n \in Stored : Matches(f, n) /\ Visible(n)}
    <2>1. ASSUME NEW n \in Answer(f, Summary({})) PROVE n \in Stored /\ Matches(f, n)
      <3>1. PICK d \in Days : n \in Found(f, d, Snapshot, Summary({}), partition, store)
        BY <2>1, <1>1 DEF Answer
      <3>2. n \in partition[d] /\ Matches(f, n)
        BY <1>1, <3>1 DEF Found, HotMatches, PartitionMatches
      <3> QED BY <3>2 DEF Stored, Merged
    <2>2. ASSUME NEW n \in Stored, Matches(f, n) PROVE n \in Answer(f, Summary({})) <=> Visible(n)
      <3>1. ~Disturbed(n)
        BY <1>1 DEF Disturbed
      <3> QED BY <1>1, <2>2, <3>1 DEF SearchExact
    <2> QED BY <2>1, <2>2
  <1>2. TypeOK /\ SearchExact =>
          (Snapshot = {} => \A f \in Searches :
             Answer(f, Summary({})) = {n \in Stored : Matches(f, n) /\ Visible(n)})
    BY <1>1
  <1> QED BY <1>2, SearchesExact, TypeCorrect, PTL

(***************************************************************************)
(* Induction over numbers, of sets.                                        *)
(***************************************************************************)
\* Every set of numbers has a least one.
LEMMA Least ==
  ASSUME NEW T \in SUBSET Nat, T # {}
  PROVE  \E m \in T : \A k \in T : m <= k
  <1>1. PICK m \in T : \A k \in T : <<k, m>> \notin OpToRel(<, Nat)
    BY NatLessThanWellFounded, WFMin
  <1>2. ASSUME NEW k \in T, ~(m <= k) PROVE FALSE
    <2>1. k \in Nat /\ m \in Nat /\ k < m
      BY <1>2
    <2>2. <<k, m>> \in OpToRel(<, Nat)
      BY <2>1, Zenon DEF OpToRel
    <2> QED BY <1>1, <2>2
  <1> QED BY <1>2

LEMMA Induction ==
  ASSUME NEW T, 0 \in T, \A n \in Nat : n \in T => n + 1 \in T
  PROVE  Nat \subseteq T
  <1> SUFFICES ASSUME Nat \ T # {} PROVE FALSE
    OBVIOUS
  <1>1. PICK m \in Nat \ T : \A k \in Nat \ T : m <= k
    BY Least
  <1>2. m - 1 \in Nat /\ ~(m <= m - 1) /\ (m - 1) + 1 = m
    BY <1>1
  <1> QED BY <1>1, <1>2

(***************************************************************************)
(* The places in an order.                                                 *)
(***************************************************************************)
\* R is a strict total order of S, as a set of pairs; and how many are before each.
Orders(R, S) ==
  /\ \A a \in S : <<a, a>> \notin R
  /\ \A a, b \in S : a = b \/ <<a, b>> \in R \/ <<b, a>> \in R
  /\ \A a, b, c \in S : <<a, b>> \in R /\ <<b, c>> \in R => <<a, c>> \in R

Places(R, S) == [n \in S |-> Cardinality({m \in S : <<m, n>> \in R})]

\* In a finite set with a strict total order, as many are before an element as
\* its place says, and every place is taken.
LEMMA Ranks ==
  ASSUME NEW S, IsFiniteSet(S), NEW R, Orders(R, S)
  PROVE  /\ Places(R, S) \in [S -> 0..(Cardinality(S) - 1)]
         /\ \A a, b \in S : <<a, b>> \in R <=> Places(R, S)[a] < Places(R, S)[b]
         /\ \A i \in 0..(Cardinality(S) - 1) : \E n \in S : Places(R, S)[n] = i
  <1> DEFINE rank == Places(R, S)
  <1> DEFINE Below(n) == {m \in S : <<m, n>> \in R}
  <1>1. Cardinality(S) \in Nat
    BY FS_CardinalityType
  <1>2. ASSUME NEW n \in S
        PROVE  /\ IsFiniteSet(Below(n)) /\ Cardinality(Below(n)) \in Nat
               /\ Cardinality(Below(n)) < Cardinality(S)
    <2>1. Below(n) \in SUBSET S /\ n \notin Below(n)
      BY DEF Orders
    <2> HIDE DEF Below
    <2>2. IsFiniteSet(Below(n)) /\ Cardinality(Below(n)) <= Cardinality(S)
          /\ Cardinality(S) # Cardinality(Below(n))
      BY <2>1, FS_Subset
    <2> QED BY <1>1, <2>2, FS_CardinalityType
  <1>3. ASSUME NEW a \in S, NEW b \in S, <<a, b>> \in R
        PROVE  Cardinality(Below(a)) < Cardinality(Below(b))
    <2>1. Below(a) \in SUBSET Below(b) /\ a \in Below(b) /\ a \notin Below(a)
      BY <1>3 DEF Orders
    <2>2. IsFiniteSet(Below(b)) /\ Cardinality(Below(b)) \in Nat /\ Cardinality(Below(a)) \in Nat
      BY <1>2
    <2> HIDE DEF Below
    <2>3. Cardinality(Below(a)) <= Cardinality(Below(b))
          /\ Cardinality(Below(b)) # Cardinality(Below(a))
      BY <2>1, <2>2, FS_Subset
    <2> QED BY <2>2, <2>3
  <1>4. rank = [n \in S |-> Cardinality(Below(n))]
    BY DEF Places
  <1> HIDE DEF Below, rank
  <1>5. rank \in [S -> 0..(Cardinality(S) - 1)]
    <2>1. \A n \in S : rank[n] \in 0..(Cardinality(S) - 1)
      BY <1>1, <1>2, <1>4
    <2> QED BY <1>4, <2>1
  <1>6. ASSUME NEW a \in S, NEW b \in S PROVE <<a, b>> \in R <=> rank[a] < rank[b]
    <2>1. rank[a] \in Nat /\ rank[b] \in Nat
      BY <1>2, <1>4
    <2>2. <<a, b>> \in R => rank[a] < rank[b]
      BY <1>3, <1>4
    <2>3. <<b, a>> \in R => rank[b] < rank[a]
      BY <1>3, <1>4
    <2> QED BY <2>1, <2>2, <2>3 DEF Orders
  <1>7. rank \in Injection(S, 0..(Cardinality(S) - 1))
    <2>1. ASSUME NEW a \in S, NEW b \in S, rank[a] = rank[b] PROVE a = b
      <3>1. rank[a] \in Nat /\ rank[b] \in Nat
        BY <1>2, <1>4
      <3> QED BY <1>6, <2>1, <3>1 DEF Orders
    <2> QED BY <1>5, <2>1 DEF Injection, IsInjective
  <1>8. /\ IsFiniteSet(0..(Cardinality(S) - 1))
        /\ Cardinality(0..(Cardinality(S) - 1)) = Cardinality(S)
    BY <1>1, FS_Interval
  <1>9. rank \in Surjection(S, 0..(Cardinality(S) - 1))
    BY <1>7, <1>8, FS_Injection
  <1> QED BY <1>5, <1>6, <1>9 DEF Surjection, rank

Rank(n, S) == Cardinality({m \in S : Before(m, n)})

LEMMA NoteRanks ==
  ASSUME NEW S \in SUBSET Notes
  PROVE  /\ IsFiniteSet(S) /\ Cardinality(S) \in Nat
         /\ \A n \in S : Rank(n, S) \in Nat /\ Rank(n, S) < Cardinality(S)
         /\ \A a, b \in S : Before(a, b) <=> Rank(a, S) < Rank(b, S)
         /\ \A i \in Nat : i < Cardinality(S) => \E n \in S : Rank(n, S) = i
  <1> DEFINE R == {p \in Notes \X Notes : Before(p[1], p[2])}
             rank == Places(R, S)
  <1>1. \A a, b \in S : <<a, b>> \in R <=> Before(a, b)
    OBVIOUS
  <1>2. IsFiniteSet(S) /\ Cardinality(S) \in Nat
    BY NotesAssumption, FS_Subset, FS_CardinalityType
  <1>3. \A n \in S : rank[n] = Rank(n, S)
    <2> TAKE n \in S
    <2>1. {m \in S : <<m, n>> \in R} = {m \in S : Before(m, n)}
      BY <1>1
    <2> QED BY <2>1 DEF Rank, Places
  <1>4. Orders(R, S)
    <2>1. S \subseteq Notes
      OBVIOUS
    <2> HIDE DEF R
    <2> QED BY <1>1, <2>1, Order DEF Orders
  <1> HIDE DEF R
  <1>5. /\ rank \in [S -> 0..(Cardinality(S) - 1)]
        /\ \A a, b \in S : <<a, b>> \in R <=> rank[a] < rank[b]
        /\ \A i \in 0..(Cardinality(S) - 1) : \E n \in S : rank[n] = i
    BY <1>2, <1>4, Ranks
  <1>6. \A n \in S : rank[n] \in 0..(Cardinality(S) - 1)
    BY <1>5
  <1>7. \A i \in Nat : i < Cardinality(S) => i \in 0..(Cardinality(S) - 1)
    BY <1>2
  <1>8. \A n \in S : Rank(n, S) \in Nat /\ Rank(n, S) < Cardinality(S)
    BY <1>2, <1>3, <1>6
  <1>9. \A i \in Nat : i < Cardinality(S) => \E n \in S : Rank(n, S) = i
    BY <1>3, <1>5, <1>7, Zenon
  <1>10. \A a, b \in S : Before(a, b) <=> Rank(a, S) < Rank(b, S)
    BY <1>1, <1>3, <1>5, Zenon
  <1> QED BY <1>2, <1>8, <1>9, <1>10

\* sort_packets gives each note its place.
LEMMA SortedIs ==
  ASSUME NEW S \in SUBSET Notes
  PROVE  /\ Sorted(S) \in Seq(Notes) /\ Len(Sorted(S)) = Cardinality(S)
         /\ \A i \in 1..Cardinality(S) : Sorted(S)[i] \in S /\ Rank(Sorted(S)[i], S) = i - 1
  <1>1. Cardinality(S) \in Nat
    BY NoteRanks
  <1>2. \A i \in 1..Cardinality(S) : Sorted(S)[i] = CHOOSE n \in S : Rank(n, S) = i - 1
    BY DEF Sorted, Rank
  <1>3. \A i \in 1..Cardinality(S) : \E n \in S : Rank(n, S) = i - 1
    <2> TAKE i \in 1..Cardinality(S)
    <2>1. i - 1 \in Nat /\ i - 1 < Cardinality(S)
      BY <1>1
    <2> QED BY <2>1, NoteRanks
  <1>4. \A i \in 1..Cardinality(S) : Sorted(S)[i] \in S /\ Rank(Sorted(S)[i], S) = i - 1
    BY <1>2, <1>3
  <1>5. PICK seq : seq = Sorted(S)
    OBVIOUS
  <1> DEFINE at(i) == CHOOSE n \in S : Cardinality({m \in S : Before(m, n)}) = i - 1
  <1>6. seq = [i \in 1..Cardinality(S) |-> at(i)]
    BY <1>5 DEF Sorted
  <1> HIDE DEF at
  <1>7. seq = [i \in 1..Cardinality(S) |-> seq[i]]
    BY <1>6
  <1>8. seq \in Seq(Notes) /\ Len(seq) = Cardinality(S)
    <2>1. PICK n \in Nat : n = Cardinality(S)
      BY <1>1
    <2>2. \A i \in 1..n : seq[i] \in Notes
      BY <1>4, <1>5, <2>1
    <2>3. seq = [i \in 1..n |-> seq[i]]
      BY <1>7, <2>1
    <2>4. seq \in Seq(Notes) /\ Len(seq) = n
      BY <2>2, <2>3
    <2> QED BY <2>1, <2>4
  <1> QED BY <1>4, <1>5, <1>8

LEMMA SortedOnly ==
  ASSUME NEW S \in SUBSET Notes, NEW seq \in Seq(Notes), Len(seq) = Cardinality(S),
         \A i \in 1..Len(seq) : seq[i] \in S /\ Rank(seq[i], S) = i - 1
  PROVE  seq = Sorted(S)
  <1>1. /\ Sorted(S) \in Seq(Notes) /\ Len(Sorted(S)) = Cardinality(S)
        /\ \A i \in 1..Cardinality(S) : Sorted(S)[i] \in S /\ Rank(Sorted(S)[i], S) = i - 1
    BY SortedIs
  <1>2. ASSUME NEW a \in S, NEW b \in S, Rank(a, S) = Rank(b, S) PROVE a = b
    <2>1. Rank(a, S) \in Nat /\ ~(Rank(a, S) < Rank(b, S)) /\ ~(Rank(b, S) < Rank(a, S))
      BY <1>2, NoteRanks
    <2>2. ~Before(a, b) /\ ~Before(b, a)
      BY <2>1, NoteRanks
    <2> QED BY <2>2, Order
  <1>3. \A i \in 1..Len(seq) : seq[i] = Sorted(S)[i]
    BY <1>1, <1>2
  <1> QED BY <1>1, <1>3

\* What comes before everything of another set is sorted before it.
LEMMA RanksOfUnion ==
  ASSUME NEW X \in SUBSET Notes, NEW Y \in SUBSET Notes,
         \A x \in X, y \in Y : Before(x, y)
  PROVE  /\ Cardinality(X \cup Y) = Cardinality(X) + Cardinality(Y)
         /\ \A x \in X : Rank(x, X \cup Y) = Rank(x, X)
         /\ \A y \in Y : Rank(y, X \cup Y) = Cardinality(X) + Rank(y, Y)
  <1>1. X \cap Y = {}
    BY Order
  <1>2. ASSUME NEW Z \in SUBSET Y PROVE Cardinality(X \cup Z) = Cardinality(X) + Cardinality(Z)
    <2>1. X \cap Z = {} /\ Z \in SUBSET Notes
      BY <1>1
    <2>2. /\ IsFiniteSet(X) /\ IsFiniteSet(Z) /\ Cardinality(X) \in Nat /\ Cardinality(Z) \in Nat
      BY <2>1, NoteRanks
    <2>3. Cardinality(X \cup Z) = Cardinality(X) + Cardinality(Z) - Cardinality(X \cap Z)
      BY <2>2, FS_Union
    <2>4. Cardinality(X \cap Z) = 0
      BY <2>1, FS_EmptySet
    <2> QED BY <2>2, <2>3, <2>4
  <1>3. ASSUME NEW x \in X PROVE Rank(x, X \cup Y) = Rank(x, X)
    <2>1. {m \in X \cup Y : Before(m, x)} = {m \in X : Before(m, x)}
      BY Order
    <2> QED BY <2>1 DEF Rank
  <1>4. ASSUME NEW y \in Y PROVE Rank(y, X \cup Y) = Cardinality(X) + Rank(y, Y)
    <2>1. {m \in X \cup Y : Before(m, y)} = X \cup {m \in Y : Before(m, y)}
      OBVIOUS
    <2>2. {m \in Y : Before(m, y)} \in SUBSET Y
      OBVIOUS
    <2> QED BY <1>2, <2>1, <2>2 DEF Rank
  <1> QED BY <1>2, <1>3, <1>4

LEMMA SortedUnion ==
  ASSUME NEW X \in SUBSET Notes, NEW Y \in SUBSET Notes,
         \A x \in X, y \in Y : Before(x, y)
  PROVE  Sorted(X) \o Sorted(Y) = Sorted(X \cup Y)
  <1> DEFINE seq == Sorted(X) \o Sorted(Y)
  <1>1. /\ Sorted(X) \in Seq(Notes) /\ Len(Sorted(X)) = Cardinality(X) /\ Cardinality(X) \in Nat
        /\ Sorted(Y) \in Seq(Notes) /\ Len(Sorted(Y)) = Cardinality(Y) /\ Cardinality(Y) \in Nat
    BY SortedIs, NoteRanks
  <1>2. /\ Cardinality(X \cup Y) = Cardinality(X) + Cardinality(Y)
        /\ \A x \in X : Rank(x, X \cup Y) = Rank(x, X)
        /\ \A y \in Y : Rank(y, X \cup Y) = Cardinality(X) + Rank(y, Y)
    BY RanksOfUnion
  <1>3. seq \in Seq(Notes) /\ Len(seq) = Cardinality(X \cup Y)
    BY <1>1, <1>2
  <1>4. ASSUME NEW i \in 1..Len(seq) PROVE seq[i] \in X \cup Y /\ Rank(seq[i], X \cup Y) = i - 1
    <2>1. CASE i <= Cardinality(X)
      <3>1. i \in 1..Cardinality(X) /\ seq[i] = Sorted(X)[i]
        BY <1>1, <2>1
      <3>2. Sorted(X)[i] \in X /\ Rank(Sorted(X)[i], X) = i - 1
        BY <3>1, SortedIs
      <3> QED BY <3>1, <3>2, <1>2
    <2>2. CASE i > Cardinality(X)
      <3> DEFINE k == i - Cardinality(X)
      <3>1. k \in 1..Cardinality(Y) /\ seq[i] = Sorted(Y)[k] /\ i = Cardinality(X) + k /\ i \in Nat
        BY <1>1, <2>2
      <3> HIDE DEF k, seq
      <3>2. Sorted(Y)[k] \in Y /\ Rank(Sorted(Y)[k], Y) = k - 1
        BY <3>1, SortedIs
      <3>3. Rank(Sorted(Y)[k], X \cup Y) = Cardinality(X) + Rank(Sorted(Y)[k], Y)
        BY <3>2, <1>2
      <3>4. k \in Nat
        BY <1>1, <3>1
      <3> QED BY <1>1, <3>1, <3>2, <3>3, <3>4
    <2> QED BY <1>1, <1>3, <2>1, <2>2
  <1> HIDE DEF seq
  <1>5. seq = Sorted(X \cup Y)
    BY <1>3, <1>4, SortedOnly
  <1> QED BY <1>5 DEF seq

(***************************************************************************)
(* Limits.                                                                 *)
(***************************************************************************)
LEMMA NewestIs ==
  ASSUME NEW S \in SUBSET Notes, NEW limit \in Nat
  PROVE  /\ Newest(limit, S) = {n \in S : Rank(n, S) < limit}
         /\ Newest(limit, S) \in SUBSET Notes /\ Newest(limit, S) \in SUBSET S
         /\ Cardinality(S) <= limit => Newest(limit, S) = S
         /\ Cardinality(Newest(limit, S)) = IF Cardinality(S) <= limit THEN Cardinality(S) ELSE limit
  <1>1. Newest(limit, S) = {n \in S : Rank(n, S) < limit}
    BY DEF Newest, Rank
  <1>2. Cardinality(S) \in Nat /\ \A n \in S : Rank(n, S) \in Nat /\ Rank(n, S) < Cardinality(S)
    BY NoteRanks
  <1>3. Cardinality(S) <= limit => Newest(limit, S) = S
    BY <1>1, <1>2
  <1>4. ASSUME limit < Cardinality(S) PROVE Cardinality(Newest(limit, S)) = limit
    <2> DEFINE seq == Sorted(S)
               b == [i \in 1..limit |-> seq[i]]
    <2>1. \A i \in 1..limit : i \in 1..Cardinality(S) /\ i - 1 < limit
      BY <1>2, <1>4
    <2>2. \A i \in 1..Cardinality(S) : seq[i] \in S /\ Rank(seq[i], S) = i - 1
      BY SortedIs
    <2> HIDE DEF seq
    <2>3. \A i \in 1..limit : b[i] \in S /\ Rank(b[i], S) = i - 1
      BY <2>1, <2>2
    <2>4. b \in [1..limit -> Newest(limit, S)]
      BY <1>1, <2>1, <2>3
    <2>5. ASSUME NEW i \in 1..limit, NEW k \in 1..limit, b[i] = b[k] PROVE i = k
      <3>1. i - 1 = k - 1
        BY <2>3, <2>5
      <3> QED BY <3>1
    <2>6. ASSUME NEW n \in Newest(limit, S) PROVE \E i \in 1..limit : b[i] = n
      <3>1. n \in S /\ Rank(n, S) \in Nat /\ Rank(n, S) < limit
        BY <1>1, <1>2
      <3>2. PICK i \in Nat : i = Rank(n, S) + 1
        BY <3>1
      <3>3. i \in 1..limit /\ i - 1 = Rank(n, S)
        BY <3>1, <3>2
      <3>4. b[i] \in S /\ Rank(b[i], S) = Rank(n, S)
        BY <2>3, <3>3
      <3>5. ~Before(b[i], n) /\ ~Before(n, b[i])
        <4>1. ~(Rank(b[i], S) < Rank(n, S)) /\ ~(Rank(n, S) < Rank(b[i], S))
          BY <3>1, <3>4
        <4> QED BY <3>1, <3>4, <4>1, NoteRanks
      <3> QED BY <3>1, <3>3, <3>4, <3>5, Order
    <2> HIDE DEF b
    <2>7. b \in Bijection(1..limit, Newest(limit, S))
      BY <2>4, <2>5, <2>6 DEF Bijection, Injection, Surjection, IsInjective
    <2> QED BY <2>7, FS_CountingElements DEF ExistsBijection
  <1> QED BY <1>1, <1>2, <1>3, <1>4

\* What the limit leaves after the first notes is taken from those behind them.
LEMMA NewestOfUnion ==
  ASSUME NEW X \in SUBSET Notes, NEW Y \in SUBSET Notes, NEW limit \in Nat,
         \A x \in X, y \in Y : Before(x, y)
  PROVE  /\ limit - Cardinality(Newest(limit, X)) \in Nat
         /\ Newest(limit, X \cup Y)
              = Newest(limit, X) \cup Newest(limit - Cardinality(Newest(limit, X)), Y)
  <1>1. /\ \A x \in X : Rank(x, X \cup Y) = Rank(x, X)
        /\ \A y \in Y : Rank(y, X \cup Y) = Cardinality(X) + Rank(y, Y)
    BY RanksOfUnion
  <1>2. /\ Cardinality(X) \in Nat /\ \A x \in X : Rank(x, X) \in Nat /\ Rank(x, X) < Cardinality(X)
        /\ Cardinality(Y) \in Nat /\ \A y \in Y : Rank(y, Y) \in Nat
    BY NoteRanks
  <1>3. Cardinality(Newest(limit, X)) = IF Cardinality(X) <= limit THEN Cardinality(X) ELSE limit
    BY NewestIs
  <1>4. PICK left \in Nat : left = limit - Cardinality(Newest(limit, X))
    BY <1>2, <1>3
  <1>5. /\ Newest(limit, X \cup Y) = {n \in X \cup Y : Rank(n, X \cup Y) < limit}
        /\ Newest(limit, X) = {n \in X : Rank(n, X) < limit}
        /\ Newest(left, Y) = {n \in Y : Rank(n, Y) < left}
    <2>1. X \cup Y \in SUBSET Notes
      OBVIOUS
    <2> QED BY <1>4, <2>1, NewestIs
  <1>6. \A y \in Y : Rank(y, X \cup Y) < limit <=> Rank(y, Y) < left
    <2> TAKE y \in Y
    <2>1. Rank(y, X \cup Y) = Cardinality(X) + Rank(y, Y) /\ Rank(y, Y) \in Nat
      BY <1>1, <1>2
    <2>2. CASE Cardinality(X) <= limit
      <3>1. left = limit - Cardinality(X)
        BY <1>3, <1>4, <2>2
      <3> QED BY <1>2, <2>1, <3>1
    <2>3. CASE ~(Cardinality(X) <= limit)
      <3>1. left = 0
        BY <1>3, <1>4, <2>3
      <3> QED BY <1>2, <2>1, <2>3, <3>1
    <2> QED BY <2>2, <2>3
  <1> QED BY <1>1, <1>4, <1>5, <1>6

(***************************************************************************)
(* The days, newest first.                                                 *)
(***************************************************************************)
LEMMA DescendingIs ==
  /\ Cardinality(Days) \in Nat /\ Len(Descending(Days)) = Cardinality(Days)
  /\ \A i \in 1..Cardinality(Days) : Descending(Days)[i] \in Days
  /\ \A i, k \in 1..Cardinality(Days) : i < k => Descending(Days)[i] > Descending(Days)[k]
  /\ \A d \in Days : \E i \in 1..Cardinality(Days) : Descending(Days)[i] = d
  <1> DEFINE R == {p \in Days \X Days : p[1] > p[2]}
             m == Cardinality(Days)
             place == Places(R, Days)
             days == Descending(Days)
  <1>1. IsFiniteSet(Days) /\ Days \subseteq Int /\ m \in Nat
    BY DaysAssumption, FS_CardinalityType
  <1>2. \A d, e \in Days : <<d, e>> \in R <=> d > e
    OBVIOUS
  <1>3. Orders(R, Days)
    BY <1>1, <1>2 DEF Orders
  <1>4. /\ place \in [Days -> 0..(m - 1)]
        /\ \A d, e \in Days : <<d, e>> \in R <=> place[d] < place[e]
        /\ \A i \in 0..(m - 1) : \E d \in Days : place[d] = i
    BY <1>1, <1>3, Ranks
  <1>5. ASSUME NEW d \in Days PROVE place[d] = Cardinality({e \in Days : e > d})
    <2>1. {e \in Days : <<e, d>> \in R} = {e \in Days : e > d}
      BY <1>2
    <2> QED BY <2>1 DEF Places
  <1> HIDE DEF R, place
  <1>6. days = [i \in 1..m |-> CHOOSE d \in Days : Cardinality({e \in Days : e > d}) = i - 1]
    BY DEF Descending
  <1>7. ASSUME NEW i \in 1..m PROVE days[i] \in Days /\ place[days[i]] = i - 1
    <2>1. i - 1 \in 0..(m - 1)
      BY <1>1
    <2>2. \E d \in Days : Cardinality({e \in Days : e > d}) = i - 1
      BY <1>4, <1>5, <2>1
    <2>3. days[i] \in Days /\ Cardinality({e \in Days : e > days[i]}) = i - 1
      BY <1>6, <2>2
    <2> QED BY <1>5, <2>3
  <1>8. Len(days) = m
    BY <1>1, <1>6
  <1> HIDE DEF days
  <1>9. ASSUME NEW i \in 1..m, NEW k \in 1..m, i < k PROVE days[i] > days[k]
    <2>1. place[days[i]] < place[days[k]]
      BY <1>7, <1>9
    <2> QED BY <1>2, <1>4, <1>7, <2>1
  <1>10. ASSUME NEW d \in Days PROVE \E i \in 1..m : days[i] = d
    <2>1. place[d] \in 0..(m - 1)
      BY <1>4
    <2>2. PICK i \in 1..m : i - 1 = place[d]
      <3>1. place[d] + 1 \in 1..m /\ (place[d] + 1) - 1 = place[d]
        BY <1>1, <2>1
      <3> QED BY <3>1
    <2>3. days[i] \in Days /\ place[days[i]] = place[d]
      BY <1>7, <2>2
    <2>4. ~(days[i] > d) /\ ~(d > days[i])
      <3>1. ~(place[days[i]] < place[d]) /\ ~(place[d] < place[days[i]])
        BY <2>1, <2>3
      <3>2. <<days[i], d>> \notin R /\ <<d, days[i]>> \notin R
        BY <1>4, <2>3, <3>1
      <3> QED BY <1>2, <2>3, <3>2
    <2>5. days[i] \in Int /\ d \in Int
      BY <1>1, <2>3
    <2> QED BY <2>2, <2>4, <2>5
  <1> QED BY <1>1, <1>7, <1>8, <1>9, <1>10 DEF days

\* A note of a later day comes before those of earlier ones.
LEMMA DaysInOrder ==
  ASSUME NEW a \in Notes, NEW b \in Notes, DayOf(a) > DayOf(b)
  PROVE  Before(a, b)
  <1>1. PICK c \in Nat, e \in Nat, s \in Nat \ {0} :
          c = note[a].created_at /\ e = note[b].created_at /\ s = SecondsPerDay
    BY NotesAssumption, FiltersAssumption
  <1>2. PICK p \in Nat, r \in Nat : p = c \div s /\ r < s /\ p * s + r = c
    BY <1>1, Division
  <1>3. PICK q \in Nat, t \in Nat : q = e \div s /\ t < s /\ q * s + t = e
    BY <1>1, Division
  <1>4. p > q
    BY <1>1, <1>2, <1>3 DEF DayOf
  <1>5. PICK k \in Nat : p = q + (1 + k)
    <2>1. p - q - 1 \in Nat /\ p = q + (1 + (p - q - 1))
      BY <1>4
    <2> QED BY <2>1
  <1>6. p * s = q * s + (s + k * s) /\ k * s \in Nat /\ q * s \in Nat
    BY <1>1, <1>5, Z3
  <1>7. PICK u \in Nat, v \in Nat, w \in Nat : u = q * s /\ v = k * s /\ w = p * s
    BY <1>1, <1>6
  <1>8. w = u + (s + v) /\ w + r = c /\ u + t = e
    BY <1>2, <1>3, <1>6, <1>7
  <1>9. c > e
    BY <1>1, <1>2, <1>3, <1>7, <1>8
  <1> QED BY <1>1, <1>9 DEF Before

(***************************************************************************)
(* The loop over the days.                                                 *)
(***************************************************************************)

\* What filters take of the notes they are given, and what a query has given
\* after it: the notes taken by any of them, in order.
Taken(filters, given) == UNION {{i} \X Newest(filters[i].limit, given[i]) : i \in DOMAIN filters}
Emitted(filters, given) == UNION {Newest(filters[i].limit, given[i]) : i \in DOMAIN filters}
After(filters, given) ==
  [taken |-> Taken(filters, given), out |-> Sorted(Emitted(filters, given))]

\* As many pairs as notes, if all are of one filter or query.
Tag(s, N) == {s} \X N

LEMMA Tagged ==
  ASSUME NEW s, NEW N \in SUBSET Notes
  PROVE  Cardinality(Tag(s, N)) = Cardinality(N)
  <1>1. IsFiniteSet(N) /\ Cardinality(N) \in Nat
    BY NoteRanks
  <1>2. IsFiniteSet({s}) /\ Cardinality({s}) = 1
    BY FS_Singleton
  <1>3. Cardinality({s} \X N) = Cardinality({s}) * Cardinality(N)
    BY <1>1, <1>2, FS_Product
  <1>4. PICK c \in Nat : c = Cardinality(N)
    BY <1>1
  <1>5. Cardinality({s} \X N) = 1 * c
    BY <1>2, <1>3, <1>4
  <1>6. Cardinality({s} \X N) = c
    BY <1>5
  <1> QED BY <1>4, <1>6 DEF Tag

LEMMA TakenBy ==
  ASSUME NEW filters, NEW given, NEW i \in DOMAIN filters,
         filters[i].limit \in Nat, given[i] \in SUBSET Notes
  PROVE  Cardinality({t \in Taken(filters, given) : t[1] = i})
           = Cardinality(Newest(filters[i].limit, given[i]))
  <1>1. PICK N \in SUBSET Notes : N = Newest(filters[i].limit, given[i])
    BY NewestIs
  <1>2. {t \in Taken(filters, given) : t[1] = i} = Tag(i, N)
    BY <1>1 DEF Taken, Tag
  <1> QED BY <1>1, <1>2, Tagged

\* A day, whose notes come after those of the days before it, brings a query to
\* where it would be if it had met the notes of all of them at once.
LEMMA DayStep ==
  ASSUME NEW filters, \A i \in DOMAIN filters : filters[i].limit \in Nat,
         NEW given \in [DOMAIN filters -> SUBSET Notes],
         NEW found \in [DOMAIN filters -> SUBSET Notes],
         \A i, j \in DOMAIN filters : \A x \in given[i], y \in found[j] : Before(x, y),
         NEW d
  PROVE  StreamDay(filters, d, After(filters, given), found)
           = After(filters, [i \in DOMAIN filters |-> given[i] \cup found[i]])
  <1> DEFINE both == [i \in DOMAIN filters |-> given[i] \cup found[i]]
             left(i) == filters[i].limit
                          - Cardinality({t \in After(filters, given).taken : t[1] = i})
             more(i) == Newest(left(i), found[i])
             taken == UNION {{i} \X more(i) : i \in DOMAIN filters}
             emitted == UNION {more(i) : i \in DOMAIN filters}
  <1>1. ASSUME NEW i \in DOMAIN filters
        PROVE  /\ left(i) \in Nat /\ more(i) \in SUBSET found[i]
               /\ Newest(filters[i].limit, both[i]) = Newest(filters[i].limit, given[i]) \cup more(i)
    <2>1. left(i) = filters[i].limit - Cardinality(Newest(filters[i].limit, given[i]))
      <3>1. After(filters, given).taken = Taken(filters, given)
        BY DEF After
      <3>2. filters[i].limit \in Nat /\ given[i] \in SUBSET Notes
        OBVIOUS
      <3>3. Cardinality({t \in Taken(filters, given) : t[1] = i})
              = Cardinality(Newest(filters[i].limit, given[i]))
        BY <3>2, TakenBy
      <3> QED BY <3>1, <3>3
    <2>2. /\ filters[i].limit - Cardinality(Newest(filters[i].limit, given[i])) \in Nat
          /\ Newest(filters[i].limit, given[i] \cup found[i])
               = Newest(filters[i].limit, given[i])
                 \cup Newest(filters[i].limit - Cardinality(Newest(filters[i].limit, given[i])), found[i])
      BY NewestOfUnion
    <2> HIDE DEF left
    <2>3. left(i) \in Nat
      BY <2>1, <2>2
    <2>4. more(i) \in SUBSET found[i]
      BY <2>3, NewestIs
    <2> QED BY <2>1, <2>2, <2>3, <2>4
  <1>2. StreamDay(filters, d, After(filters, given), found)
          = [taken |-> After(filters, given).taken \cup taken,
             out   |-> After(filters, given).out \o Sorted({t[2] : t \in taken})]
    BY DEF StreamDay
  <1>3. \A i \in DOMAIN filters : both[i] = given[i] \cup found[i]
    OBVIOUS
  <1> HIDE DEF left, more, both
  <1>4. {t[2] : t \in taken} = emitted
    <2>1. ASSUME NEW t \in taken PROVE t[2] \in emitted
      OBVIOUS
    <2>2. ASSUME NEW n \in emitted PROVE \E t \in taken : t[2] = n
      <3>1. PICK i \in DOMAIN filters : n \in more(i)
        BY <2>2
      <3>2. <<i, n>> \in taken /\ <<i, n>>[2] = n
        BY <3>1
      <3> QED BY <3>2
    <2> QED BY <2>1, <2>2
  <1>5. Taken(filters, given) \cup taken = Taken(filters, both)
    BY <1>1 DEF Taken
  <1>6. Emitted(filters, given) \cup emitted = Emitted(filters, both)
    <2>1. \A n : n \in Emitted(filters, given)
                   <=> \E i \in DOMAIN filters : n \in Newest(filters[i].limit, given[i])
      BY DEF Emitted
    <2>2. \A n : n \in emitted <=> \E i \in DOMAIN filters : n \in more(i)
      <3>1. ASSUME NEW n \in emitted PROVE \E i \in DOMAIN filters : n \in more(i)
        BY <3>1
      <3>2. ASSUME NEW i \in DOMAIN filters, NEW n \in more(i) PROVE n \in emitted
        OBVIOUS
      <3> HIDE DEF emitted
      <3> QED BY <3>1, <3>2
    <2>3. \A n : n \in Emitted(filters, both)
                   <=> \E i \in DOMAIN filters : n \in Newest(filters[i].limit, both[i])
      BY DEF Emitted
    <2>4. \A i \in DOMAIN filters :
            Newest(filters[i].limit, both[i]) = Newest(filters[i].limit, given[i]) \cup more(i)
      BY <1>1
    <2> HIDE DEF emitted
    <2>5. ASSUME NEW n
          PROVE  n \in Emitted(filters, given) \cup emitted <=> n \in Emitted(filters, both)
      <3>1. n \in Emitted(filters, both)
              <=> \E i \in DOMAIN filters : n \in Newest(filters[i].limit, given[i]) \/ n \in more(i)
        BY <2>3, <2>4
      <3> QED BY <2>1, <2>2, <3>1
    <2> QED BY <2>5
  <1>7. Sorted(Emitted(filters, given)) \o Sorted(emitted) = Sorted(Emitted(filters, both))
    <2>1. \A i \in DOMAIN filters : Newest(filters[i].limit, given[i]) \in SUBSET given[i]
      BY NewestIs
    <2>2. Emitted(filters, given) \in SUBSET Notes /\ emitted \in SUBSET Notes
      BY <1>1, <2>1 DEF Emitted
    <2>3. \A x \in Emitted(filters, given), y \in emitted : Before(x, y)
      BY <1>1, <2>1 DEF Emitted
    <2> HIDE DEF emitted
    <2> QED BY <1>6, <2>2, <2>3, SortedUnion
  <1> HIDE DEF taken, emitted
  <1>8. StreamDay(filters, d, After(filters, given), found)
          = [taken |-> Taken(filters, both), out |-> Sorted(Emitted(filters, both))]
    BY <1>2, <1>4, <1>5, <1>7 DEF After
  <1> QED BY <1>8 DEF After, both

\* The loop: what a day makes of what the days before it came to.
NextDay(filters, snapshot, index, partition0, store0, so_far, d) ==
  CHOOSE next \in {StreamDay(filters, x, r,
                     [j \in DOMAIN filters |->
                        Found(filters[j], x, snapshot, index, partition0, store0)]) :
                     r \in {so_far}, x \in {d}} : TRUE

Runs(filters, snapshot, index, partition0, store0, e) ==
  e = [i \in 0..Len(Descending(Days)) |->
         IF i = 0 THEN [taken |-> {}, out |-> <<>>]
         ELSE NextDay(filters, snapshot, index, partition0, store0, e[i - 1], Descending(Days)[i])]

LEMMA StreamingIsRun ==
  ASSUME NEW filters, NEW snapshot, NEW index, NEW partition0, NEW store0
  PROVE  Streaming(filters, snapshot, index, partition0, store0)
           = (CHOOSE e : Runs(filters, snapshot, index, partition0, store0, e))
                [Len(Descending(Days))].out
  BY DEF Streaming, Loop, Runs, NextDay

\* A day's notes, and what a query should answer of all that its filters yield.
OfDay(d) == {n \in Notes : DayOf(n) = d}
NewestOfEach(filters, snapshot, index, partition0, store0) ==
  UNION {Newest(filters[i].limit,
           UNION {Found(filters[i], d, snapshot, index, partition0, store0) : d \in Days}) :
         i \in DOMAIN filters}

\* What the filters' cursors yield of the first days.
Given(filters, snapshot, index, partition0, store0, j) ==
  [i \in DOMAIN filters |->
     UNION {Found(filters[i], Descending(Days)[k], snapshot, index, partition0, store0) :
              k \in 1..j}]

LEMMA NothingYet ==
  ASSUME NEW filters, \A i \in DOMAIN filters : filters[i].limit \in Nat,
         NEW given, \A i \in DOMAIN filters : given[i] = {}
  PROVE  After(filters, given) = [taken |-> {}, out |-> <<>>]
  <1>1. Newest(0, {}) = {} /\ \A limit \in Nat : Newest(limit, {}) = {}
    BY DEF Newest
  <1>2. Taken(filters, given) = {} /\ Emitted(filters, given) = {}
    BY <1>1 DEF Taken, Emitted
  <1>3. Sorted({}) = <<>>
    <2>1. Len(Sorted({})) = 0 /\ Sorted({}) \in Seq(Notes)
      BY SortedIs, FS_EmptySet
    <2> QED BY <2>1
  <1> QED BY <1>2, <1>3 DEF After

\* Day by day or all days at once: the answer is the newest of each filter.
LEMMA StreamingGives ==
  ASSUME NEW filters, \A i \in DOMAIN filters : filters[i].limit \in Nat,
         NEW snapshot, NEW index, NEW partition0, NEW store0,
         \A i \in DOMAIN filters, d \in Days :
           Found(filters[i], d, snapshot, index, partition0, store0) \in SUBSET OfDay(d)
  PROVE  Streaming(filters, snapshot, index, partition0, store0)
           = Sorted(NewestOfEach(filters, snapshot, index, partition0, store0))
  <1> DEFINE F(i, d) == Found(filters[i], d, snapshot, index, partition0, store0)
             m == Len(Descending(Days))
             D(k) == Descending(Days)[k]
             given(j) == Given(filters, snapshot, index, partition0, store0, j)
             found(k) == [i \in DOMAIN filters |-> F(i, D(k))]
  <1>1. /\ m \in Nat /\ \A k \in 1..m : D(k) \in Days
        /\ \A i, k \in 1..m : i < k => D(i) > D(k)
        /\ \A d \in Days : \E k \in 1..m : D(k) = d
    BY DescendingIs
  <1>2. \A i \in DOMAIN filters, d \in Days : F(i, d) \in SUBSET {n \in Notes : DayOf(n) = d}
    BY DEF OfDay
  <1>3. \A j : given(j) = [i \in DOMAIN filters |-> UNION {F(i, D(k)) : k \in 1..j}]
    BY DEF Given
  <1> HIDE DEF F, D, m, given
  <1>4. ASSUME NEW j \in Nat, j <= m PROVE given(j) \in [DOMAIN filters -> SUBSET Notes]
    <2>1. ASSUME NEW i \in DOMAIN filters PROVE UNION {F(i, D(k)) : k \in 1..j} \in SUBSET Notes
      <3>1. \A k \in 1..j : D(k) \in Days
        BY <1>1, <1>4
      <3>2. \A k \in 1..j : F(i, D(k)) \in SUBSET Notes
        BY <1>2, <3>1
      <3> QED BY <3>2
    <2> QED BY <1>3, <2>1
  <1>5. ASSUME NEW j \in 1..m
        PROVE  StreamDay(filters, D(j), After(filters, given(j - 1)), found(j)) = After(filters, given(j))
    <2>1. j - 1 \in Nat /\ j - 1 <= m /\ j \in Nat /\ j <= m
      BY <1>1
    <2>2. given(j - 1) \in [DOMAIN filters -> SUBSET Notes]
      BY <1>4, <2>1
    <2>3. found(j) \in [DOMAIN filters -> SUBSET Notes]
      BY <1>1, <1>2
    <2>4. ASSUME NEW i \in DOMAIN filters, NEW h \in DOMAIN filters,
                 NEW x \in given(j - 1)[i], NEW y \in found(j)[h]
          PROVE  Before(x, y)
      <3>1. PICK k \in 1..(j - 1) : x \in F(i, D(k))
        BY <1>3, <2>4
      <3>2. k \in 1..m /\ k < j
        BY <1>1, <2>1, <3>1
      <3>3. D(k) \in Days /\ D(j) \in Days /\ D(k) > D(j)
        BY <1>1, <3>2
      <3>4. x \in Notes /\ DayOf(x) = D(k) /\ y \in Notes /\ DayOf(y) = D(j)
        BY <1>2, <2>4, <3>1, <3>3
      <3> QED BY <3>3, <3>4, DaysInOrder
    <2>5. given(j) = [i \in DOMAIN filters |-> given(j - 1)[i] \cup found(j)[i]]
      <3> DEFINE all(i, h) == UNION {F(i, D(k)) : k \in 1..h}
      <3>1. ASSUME NEW i, NEW h, NEW x PROVE x \in all(i, h) <=> \E k \in 1..h : x \in F(i, D(k))
        OBVIOUS
      <3>2. given(j) = [i \in DOMAIN filters |-> all(i, j)]
            /\ given(j - 1) = [i \in DOMAIN filters |-> all(i, j - 1)]
        BY <1>3
      <3>3. \A k : k \in 1..j <=> k \in 1..(j - 1) \/ k = j
        BY <2>1
      <3> HIDE DEF all
      <3>4. \A i, x : x \in all(i, j) <=> x \in all(i, j - 1) \/ x \in F(i, D(j))
        BY <3>1, <3>3
      <3>5. \A i \in DOMAIN filters : all(i, j) = all(i, j - 1) \cup F(i, D(j))
        BY <3>4
      <3>6. \A i \in DOMAIN filters : given(j - 1)[i] \cup found(j)[i] = all(i, j)
        BY <3>2, <3>5
      <3> DEFINE both(i) == given(j - 1)[i] \cup found(j)[i]
      <3> HIDE DEF both
      <3>7. \A i \in DOMAIN filters : both(i) = all(i, j)
        BY <3>6 DEF both
      <3>8. given(j) = [i \in DOMAIN filters |-> both(i)]
        BY <3>2, <3>7
      <3> HIDE DEF found
      <3> QED BY <3>8 DEF both
    <2> HIDE DEF found
    <2>6. PICK g \in [DOMAIN filters -> SUBSET Notes], f \in [DOMAIN filters -> SUBSET Notes] :
            g = given(j - 1) /\ f = found(j)
      BY <2>2, <2>3
    <2>7. \A i, h \in DOMAIN filters : \A x \in g[i], y \in f[h] : Before(x, y)
      BY <2>4, <2>6
    <2>8. StreamDay(filters, D(j), After(filters, g), f)
            = After(filters, [i \in DOMAIN filters |-> g[i] \cup f[i]])
      BY <2>7, DayStep
    <2>9. given(j) = [i \in DOMAIN filters |-> g[i] \cup f[i]]
      BY <2>5, <2>6
    <2> QED BY <2>6, <2>8, <2>9
  <1>6. given(0) = [i \in DOMAIN filters |-> {}]
    BY <1>3
  <1>7. After(filters, given(0)) = [taken |-> {}, out |-> <<>>]
    BY <1>6, NothingYet
  <1> DEFINE Steps(e) == Runs(filters, snapshot, index, partition0, store0, e)
             next(r, k) == StreamDay(filters, D(k), r, found(k))
  <1>8. \A e : Steps(e) <=>
          e = [k \in 0..m |-> IF k = 0 THEN [taken |-> {}, out |-> <<>>] ELSE next(e[k - 1], k)]
    <2>1. ASSUME NEW r0, NEW k
          PROVE  NextDay(filters, snapshot, index, partition0, store0, r0, Descending(Days)[k]) = next(r0, k)
      <3> DEFINE all == {StreamDay(filters, x, r,
                              [j \in DOMAIN filters |->
                                 Found(filters[j], x, snapshot, index, partition0, store0)]) :
                              r \in {r0}, x \in {Descending(Days)[k]}}
      <3>1. all = {next(r0, k)}
        BY DEF F, D
      <3> HIDE DEF all, next
      <3>2. (CHOOSE r \in all : TRUE) = next(r0, k)
        BY <3>1
      <3> QED BY <3>2 DEF all, NextDay
    <2> HIDE DEF next
    <2> QED BY <2>1 DEF Runs, m
  <1> HIDE DEF Steps, found
  <1> DEFINE good == [k \in 0..m |-> After(filters, given(k))]
  <1>9. Steps(good)
    <2>1. ASSUME NEW k \in 0..m
          PROVE  After(filters, given(k)) = IF k = 0 THEN [taken |-> {}, out |-> <<>>] ELSE next(good[k - 1], k)
      <3>1. CASE k = 0
        BY <1>7, <3>1
      <3>2. CASE k # 0
        <4>1. k \in 1..m /\ k - 1 \in 0..m
          BY <1>1, <3>2
        <4>2. good[k - 1] = After(filters, given(k - 1))
          BY <4>1
        <4> QED BY <1>5, <3>2, <4>1, <4>2
      <3> QED BY <3>1, <3>2
    <2> HIDE DEF next
    <2> QED BY <1>8, <2>1
  <1>10. PICK run : run = (CHOOSE e : Steps(e))
    OBVIOUS
  <1>11. Steps(run)
    BY <1>9, <1>10
  <1>12. run[0] = After(filters, given(0)) /\ \A k \in 1..m : run[k] = next(run[k - 1], k)
    <2> HIDE DEF next
    <2>1. run = [k \in 0..m |-> IF k = 0 THEN [taken |-> {}, out |-> <<>>] ELSE next(run[k - 1], k)]
      BY <1>8, <1>11
    <2>2. 0 \in 0..m /\ \A k \in 1..m : k \in 0..m /\ k # 0
      BY <1>1
    <2>3. run[0] = [taken |-> {}, out |-> <<>>]
      BY <2>1, <2>2
    <2>4. \A k \in 1..m : run[k] = next(run[k - 1], k)
      BY <2>1, <2>2
    <2> QED BY <1>7, <2>3, <2>4
  <1> DEFINE T == {k \in Nat : k <= m => run[k] = After(filters, given(k))}
  <1>13. \A k \in Nat : k \in T => k + 1 \in T
    <2> SUFFICES ASSUME NEW k \in Nat, k \in T, k + 1 <= m PROVE run[k + 1] = After(filters, given(k + 1))
      OBVIOUS
    <2>1. k <= m /\ k + 1 \in 1..m /\ (k + 1) - 1 = k
      BY <1>1
    <2> QED BY <1>5, <1>12, <2>1
  <1>14. 0 \in T
    BY <1>12
  <1> HIDE DEF T
  <1>15. Nat \subseteq T
    BY <1>13, <1>14, Induction
  <1>16. run[m] = After(filters, given(m))
    BY <1>1, <1>15 DEF T
  <1>17. ASSUME NEW i \in DOMAIN filters PROVE given(m)[i] = UNION {F(i, d) : d \in Days}
    BY <1>1, <1>3
  <1>18. Streaming(filters, snapshot, index, partition0, store0) = Sorted(Emitted(filters, given(m)))
    <2>1. Streaming(filters, snapshot, index, partition0, store0) = run[m].out
      BY <1>10, StreamingIsRun DEF Steps, m
    <2> QED BY <1>16, <2>1 DEF After
  <1>19. Emitted(filters, given(m))
           = UNION {Newest(filters[i].limit, UNION {F(i, d) : d \in Days}) : i \in DOMAIN filters}
    <2> DEFINE taken(i) == Newest(filters[i].limit, given(m)[i])
               newest(i) == Newest(filters[i].limit, UNION {F(i, d) : d \in Days})
    <2>1. \A i \in DOMAIN filters : taken(i) = newest(i)
      BY <1>17
    <2> HIDE DEF taken, newest
    <2>2. UNION {taken(i) : i \in DOMAIN filters} = UNION {newest(i) : i \in DOMAIN filters}
      BY <2>1
    <2> QED BY <2>2 DEF Emitted, taken, newest
  <1> QED BY <1>18, <1>19 DEF F, NewestOfEach

\* What a query answers alone.
LEMMA AnsweredAlone ==
  ASSUME TypeOK, NEW q \in DOMAIN AllQueries, NEW index
  PROVE  Streaming(AllQueries[q], Snapshot, index, partition, store)
           = Sorted(UNION {Newest(AllQueries[q][i].limit, Answer(AllQueries[q][i], index)) :
                             i \in DOMAIN AllQueries[q]})
  <1> DEFINE filters == AllQueries[q]
  <1>1. \A i \in DOMAIN filters : filters[i] \in Filters
    BY DEF Filters, ToSet
  <1> HIDE DEF filters
  <1>2. \A i \in DOMAIN filters : filters[i].limit \in Nat
    BY <1>1, FiltersAssumption
  <1>3. ASSUME NEW i \in DOMAIN filters, NEW d \in Days
        PROVE  Found(filters[i], d, Snapshot, index, partition, store) \in SUBSET OfDay(d)
    <2>1. /\ Snapshot \in SUBSET Notes
          /\ partition[d] \in SUBSET Notes
          /\ \A n \in partition[d] : DayOf(n) = d
      BY DEF TypeOK, Snapshot
    <2>2. HotMatches(filters[i], Snapshot, index) \in SUBSET Notes
      BY <2>1 DEF HotMatches
    <2>3. PartitionMatches(filters[i], d, index, partition, store) \in SUBSET partition[d]
      BY DEF PartitionMatches
    <2> QED BY <2>1, <2>2, <2>3 DEF Found, OfDay
  <1>4. Streaming(filters, Snapshot, index, partition, store)
          = Sorted(NewestOfEach(filters, Snapshot, index, partition, store))
    BY <1>2, <1>3, StreamingGives
  <1> DEFINE taken(i) == Newest(filters[i].limit, Answer(filters[i], index))
             newest(i) == Newest(filters[i].limit,
                            UNION {Found(filters[i], d, Snapshot, index, partition, store) : d \in Days})
  <1>5. \A i \in DOMAIN filters : taken(i) = newest(i)
    <2> TAKE i \in DOMAIN filters
    <2>1. Answer(filters[i], index)
            = UNION {Found(filters[i], d, Snapshot, index, partition, store) : d \in Days}
      BY Zenon DEF Answer
    <2> QED BY <2>1
  <1> HIDE DEF taken, newest
  <1>6. UNION {taken(i) : i \in DOMAIN filters} = UNION {newest(i) : i \in DOMAIN filters}
    BY <1>5
  <1>7. Streaming(filters, Snapshot, index, partition, store)
          = Sorted(UNION {taken(i) : i \in DOMAIN filters})
    BY <1>4, <1>6 DEF newest, NewestOfEach
  <1> QED BY <1>7 DEF filters, taken

\* Limits over days and filters: the state of a query is, after each day, what it
\* would be if it had met the notes of all the days so far at once.
THEOREM LimitsAreNewest == Spec => []LimitsNewest
  <1>1. TypeOK => LimitsNewest
    BY AnsweredAlone DEF LimitsNewest
  <1> QED BY <1>1, StoreIsASummary, PTL

(***************************************************************************)
(* One pass for all queries.                                               *)
(***************************************************************************)
\* The first candidates, and the one behind them.
LEMMA FirstCandidates ==
  ASSUME NEW C \in SUBSET Notes, NEW j \in 1..Cardinality(C), NEW n, n = Sorted(C)[j]
  PROVE  /\ n \in C /\ Newest(j, C) = Newest(j - 1, C) \cup {n}
         /\ \A m \in C : m \in Newest(j - 1, C) <=> Before(m, n)
         /\ Newest(j - 1, C) \in SUBSET C /\ n \notin Newest(j - 1, C)
  <1>1. j \in Nat /\ j - 1 \in Nat /\ n \in C /\ Rank(n, C) = j - 1
    BY SortedIs, NoteRanks
  <1>2. /\ \A m \in C : Rank(m, C) \in Nat
        /\ \A a, b \in C : Before(a, b) <=> Rank(a, C) < Rank(b, C)
    BY NoteRanks
  <1>3. /\ Newest(j, C) = {m \in C : Rank(m, C) < j}
        /\ Newest(j - 1, C) = {m \in C : Rank(m, C) < j - 1}
    BY <1>1, NewestIs
  <1>4. \A m \in C : m \in Newest(j - 1, C) <=> Before(m, n)
    BY <1>1, <1>2, <1>3
  <1>5. \A m \in C : Rank(m, C) < j <=> Rank(m, C) < j - 1 \/ m = n
    <2> TAKE m \in C
    <2>1. Rank(m, C) = j - 1 => m = n
      <3>1. ~(Rank(m, C) < Rank(m, C)) /\ m \in Notes /\ n \in Notes
        BY <1>1, <1>2
      <3> QED BY <1>1, <1>2, <3>1, Order
    <2> QED BY <1>1, <1>2, <2>1
  <1> QED BY <1>1, <1>3, <1>4, <1>5

\* How many of a set, and of its newest, are before a note, or are it.
Sooner(n, S) == {m \in S : Before(m, n)}
Until(n, S) == {m \in S : m = n \/ Before(m, n)}

LEMMA AtCandidate ==
  ASSUME NEW S \in SUBSET Notes, NEW n \in Notes, NEW limit \in Nat
  PROVE  /\ Rank(n, S) \in Nat /\ Cardinality(Sooner(n, S)) = Rank(n, S)
         /\ Rank(n, S) <= limit => Cardinality(Sooner(n, Newest(limit, S))) = Rank(n, S)
         /\ limit <= Rank(n, S) => Cardinality(Sooner(n, Newest(limit, S))) = limit
         /\ n \in S => Cardinality(Until(n, S)) = Rank(n, S) + 1
         /\ n \notin S => Cardinality(Until(n, S)) = Rank(n, S)
         /\ \A x \in Sooner(n, S) : Rank(x, S) \in Nat /\ Rank(x, S) < Rank(n, S)
  <1> DEFINE P == Sooner(n, S)
  <1>1. P \in SUBSET S /\ \A m \in S : m \in P <=> Before(m, n)
    BY DEF Sooner
  <1>2. Cardinality(P) = Rank(n, S)
    BY DEF Sooner, Rank
  <1> HIDE DEF P
  <1>3. P \in SUBSET Notes /\ n \notin P
    BY <1>1, Order
  <1>4. Rank(n, S) \in Nat
    BY <1>2, <1>3, NoteRanks
  <1>5. ASSUME NEW x \in P PROVE Rank(x, P) = Rank(x, S)
    <2>1. {m \in P : Before(m, x)} = {m \in S : Before(m, x)}
      BY <1>1, <1>3, Order
    <2> QED BY <2>1 DEF Rank
  <1>6. Sooner(n, Newest(limit, S)) = Newest(limit, P)
    <2>1. /\ Newest(limit, S) = {m \in S : Rank(m, S) < limit}
          /\ Newest(limit, P) = {m \in P : Rank(m, P) < limit}
      BY <1>3, NewestIs
    <2> QED BY <1>1, <1>5, <2>1 DEF Sooner
  <1>7. Cardinality(Newest(limit, P)) = IF Cardinality(P) <= limit THEN Cardinality(P) ELSE limit
    BY <1>3, NewestIs
  <1>8. \A x \in P : Rank(x, S) \in Nat /\ Rank(x, S) < Rank(n, S)
    BY <1>2, <1>3, <1>5, NoteRanks
  <1>9. Cardinality(Until(n, S)) = IF n \in S THEN Rank(n, S) + 1 ELSE Rank(n, S)
    <2>1. CASE n \in S
      <3>1. Until(n, S) = P \cup {n}
        BY <1>1, <2>1 DEF Until
      <3>2. Cardinality(P \cup {n}) = Cardinality(P) + 1
        BY <1>3, NoteRanks, FS_AddElement
      <3> QED BY <1>2, <2>1, <3>1, <3>2
    <2>2. CASE n \notin S
      <3>1. Until(n, S) = P
        BY <1>1, <2>2 DEF Until
      <3> QED BY <1>2, <2>2, <3>1
    <2> QED BY <2>1, <2>2
  <1>10. Cardinality(Sooner(n, Newest(limit, S))) = IF Rank(n, S) <= limit THEN Rank(n, S) ELSE limit
    BY <1>2, <1>6, <1>7
  <1>11. /\ Rank(n, S) <= limit => Cardinality(Sooner(n, Newest(limit, S))) = Rank(n, S)
         /\ limit <= Rank(n, S) => Cardinality(Sooner(n, Newest(limit, S))) = limit
    BY <1>4, <1>10
  <1> QED BY <1>2, <1>4, <1>8, <1>9, <1>11 DEF P

\* The slots <<q, i>> of filters, the candidates that one shows, and what a query
\* answers if its receiver does not fail.
Slots(queries) == UNION {{q} \X DOMAIN queries[q] : q \in DOMAIN queries}
Limit(queries, s) == queries[s[1]][s[2]].limit
Shown(accepting, s) == {n \in DOMAIN accepting : s \in accepting[n]}
Due(queries, accepting, q) ==
  UNION {Newest(queries[q][i].limit, Shown(accepting, <<q, i>>)) : i \in DOMAIN queries[q]}

\* The pass after its first candidates: of what is due to each query it has given
\* as much as there is room for, and has let one more be taken.
Passed(queries, room, accepting, first) ==
  [taken  |-> {t \in Slots(queries) \X first :
                 /\ t[2] \in Newest(Limit(queries, t[1]), Shown(accepting, t[1]))
                 /\ Rank(t[2], Due(queries, accepting, t[1][1])) <= room[t[1][1]]},
   active |-> {q \in DOMAIN queries :
                 Cardinality(Due(queries, accepting, q) \cap first) <= room[q]},
   out    |-> {e \in (DOMAIN queries) \X first :
                 e[2] \in Newest(room[e[1]], Due(queries, accepting, e[1]))}]

\* What the pass is given: filters with limits, and for each candidate slots.
Pass(queries, room, accepting) ==
  /\ \A s \in Slots(queries) : Limit(queries, s) \in Nat
  /\ room \in [DOMAIN queries -> Nat]
  /\ DOMAIN accepting \in SUBSET Notes
  /\ \A n \in DOMAIN accepting : accepting[n] \in SUBSET Slots(queries)

LEMMA WhatIsDue ==
  ASSUME NEW queries, NEW room, NEW accepting, Pass(queries, room, accepting)
  PROVE  /\ \A s \in Slots(queries) :
              /\ s[1] \in DOMAIN queries /\ s[2] \in DOMAIN queries[s[1]] /\ s = <<s[1], s[2]>>
              /\ Shown(accepting, s) \in SUBSET DOMAIN accepting
              /\ Newest(Limit(queries, s), Shown(accepting, s)) \in SUBSET Shown(accepting, s)
         /\ \A q \in DOMAIN queries :
              /\ Due(queries, accepting, q) \in SUBSET DOMAIN accepting
              /\ \A x : x \in Due(queries, accepting, q) <=>
                   \E s \in Slots(queries) :
                     s[1] = q /\ x \in Newest(Limit(queries, s), Shown(accepting, s))
  <1>1. ASSUME NEW s \in Slots(queries)
        PROVE  /\ s[1] \in DOMAIN queries /\ s[2] \in DOMAIN queries[s[1]] /\ s = <<s[1], s[2]>>
               /\ Shown(accepting, s) \in SUBSET DOMAIN accepting
               /\ Newest(Limit(queries, s), Shown(accepting, s)) \in SUBSET Shown(accepting, s)
    <2>1. s[1] \in DOMAIN queries /\ s[2] \in DOMAIN queries[s[1]] /\ s = <<s[1], s[2]>>
      BY DEF Slots
    <2>2. Shown(accepting, s) \in SUBSET DOMAIN accepting
      BY DEF Shown
    <2>3. Shown(accepting, s) \in SUBSET Notes /\ Limit(queries, s) \in Nat
      BY <2>2 DEF Pass
    <2>4. Newest(Limit(queries, s), Shown(accepting, s)) \in SUBSET Shown(accepting, s)
      BY <2>3, NewestIs
    <2> QED BY <2>1, <2>2, <2>4
  <1>2. ASSUME NEW q \in DOMAIN queries
        PROVE  /\ Due(queries, accepting, q) \in SUBSET DOMAIN accepting
               /\ \A x : x \in Due(queries, accepting, q) <=>
                    \E s \in Slots(queries) :
                      s[1] = q /\ x \in Newest(Limit(queries, s), Shown(accepting, s))
    <2> DEFINE N(i) == Newest(queries[q][i].limit, Shown(accepting, <<q, i>>))
    <2>1. \A i \in DOMAIN queries[q] : /\ <<q, i>> \in Slots(queries)
                                       /\ N(i) = Newest(Limit(queries, <<q, i>>), Shown(accepting, <<q, i>>))
      BY DEF Slots, Limit
    <2>2. Due(queries, accepting, q) = UNION {N(i) : i \in DOMAIN queries[q]}
      BY DEF Due
    <2> HIDE DEF N
    <2>3. ASSUME NEW x
          PROVE  x \in Due(queries, accepting, q) <=>
                   \E s \in Slots(queries) :
                      s[1] = q /\ x \in Newest(Limit(queries, s), Shown(accepting, s))
      <3>1. x \in Due(queries, accepting, q) <=> \E i \in DOMAIN queries[q] : x \in N(i)
        BY <2>2
      <3>2. ASSUME NEW i \in DOMAIN queries[q], x \in N(i)
            PROVE  \E s \in Slots(queries) :
                      s[1] = q /\ x \in Newest(Limit(queries, s), Shown(accepting, s))
        BY <2>1, <3>2
      <3>3. ASSUME NEW s \in Slots(queries), s[1] = q, x \in Newest(Limit(queries, s), Shown(accepting, s))
            PROVE  \E i \in DOMAIN queries[q] : x \in N(i)
        BY <1>1, <2>1, <3>3
      <3> QED BY <3>1, <3>2, <3>3
    <2>4. Due(queries, accepting, q) \in SUBSET DOMAIN accepting
      BY <1>1, <2>3
    <2> QED BY <2>3, <2>4
  <1> QED BY <1>1, <1>2

LEMMA PassedIs ==
  ASSUME NEW queries, NEW room, NEW accepting, NEW first
  PROVE  /\ \A t : t \in Passed(queries, room, accepting, first).taken <=>
                  /\ t \in Slots(queries) \X first
                  /\ t[2] \in Newest(Limit(queries, t[1]), Shown(accepting, t[1]))
                  /\ Rank(t[2], Due(queries, accepting, t[1][1])) <= room[t[1][1]]
         /\ \A q : q \in Passed(queries, room, accepting, first).active <=>
                  q \in DOMAIN queries /\ Cardinality(Due(queries, accepting, q) \cap first) <= room[q]
         /\ \A e : e \in Passed(queries, room, accepting, first).out <=>
                  e \in (DOMAIN queries) \X first /\ e[2] \in Newest(room[e[1]], Due(queries, accepting, e[1]))
  BY DEF Passed

\* A candidate brings the pass to where its first candidates, and it, bring it.
LEMMA PassStep ==
  ASSUME NEW queries, NEW room, NEW accepting, Pass(queries, room, accepting),
         NEW C, C = DOMAIN accepting, NEW j \in 1..Cardinality(C), NEW n, n = Sorted(C)[j],
         NEW F, F = Newest(j - 1, C), NEW G, G = Newest(j, C),
         NEW was, was = Passed(queries, room, accepting, F),
         NEW now, now = Passed(queries, room, accepting, G)
  PROVE  EmitCandidate(queries, room, was, n, accepting) = now
  <1> DEFINE slots == Slots(queries)
             asked == DOMAIN queries
             N(s) == Newest(Limit(queries, s), Shown(accepting, s))
             U(q) == Due(queries, accepting, q)
             R(q) == Newest(room[q], U(q))
             mine(s) == {t \in was.taken : t[1] = s}
             left(s) == queries[s[1]][s[2]].limit - Cardinality(mine(s))
             taking == {s \in accepting[n] : s[1] \in was.active /\ left(s) > 0}
             given == {s[1] : s \in taking}
             its(q) == {e \in was.out : e[1] = q}
             full == {q \in given : Cardinality(its(q)) >= room[q]}
  <1>1. /\ n \in C /\ G = F \cup {n} /\ F \in SUBSET C /\ n \notin F /\ C \in SUBSET Notes
        /\ \A m \in C : m \in F <=> Before(m, n)
    BY FirstCandidates DEF Pass
  <1>2. \A s \in slots : /\ s[1] \in DOMAIN queries /\ Limit(queries, s) \in Nat
                         /\ Shown(accepting, s) \in SUBSET C /\ N(s) \in SUBSET Shown(accepting, s)
    BY WhatIsDue DEF Pass
  <1>3. \A q \in DOMAIN queries :
          /\ U(q) \in SUBSET C /\ room[q] \in Nat
          /\ \A x : x \in U(q) <=> \E s \in slots : s[1] = q /\ x \in N(s)
    BY WhatIsDue DEF Pass
  <1>4. accepting[n] \in SUBSET slots /\ \A s \in slots : n \in Shown(accepting, s) <=> s \in accepting[n]
    BY <1>1 DEF Pass, Shown
  <1>5. ASSUME NEW q \in DOMAIN queries
        PROVE  /\ Rank(n, U(q)) \in Nat /\ Cardinality(U(q) \cap F) = Rank(n, U(q))
               /\ Rank(n, U(q)) <= room[q] => Cardinality(R(q) \cap F) = Rank(n, U(q))
               /\ room[q] <= Rank(n, U(q)) => Cardinality(R(q) \cap F) = room[q]
               /\ n \in U(q) => Cardinality(U(q) \cap G) = Rank(n, U(q)) + 1
               /\ n \notin U(q) => Cardinality(U(q) \cap G) = Rank(n, U(q))
               /\ \A x \in U(q) \cap F : Rank(x, U(q)) \in Nat /\ Rank(x, U(q)) < Rank(n, U(q))
               /\ \A x : x \in R(q) <=> x \in U(q) /\ Rank(x, U(q)) < room[q]
    <2>1. U(q) \in SUBSET C /\ room[q] \in Nat /\ U(q) \in SUBSET Notes
      BY <1>1, <1>3
    <2>2. PICK S \in SUBSET Notes, l \in Nat : S = U(q) /\ l = room[q] /\ S \in SUBSET C
      BY <2>1
    <2> HIDE DEF U
    <2>3. Newest(l, S) = {x \in S : Rank(x, S) < l}
      BY NewestIs
    <2>4. S \cap F = Sooner(n, S) /\ S \cap G = Until(n, S)
      BY <1>1, <2>2 DEF Sooner, Until
    <2>5. Newest(l, S) \cap F = Sooner(n, Newest(l, S))
      BY <1>1, <2>2, <2>3 DEF Sooner
    <2>6. n \in Notes
      BY <1>1
    <2>7. Rank(n, S) \in Nat /\ Cardinality(Sooner(n, S)) = Rank(n, S)
      BY <2>6, AtCandidate
    <2>8. /\ Rank(n, S) <= l => Cardinality(Sooner(n, Newest(l, S))) = Rank(n, S)
          /\ l <= Rank(n, S) => Cardinality(Sooner(n, Newest(l, S))) = l
      BY <2>6, AtCandidate
    <2>9. /\ n \in S => Cardinality(Until(n, S)) = Rank(n, S) + 1
          /\ n \notin S => Cardinality(Until(n, S)) = Rank(n, S)
      BY <2>6, AtCandidate
    <2>10. \A x \in Sooner(n, S) : Rank(x, S) \in Nat /\ Rank(x, S) < Rank(n, S)
      BY <2>6, AtCandidate
    <2>11. /\ Rank(n, U(q)) <= room[q] => Cardinality(R(q) \cap F) = Rank(n, U(q))
           /\ room[q] <= Rank(n, U(q)) => Cardinality(R(q) \cap F) = room[q]
      BY <2>2, <2>5, <2>8
    <2>12. /\ n \in U(q) => Cardinality(U(q) \cap G) = Rank(n, U(q)) + 1
           /\ n \notin U(q) => Cardinality(U(q) \cap G) = Rank(n, U(q))
      BY <2>2, <2>4, <2>9
    <2>13. Cardinality(U(q) \cap F) = Rank(n, U(q)) /\ Rank(n, U(q)) \in Nat
      BY <2>2, <2>4, <2>7
    <2>14. \A x \in U(q) \cap F : Rank(x, U(q)) \in Nat /\ Rank(x, U(q)) < Rank(n, U(q))
      BY <2>2, <2>4, <2>10
    <2>15. \A x : x \in R(q) <=> x \in U(q) /\ Rank(x, U(q)) < room[q]
      BY <2>2, <2>3
    <2> QED BY <2>11, <2>12, <2>13, <2>14, <2>15
  <1>6. ASSUME NEW s \in slots
        PROVE  /\ Rank(n, Shown(accepting, s)) \in Nat
               /\ Rank(n, Shown(accepting, s)) <= Limit(queries, s)
                    => Cardinality(N(s) \cap F) = Rank(n, Shown(accepting, s))
               /\ Limit(queries, s) <= Rank(n, Shown(accepting, s))
                    => Cardinality(N(s) \cap F) = Limit(queries, s)
               /\ n \in N(s) <=> /\ n \in Shown(accepting, s)
                                 /\ Rank(n, Shown(accepting, s)) < Limit(queries, s)
               /\ N(s) \in SUBSET Notes /\ N(s) \in SUBSET U(s[1])
    <2>1. PICK S \in SUBSET Notes, l \in Nat :
            S = Shown(accepting, s) /\ l = Limit(queries, s) /\ S \in SUBSET C
      BY <1>1, <1>2
    <2>2. Newest(l, S) = {x \in S : Rank(x, S) < l}
      BY NewestIs
    <2>3. Newest(l, S) \cap F = Sooner(n, Newest(l, S)) /\ n \in Notes
      BY <1>1, <2>1, <2>2 DEF Sooner
    <2>4. Rank(n, S) \in Nat
      BY <2>3, AtCandidate
    <2>5. /\ Rank(n, S) <= l => Cardinality(Sooner(n, Newest(l, S))) = Rank(n, S)
          /\ l <= Rank(n, S) => Cardinality(Sooner(n, Newest(l, S))) = l
      BY <2>3, AtCandidate
    <2>6. N(s) \in SUBSET U(s[1]) /\ N(s) = Newest(l, S)
      BY <1>2, <1>3, <2>1
    <2> HIDE DEF N, U
    <2>7. /\ Rank(n, Shown(accepting, s)) <= Limit(queries, s)
               => Cardinality(N(s) \cap F) = Rank(n, Shown(accepting, s))
          /\ Limit(queries, s) <= Rank(n, Shown(accepting, s))
               => Cardinality(N(s) \cap F) = Limit(queries, s)
      BY <2>1, <2>3, <2>5, <2>6
    <2>8. n \in N(s) <=> /\ n \in Shown(accepting, s)
                         /\ Rank(n, Shown(accepting, s)) < Limit(queries, s)
      BY <2>1, <2>2, <2>6
    <2>9. N(s) \in SUBSET Notes
      BY <2>2, <2>6
    <2> QED BY <2>1, <2>4, <2>6, <2>7, <2>8, <2>9
  <1>7. asked = DOMAIN queries
    OBVIOUS
  <1> HIDE DEF N, U, R, slots, asked
  <1>8. /\ \A t : t \in was.taken <=> /\ t \in slots \X F /\ t[2] \in N(t[1])
                                      /\ Rank(t[2], U(t[1][1])) <= room[t[1][1]]
        /\ \A q : q \in was.active <=> q \in asked /\ Cardinality(U(q) \cap F) <= room[q]
        /\ \A e : e \in was.out <=> e \in asked \X F /\ e[2] \in R(e[1])
    <2>1. \A t : t \in was.taken <=> /\ t \in slots \X F /\ t[2] \in N(t[1])
                                     /\ Rank(t[2], U(t[1][1])) <= room[t[1][1]]
      BY PassedIs, Zenon DEF slots, N, U
    <2>2. \A q : q \in was.active <=> q \in asked /\ Cardinality(U(q) \cap F) <= room[q]
      BY PassedIs, Zenon DEF asked, U
    <2>3. \A e : e \in was.out <=> e \in asked \X F /\ e[2] \in R(e[1])
      <3>1. \A e : e \in was.out <=> e \in (DOMAIN queries) \X F /\ e[2] \in R(e[1])
        BY PassedIs, Zenon DEF U, R
      <3>2. asked \X F = (DOMAIN queries) \X F
        BY DEF asked
      <3> QED BY <3>1, <3>2, Zenon
    <2> QED BY <2>1, <2>2, <2>3, Zenon
  <1>9. /\ \A t : t \in now.taken <=> /\ t \in slots \X (F \cup {n}) /\ t[2] \in N(t[1])
                                      /\ Rank(t[2], U(t[1][1])) <= room[t[1][1]]
        /\ \A q : q \in now.active <=> q \in asked /\ Cardinality(U(q) \cap G) <= room[q]
        /\ \A e : e \in now.out <=> e \in asked \X (F \cup {n}) /\ e[2] \in R(e[1])
    <2>1. \A t : t \in now.taken <=> /\ t \in slots \X G /\ t[2] \in N(t[1])
                                     /\ Rank(t[2], U(t[1][1])) <= room[t[1][1]]
      BY PassedIs, Zenon DEF slots, N, U
    <2>2. \A q : q \in now.active <=> q \in asked /\ Cardinality(U(q) \cap G) <= room[q]
      BY PassedIs, Zenon DEF asked, U
    <2>3. \A e : e \in now.out <=> e \in asked \X G /\ e[2] \in R(e[1])
      <3>1. \A e : e \in now.out <=> e \in (DOMAIN queries) \X G /\ e[2] \in R(e[1])
        BY PassedIs, Zenon DEF U, R
      <3>2. asked \X G = (DOMAIN queries) \X G
        BY DEF asked
      <3> QED BY <3>1, <3>2, Zenon
    <2>4. G = F \cup {n}
      BY <1>1
    <2>5. \A e : e \in now.out <=> e \in asked \X (F \cup {n}) /\ e[2] \in R(e[1])
      BY <2>3, <2>4, Zenon
    <2>6. \A t : t \in now.taken <=> /\ t \in slots \X (F \cup {n}) /\ t[2] \in N(t[1])
                                     /\ Rank(t[2], U(t[1][1])) <= room[t[1][1]]
      BY <2>1, <2>4, Zenon
    <2> QED BY <2>2, <2>5, <2>6, Zenon
  <1>10. \A q : q \in was.active <=> q \in asked /\ Rank(n, U(q)) <= room[q]
    BY <1>7, <1>5, <1>8
  <1>11. ASSUME NEW s \in slots, s[1] \in was.active
        PROVE  left(s) > 0 <=> Rank(n, Shown(accepting, s)) < Limit(queries, s)
    <2>1. \A x \in U(s[1]) \cap F : Rank(x, U(s[1])) <= room[s[1]]
      <3>1. s[1] \in asked /\ room[s[1]] \in Nat /\ Rank(n, U(s[1])) \in Nat
        BY <1>7, <1>2, <1>3, <1>5
      <3>2. Rank(n, U(s[1])) <= room[s[1]]
        BY <1>10, <1>11
      <3>3. \A x \in U(s[1]) \cap F : Rank(x, U(s[1])) \in Nat /\ Rank(x, U(s[1])) < Rank(n, U(s[1]))
        BY <1>7, <1>5, <3>1
      <3> QED BY <3>1, <3>2, <3>3
    <2>2. PICK P \in SUBSET Notes : P = N(s) \cap F
      BY <1>6
    <2>3. mine(s) = Tag(s, P)
      <3>1. ASSUME NEW t \in mine(s) PROVE t \in Tag(s, P)
        <4>1. t \in slots \X F /\ t[2] \in N(s) /\ t[1] = s
          BY <1>8, <3>1
        <4> QED BY <2>2, <4>1 DEF Tag
      <3>2. ASSUME NEW t \in Tag(s, P) PROVE t \in mine(s)
        <4>1. t[1] = s /\ t[2] \in N(s) /\ t[2] \in F /\ t \in slots \X F /\ t[2] \in U(s[1])
          BY <1>6, <2>2 DEF Tag
        <4> QED BY <1>8, <2>1, <4>1
      <3> QED BY <3>1, <3>2
    <2> HIDE DEF mine
    <2>4. Cardinality(mine(s)) = Cardinality(P)
      BY <2>3, Tagged
    <2>5. left(s) = Limit(queries, s) - Cardinality(P)
      BY <2>4 DEF Limit
    <2> HIDE DEF left
    <2>6. PICK c \in Nat, l \in Nat, r \in Nat :
            c = Cardinality(P) /\ l = Limit(queries, s) /\ r = Rank(n, Shown(accepting, s))
      BY <1>2, <1>6, NoteRanks
    <2>7. (r <= l => c = r) /\ (l <= r => c = l)
      BY <1>6, <2>2, <2>6
    <2> QED BY <2>5, <2>6, <2>7
  <1>12. \A s : s \in taking <=> s \in slots /\ n \in N(s) /\ Rank(n, U(s[1])) <= room[s[1]]
    <2> HIDE DEF left
    <2> QED BY <1>4, <1>7, <1>2, <1>6, <1>10, <1>11
  <1>13. \A q : q \in given <=> q \in asked /\ n \in U(q) /\ Rank(n, U(q)) <= room[q]
    <2> HIDE DEF taking
    <2> QED BY <1>7, <1>2, <1>3, <1>12
  <1>14. \A q : q \in full <=> q \in asked /\ n \in U(q) /\ Rank(n, U(q)) = room[q]
    <2> HIDE DEF given
    <2>2. ASSUME NEW q \in asked
          PROVE  /\ Rank(n, U(q)) <= room[q] => Cardinality(its(q)) = Rank(n, U(q))
                 /\ room[q] <= Rank(n, U(q)) => Cardinality(its(q)) = room[q]
      <3>1. PICK P \in SUBSET Notes : P = R(q) \cap F
        BY <1>1
      <3>2. its(q) = Tag(q, P)
        <4>1. ASSUME NEW e \in its(q) PROVE e \in Tag(q, P)
          <5>1. e \in asked \X F /\ e[2] \in R(q) /\ e[1] = q
            BY <1>8, <4>1
          <5> QED BY <3>1, <5>1 DEF Tag
        <4>2. ASSUME NEW e \in Tag(q, P) PROVE e \in its(q)
          <5>1. e[1] = q /\ e[2] \in R(q) /\ e \in asked \X F
            BY <3>1 DEF Tag
          <5> QED BY <1>8, <5>1
        <4> QED BY <4>1, <4>2
      <3> HIDE DEF its
      <3>3. Cardinality(its(q)) = Cardinality(P)
        BY <3>2, Tagged
      <3> QED BY <1>7, <1>5, <3>1, <3>3
    <2> HIDE DEF its
    <2>3. ASSUME NEW q \in asked, Rank(n, U(q)) <= room[q]
          PROVE  Cardinality(its(q)) >= room[q] <=> Rank(n, U(q)) = room[q]
      BY <1>7, <1>3, <1>5, <2>2, <2>3
    <2> QED BY <1>7, <1>3, <1>5, <1>13, <2>3
  <1>15. EmitCandidate(queries, room, was, n, accepting)
           = [taken |-> was.taken \cup (taking \X {n}), active |-> was.active \ full,
              out |-> was.out \cup ((given \ full) \X {n})]
    BY DEF EmitCandidate
  <1>16. now = [taken |-> now.taken, active |-> now.active, out |-> now.out]
    BY DEF Passed
  <1>17. /\ was.taken \in SUBSET (slots \X F) /\ now.taken \in SUBSET (slots \X (F \cup {n}))
        /\ was.out \in SUBSET (asked \X F) /\ now.out \in SUBSET (asked \X (F \cup {n}))
    BY <1>8, <1>9
  <1> HIDE DEF taking, given, full
  <1>18. now.taken = was.taken \cup (taking \X {n})
    <2>1. ASSUME NEW t \in now.taken PROVE t \in was.taken \cup (taking \X {n})
      BY <1>8, <1>9, <1>12
    <2>2. ASSUME NEW t \in was.taken PROVE t \in now.taken
      BY <1>8, <1>9
    <2>3. ASSUME NEW t \in taking \X {n} PROVE t \in now.taken
      <3>1. t[1] \in taking /\ t[2] = n /\ t \in slots \X (F \cup {n})
        BY <1>12
      <3> QED BY <1>9, <1>12, <3>1
    <2> QED BY <2>1, <2>2, <2>3
  <1>19. now.active = was.active \ full
    <2>1. ASSUME NEW q PROVE q \in now.active <=> q \in was.active /\ q \notin full
      <3>1. CASE q \in asked
        <4>1. q \in now.active <=> Cardinality(U(q) \cap G) <= room[q]
          BY <1>9, <3>1
        <4>2. q \in was.active <=> Rank(n, U(q)) <= room[q]
          BY <1>10, <3>1
        <4>3. q \in full <=> n \in U(q) /\ Rank(n, U(q)) = room[q]
          BY <1>14, <3>1
        <4>4. PICK r \in Nat, m \in Nat : r = Rank(n, U(q)) /\ m = room[q]
          BY <1>7, <1>3, <1>5, <3>1
        <4>5. CASE n \in U(q)
          <5>1. Cardinality(U(q) \cap G) = r + 1
            BY <1>7, <1>5, <3>1, <4>4, <4>5
          <5> QED BY <4>1, <4>2, <4>3, <4>4, <4>5, <5>1
        <4>6. CASE n \notin U(q)
          <5>1. Cardinality(U(q) \cap G) = r
            BY <1>7, <1>5, <3>1, <4>4, <4>6
          <5> QED BY <4>1, <4>2, <4>3, <4>4, <4>6, <5>1
        <4> QED BY <4>5, <4>6
      <3>2. CASE q \notin asked
        BY <1>9, <1>10, <3>2
      <3> QED BY <3>1, <3>2
    <2> QED BY <2>1
  <1>20. now.out = was.out \cup ((given \ full) \X {n})
    <2>1. \A q : q \in given \ full <=> q \in asked /\ n \in R(q)
      <3> SUFFICES ASSUME NEW q \in asked
                   PROVE  q \in given \ full <=> n \in R(q)
        BY <1>13
      <3>1. PICK r \in Nat, m \in Nat : r = Rank(n, U(q)) /\ m = room[q]
        BY <1>7, <1>3, <1>5
      <3>2. q \in given \ full <=> n \in U(q) /\ r <= m /\ r # m
        BY <1>13, <1>14, <3>1
      <3>3. n \in R(q) <=> n \in U(q) /\ r < m
        BY <1>7, <1>5, <3>1
      <3> QED BY <3>1, <3>2, <3>3
    <2>2. ASSUME NEW e \in now.out PROVE e \in was.out \cup ((given \ full) \X {n})
      BY <1>8, <1>9, <2>1
    <2>3. ASSUME NEW e \in was.out PROVE e \in now.out
      BY <1>8, <1>9
    <2>4. ASSUME NEW e \in (given \ full) \X {n} PROVE e \in now.out
      <3>1. e[1] \in asked /\ e[2] = n /\ n \in R(e[1]) /\ e \in asked \X (F \cup {n})
        BY <2>1
      <3> QED BY <1>9, <3>1
    <2> QED BY <2>2, <2>3, <2>4
  <1>21. EmitCandidate(queries, room, was, n, accepting) = now
    BY <1>15, <1>16, <1>18, <1>19, <1>20
  <1> QED BY <1>21

\* The pass: what a candidate makes of what those before it came to.
NextCandidate(queries, room, accepting, so_far, n) ==
  CHOOSE next \in {EmitCandidate(queries, room, r, x, accepting) : r \in {so_far}, x \in {n}} : TRUE

Passes(queries, room, accepting, e) ==
  e = [i \in 0..Len(Sorted(DOMAIN accepting)) |->
         IF i = 0 THEN [taken |-> {}, active |-> DOMAIN queries, out |-> {}]
         ELSE NextCandidate(queries, room, accepting, e[i - 1], Sorted(DOMAIN accepting)[i])]

\* What a query has been sent after m candidates.
SentTo(run, m, q) == {e[2] : e \in {o \in run[m].out : o[1] = q}}

LEMMA BatchedIsPass ==
  ASSUME NEW queries, NEW room, NEW accepting,
         NEW run, run = (CHOOSE e : Passes(queries, room, accepting, e)),
         NEW m, m = Len(Sorted(DOMAIN accepting))
  PROVE  Batched(queries, room, accepting)
           = [q \in DOMAIN queries |-> Sorted(SentTo(run, m, q))]
  BY DEF Batched, Loop, Passes, NextCandidate, SentTo

\* What each query is given in one pass is what is due to it, as far as there is
\* room for it.
LEMMA BatchedGives ==
  ASSUME NEW queries, NEW room, NEW accepting, Pass(queries, room, accepting)
  PROVE  Batched(queries, room, accepting)
           = [q \in DOMAIN queries |-> Sorted(Newest(room[q], Due(queries, accepting, q)))]
  <1> DEFINE C == DOMAIN accepting
             m == Cardinality(C)
             at(j) == Passed(queries, room, accepting, Newest(j, C))
             Steps(e) == Passes(queries, room, accepting, e)
             next(r, k) == EmitCandidate(queries, room, r, Sorted(C)[k], accepting)
  <1>1. C \in SUBSET Notes
    BY DEF Pass
  <1>2. m \in Nat /\ Len(Sorted(C)) = m
    BY <1>1, NoteRanks, SortedIs
  <1>3. ASSUME NEW j \in 1..m PROVE next(at(j - 1), j) = at(j)
    BY PassStep
  <1>4. at(0) = [taken |-> {}, active |-> DOMAIN queries, out |-> {}]
    <2>1. Newest(0, C) = {}
      BY <1>1, NewestIs, NoteRanks
    <2>2. PICK first : first = Newest(0, C)
      OBVIOUS
    <2>3. /\ Passed(queries, room, accepting, first).taken = {}
          /\ Passed(queries, room, accepting, first).out = {}
      BY <2>1, <2>2, PassedIs
    <2>4. ASSUME NEW q \in DOMAIN queries PROVE Cardinality(Due(queries, accepting, q) \cap first) <= room[q]
      <3>1. Due(queries, accepting, q) \cap first = {}
        BY <2>1, <2>2
      <3>2. PICK none : none = Due(queries, accepting, q) \cap first
        OBVIOUS
      <3>3. Cardinality(none) = 0 /\ room[q] \in Nat
        BY <3>1, <3>2, FS_EmptySet DEF Pass
      <3> QED BY <3>2, <3>3
    <2>5. \A q : q \in Passed(queries, room, accepting, first).active <=> q \in DOMAIN queries
      BY <2>4, PassedIs
    <2>6. Passed(queries, room, accepting, first).active \in SUBSET DOMAIN queries
      BY <2>5
    <2>7. Passed(queries, room, accepting, first).active = DOMAIN queries
      BY <2>5, <2>6
    <2>8. LET p == Passed(queries, room, accepting, first)
          IN  p = [taken |-> p.taken, active |-> p.active, out |-> p.out]
      BY DEF Passed
    <2> QED BY <2>2, <2>3, <2>7, <2>8
  <1>5. \A e : Steps(e) <=>
          e = [k \in 0..m |-> IF k = 0 THEN [taken |-> {}, active |-> DOMAIN queries, out |-> {}]
                              ELSE next(e[k - 1], k)]
    <2>1. ASSUME NEW r0, NEW k
          PROVE  NextCandidate(queries, room, accepting, r0, Sorted(C)[k]) = next(r0, k)
      <3> DEFINE all == {EmitCandidate(queries, room, r, x, accepting) : r \in {r0}, x \in {Sorted(C)[k]}}
      <3>1. all = {next(r0, k)}
        OBVIOUS
      <3> HIDE DEF all, next
      <3>2. (CHOOSE r \in all : TRUE) = next(r0, k)
        BY <3>1
      <3> QED BY <3>2 DEF all, NextCandidate
    <2> HIDE DEF next
    <2> QED BY <1>2, <2>1 DEF Passes
  <1> HIDE DEF Steps, next, at, m
  <1> DEFINE good == [k \in 0..m |-> at(k)]
  <1>6. Steps(good)
    <2>1. ASSUME NEW k \in 0..m
          PROVE  at(k) = IF k = 0 THEN [taken |-> {}, active |-> DOMAIN queries, out |-> {}]
                         ELSE next(good[k - 1], k)
      <3>1. CASE k = 0
        BY <1>4, <3>1
      <3>2. CASE k # 0
        <4>1. k \in 1..m /\ k - 1 \in 0..m
          BY <1>2, <3>2
        <4>2. good[k - 1] = at(k - 1)
          BY <4>1
        <4> QED BY <1>3, <3>2, <4>1, <4>2
      <3> QED BY <3>1, <3>2
    <2> QED BY <1>5, <2>1
  <1>7. PICK run : run = (CHOOSE e : Steps(e))
    OBVIOUS
  <1>8. Steps(run)
    BY <1>6, <1>7
  <1>9. run[0] = at(0) /\ \A k \in 1..m : run[k] = next(run[k - 1], k)
    <2>1. run = [k \in 0..m |-> IF k = 0 THEN [taken |-> {}, active |-> DOMAIN queries, out |-> {}]
                              ELSE next(run[k - 1], k)]
      BY <1>5, <1>8
    <2>2. 0 \in 0..m /\ \A k \in 1..m : k \in 0..m /\ k # 0
      BY <1>2
    <2>3. run[0] = [taken |-> {}, active |-> DOMAIN queries, out |-> {}]
      BY <2>1, <2>2
    <2>4. \A k \in 1..m : run[k] = next(run[k - 1], k)
      BY <2>1, <2>2
    <2> QED BY <1>4, <2>3, <2>4
  <1> DEFINE T == {k \in Nat : k <= m => run[k] = at(k)}
  <1>10. \A k \in Nat : k \in T => k + 1 \in T
    <2> SUFFICES ASSUME NEW k \in Nat, k \in T, k + 1 <= m PROVE run[k + 1] = at(k + 1)
      OBVIOUS
    <2>1. k <= m /\ k + 1 \in 1..m /\ (k + 1) - 1 = k
      BY <1>2
    <2> QED BY <1>3, <1>9, <2>1
  <1>11. 0 \in T
    BY <1>9
  <1> HIDE DEF T
  <1>12. Nat \subseteq T
    BY <1>10, <1>11, Induction
  <1>13. run[m] = at(m)
    BY <1>2, <1>12 DEF T
  <1>14. Newest(m, C) = C
    BY <1>1, <1>2, NewestIs DEF m
  <1>15. ASSUME NEW q \in DOMAIN queries
         PROVE  SentTo(run, m, q) = Newest(room[q], Due(queries, accepting, q))
    <2>1. \A o : o \in run[m].out <=> o \in (DOMAIN queries) \X C /\ o[2] \in Newest(room[o[1]], Due(queries, accepting, o[1]))
      BY <1>13, <1>14, PassedIs DEF at
    <2>2. Newest(room[q], Due(queries, accepting, q)) \in SUBSET C
      <3>1. /\ Due(queries, accepting, q) \in SUBSET Notes
            /\ Due(queries, accepting, q) \in SUBSET C
            /\ room[q] \in Nat
        BY <1>1, WhatIsDue DEF Pass
      <3>2. Newest(room[q], Due(queries, accepting, q)) \in SUBSET Due(queries, accepting, q)
        BY <3>1, NewestIs
      <3> QED BY <3>1, <3>2
    <2>3. ASSUME NEW o \in run[m].out, o[1] = q PROVE o[2] \in Newest(room[q], Due(queries, accepting, q))
      BY <2>1, <2>3
    <2>4. ASSUME NEW n \in Newest(room[q], Due(queries, accepting, q))
          PROVE  n \in SentTo(run, m, q)
      <3>1. <<q, n>> \in run[m].out
        BY <2>1, <2>2
      <3>2. <<q, n>> \in {o \in run[m].out : o[1] = q} /\ <<q, n>>[2] = n
        BY <3>1
      <3> QED BY <3>2 DEF SentTo
    <2> QED BY <2>3, <2>4 DEF SentTo
  <1>16. Batched(queries, room, accepting) = [q \in DOMAIN queries |-> Sorted(SentTo(run, m, q))]
    <2>1. run = (CHOOSE e : Passes(queries, room, accepting, e))
      BY <1>7 DEF Steps
    <2>2. m = Len(Sorted(DOMAIN accepting))
      BY <1>2
    <2> QED BY <2>1, <2>2, BatchedIsPass
  <1> QED BY <1>15, <1>16

\* The beginning of a sorted answer is the sorted beginning of it.
LEMMA SortedBeginning ==
  ASSUME NEW S \in SUBSET Notes, NEW r \in Nat
  PROVE  Sorted(Newest(r, S))
           = SubSeq(Sorted(S), 1, IF r < Len(Sorted(S)) THEN r ELSE Len(Sorted(S)))
  <1> DEFINE T == Newest(r, S)
             k == IF r < Len(Sorted(S)) THEN r ELSE Len(Sorted(S))
             seq == SubSeq(Sorted(S), 1, k)
  <1>1. /\ Sorted(S) \in Seq(Notes) /\ Len(Sorted(S)) = Cardinality(S) /\ Cardinality(S) \in Nat
        /\ \A i \in 1..Cardinality(S) : Sorted(S)[i] \in S /\ Rank(Sorted(S)[i], S) = i - 1
    BY SortedIs, NoteRanks
  <1>2. /\ T = {n \in S : Rank(n, S) < r} /\ T \in SUBSET Notes
        /\ Cardinality(T) = k /\ k \in Nat /\ k <= Cardinality(S) /\ k <= r
    BY <1>1, NewestIs
  <1> HIDE DEF T, k
  <1>3. seq \in Seq(Notes) /\ Len(seq) = k /\ \A i \in 1..k : seq[i] = Sorted(S)[i]
    BY <1>1, <1>2
  <1> HIDE DEF seq
  <1>4. ASSUME NEW i \in 1..k PROVE seq[i] \in T /\ Rank(seq[i], T) = i - 1
    <2>1. i \in 1..Cardinality(S) /\ i - 1 \in Nat /\ i - 1 < r
      BY <1>1, <1>2
    <2>2. seq[i] \in S /\ Rank(seq[i], S) = i - 1
      BY <1>1, <1>3, <2>1
    <2>3. seq[i] \in T
      BY <1>2, <2>1, <2>2
    <2>4. ASSUME NEW x \in T PROVE {m \in T : Before(m, x)} = {m \in S : Before(m, x)}
      <3>1. ASSUME NEW m \in S, Before(m, x) PROVE m \in T
        <4>1. Rank(m, S) < Rank(x, S) /\ Rank(x, S) < r /\ Rank(m, S) \in Nat /\ Rank(x, S) \in Nat
          BY <1>2, <3>1, NoteRanks
        <4> QED BY <1>2, <4>1
      <3> QED BY <1>2, <3>1
    <2>5. Rank(seq[i], T) = Rank(seq[i], S)
      BY <2>3, <2>4 DEF Rank
    <2> QED BY <2>2, <2>3, <2>5
  <1>5. seq = Sorted(T)
    BY <1>2, <1>3, <1>4, SortedOnly
  <1> QED BY <1>5 DEF seq, T, k

\* A search answers notes of the storage that it accepts.
LEMMA AnswerIsAccepted ==
  ASSUME TypeOK, NEW f \in Searches, NEW index
  PROVE  Answer(f, index) = {n \in Stored : Accepts(f, n, Snapshot, index, store)}
  <1>1. f \in Filters /\ IsSearch(f)
    BY DEF Searches
  <1>2. Stored = Snapshot \cup Merged /\ \A d \in Days : partition[d] \in SUBSET Merged
    BY DEF Stored, Merged
  <1>3. ASSUME NEW n \in Answer(f, index) PROVE n \in Stored /\ Matches(f, n)
    <2>1. PICK d \in Days : n \in Found(f, d, Snapshot, index, partition, store)
      BY <1>3 DEF Answer
    <2>2. n \in HotMatches(f, Snapshot, index)
          \/ n \in PartitionMatches(f, d, index, partition, store)
      BY <2>1 DEF Found
    <2> QED BY <1>2, <2>2 DEF HotMatches, PartitionMatches
  <1>4. ASSUME NEW n \in Stored PROVE n \in Answer(f, index) <=> Accepts(f, n, Snapshot, index, store)
    <2>1. CASE Matches(f, n)
      <3>1. n \in Answer(f, index) <=>
              /\ IsSearch(f) => VisibleInIndex(index, n)
              /\ n \in Snapshot \/ (n \in Merged /\ VisibleInStore(store, n))
        BY <1>1, <2>1, Answers
      <3> QED BY <1>1, <1>2, <2>1, <3>1 DEF Accepts
    <2>2. CASE ~Matches(f, n)
      BY <1>3, <2>2 DEF Accepts
    <2> QED BY <2>1, <2>2
  <1> QED BY <1>3, <1>4

\* One pass for all queries answers each as if it were alone.
THEOREM BatchesAgree == Spec => []BatchAgrees
  <1>1. TypeOK => BatchAgrees
    <2> DEFINE asked == {q \in DOMAIN AllQueries : ToSet(AllQueries[q]) \subseteq Searches}
               queries == SearchQueries
    <2> SUFFICES ASSUME TypeOK, NEW index, NEW room \in [DOMAIN queries -> {1, Cardinality(Notes)}],
                        NEW a, a = Accepting(queries, Stored, Snapshot, index, store),
                        NEW alone, alone = [q \in DOMAIN queries |->
                                     Streaming(queries[q], Snapshot, index, partition, store)]
                 PROVE  Batched(queries, room, a)
                          = [q \in DOMAIN queries |->
                               SubSeq(alone[q], 1, IF room[q] < Len(alone[q]) THEN room[q] ELSE Len(alone[q]))]
      BY DEF BatchAgrees
    <2>1. DOMAIN queries = asked /\ \A q \in asked : queries[q] = AllQueries[q] /\ q \in DOMAIN AllQueries
      BY DEF SearchQueries, Restrict
    <2>2. ASSUME NEW q \in asked, NEW i \in DOMAIN queries[q]
          PROVE  queries[q][i] \in Searches /\ queries[q][i].limit \in Nat
      <3>1. queries[q][i] \in ToSet(AllQueries[q])
        BY <2>1, <2>2 DEF ToSet
      <3>2. queries[q][i] \in Searches
        BY <2>1, <3>1
      <3> QED BY <3>2, FiltersAssumption DEF Searches
    <2> HIDE DEF queries, asked
    <2>3. Stored \in SUBSET Notes
      BY DEF TypeOK, Stored, Snapshot, Merged
    <2>4. /\ DOMAIN a = Stored
          /\ \A n \in Stored : a[n] = {s \in Slots(queries) :
                                 Accepts(queries[s[1]][s[2]], n, Snapshot, index, store)}
      BY DEF Accepting, Slots
    <2>5. Pass(queries, room, a)
      <3>1. \A s \in Slots(queries) : Limit(queries, s) \in Nat
        BY <2>1, <2>2 DEF Slots, Limit
      <3>2. Cardinality(Notes) \in Nat
        BY NotesAssumption, FS_CardinalityType
      <3>3. room \in [DOMAIN queries -> Nat]
        BY <3>2
      <3> QED BY <2>3, <2>4, <3>1, <3>3 DEF Pass
    <2>6. ASSUME NEW q \in asked
          PROVE  Sorted(Newest(room[q], Due(queries, a, q)))
                   = SubSeq(alone[q], 1,
                       IF room[q] < Len(alone[q]) THEN room[q] ELSE Len(alone[q]))
      <3>1. ASSUME NEW i \in DOMAIN queries[q]
            PROVE  Shown(a, <<q, i>>) = Answer(queries[q][i], index)
        <4>1. <<q, i>> \in Slots(queries) /\ <<q, i>>[1] = q /\ <<q, i>>[2] = i
          BY <2>1, <2>6, <3>1 DEF Slots
        <4>2. \A n \in Stored : <<q, i>> \in a[n] <=> Accepts(queries[q][i], n, Snapshot, index, store)
          BY <2>4, <4>1
        <4>3. Answer(queries[q][i], index) = {n \in Stored : Accepts(queries[q][i], n, Snapshot, index, store)}
          BY <2>2, <2>6, <3>1, AnswerIsAccepted
        <4> QED BY <2>4, <4>2, <4>3 DEF Shown
      <3> DEFINE due(i) == Newest(queries[q][i].limit, Shown(a, <<q, i>>))
                 newest(i) == Newest(queries[q][i].limit, Answer(queries[q][i], index))
      <3>2. \A i \in DOMAIN queries[q] : due(i) = newest(i)
        BY <3>1
      <3> HIDE DEF due, newest
      <3>3. UNION {due(i) : i \in DOMAIN queries[q]} = UNION {newest(i) : i \in DOMAIN queries[q]}
        BY <3>2
      <3>4. Due(queries, a, q) = UNION {due(i) : i \in DOMAIN queries[q]}
        BY DEF Due, due
      <3>5. alone[q] = Sorted(UNION {newest(i) : i \in DOMAIN queries[q]})
        BY <2>1, <2>6, AnsweredAlone DEF newest
      <3>6. PICK S \in SUBSET Notes, r \in Nat : S = Due(queries, a, q) /\ r = room[q]
        BY <2>1, <2>5, <2>6, WhatIsDue DEF Pass
      <3>7. alone[q] = Sorted(S)
        BY <3>3, <3>4, <3>5, <3>6
      <3>8. Sorted(Newest(r, S))
              = SubSeq(Sorted(S), 1, IF r < Len(Sorted(S)) THEN r ELSE Len(Sorted(S)))
        BY SortedBeginning
      <3> QED BY <3>6, <3>7, <3>8
    <2>7. Batched(queries, room, a) = [q \in DOMAIN queries |-> Sorted(Newest(room[q], Due(queries, a, q)))]
      BY <2>5, BatchedGives
    <2> DEFINE given(q) == Sorted(Newest(room[q], Due(queries, a, q)))
               first(q) == SubSeq(alone[q], 1,
                             IF room[q] < Len(alone[q]) THEN room[q] ELSE Len(alone[q]))
    <2>8. \A q \in DOMAIN queries : given(q) = first(q)
      BY <2>1, <2>6
    <2> HIDE DEF given, first
    <2>9. Batched(queries, room, a) = [q \in DOMAIN queries |-> first(q)]
      BY <2>7, <2>8 DEF given
    <2> QED BY <2>9 DEF first
  <1> QED BY <1>1, StoreIsASummary, PTL
=============================================================================
