----------------------------- MODULE LoadingProofs -----------------------------
(***************************************************************************)
(* What becomes of packets that were accepted, and how a load ends, for    *)
(* any packets, any number of writes that are cut short, any dumps and any *)
(* size of the batches.                                                    *)
(***************************************************************************)
EXTENDS Loading, FiniteSetTheorems, TLAPS

Pieces == Packets \cup Parts

\* The whole packets of a file, whether a reader comes to them or not.
Held(file) == ToSet(file) \cap Packets

(***************************************************************************)
(* Files.                                                                  *)
(***************************************************************************)

\* In a file that can be read, a reader comes to every packet.
LEMMA ReadsAll ==
  ASSUME NEW file \in Seq(Pieces), ReadFile(file).ok
  PROVE  /\ ToSet(ReadFile(file).packets) = Held(file)
         /\ ReadFile(file).packets \in Seq(Pieces)
  <1> DEFINE End(i) == /\ Cuts(file) \cap 1..i = {}
                       /\ i < Len(file) => i + 1 \in Cuts(file)
             end == CHOOSE i \in 0..Len(file) : End(i)
  <1>1. \A i \in Cuts(file) : i = Len(file)
    BY DEF ReadFile
  <1>2. \E i \in 0..Len(file) : End(i)
    <2>1. CASE Cuts(file) = {}
      BY <2>1
    <2>2. CASE Cuts(file) # {}
      <3>1. Len(file) \in Cuts(file) /\ Len(file) >= 1
        BY <1>1, <2>2 DEF Cuts
      <3>2. Len(file) - 1 \in 0..Len(file)
        BY <3>1
      <3>3. Cuts(file) \cap 1..(Len(file) - 1) = {}
        BY <1>1, <3>1
      <3>4. End(Len(file) - 1)
        BY <3>1, <3>3
      <3> QED BY <3>2, <3>4
    <2> QED BY <2>1, <2>2
  <1>3. end \in 0..Len(file) /\ End(end)
    BY <1>2
  <1> HIDE DEF end
  <1>4. \A j \in 1..Len(file) : j \in 1..end <=> file[j] \in Packets
    <2> TAKE j \in 1..Len(file)
    <2>1. file[j] \in Pieces /\ (j \in Cuts(file) <=> file[j] \in Parts)
      BY DEF Cuts
    <2>2. file[j] \in Packets <=> j \notin Cuts(file)
      BY <2>1, PiecesAssumption DEF Pieces
    <2>3. j \notin Cuts(file) => j \in 1..end
      BY <1>1, <1>3
    <2> QED BY <1>3, <2>2, <2>3
  <1>5. ReadFile(file).packets = SubSeq(file, 1, end)
    BY DEF ReadFile, UpToCut, end
  <1>6. ToSet(SubSeq(file, 1, end)) = {file[j] : j \in 1..end}
    BY <1>3 DEF ToSet
  <1>7. ToSet(file) = {file[j] : j \in 1..Len(file)}
    BY DEF ToSet
  <1>8. {file[j] : j \in 1..end} = {file[j] : j \in 1..Len(file)} \cap Packets
    BY <1>3, <1>4
  <1>9. SubSeq(file, 1, end) \in Seq(Pieces)
    BY <1>3
  <1> QED BY <1>5, <1>6, <1>7, <1>8, <1>9 DEF Held

LEMMA JoinedFiles ==
  ASSUME NEW f \in Seq(Pieces), NEW g \in Seq(Pieces)
  PROVE  ToSet(f \o g) = ToSet(f) \cup ToSet(g)
  <1>1. /\ Len(f \o g) = Len(f) + Len(g) /\ f \o g \in Seq(Pieces)
        /\ Len(f) \in Nat /\ Len(g) \in Nat
    OBVIOUS
  <1>2. /\ \A i \in 1..Len(f) : (f \o g)[i] = f[i]
        /\ \A i \in 1..Len(g) : (f \o g)[Len(f) + i] = g[i]
    OBVIOUS
  <1>3. /\ ToSet(f) = {f[i] : i \in 1..Len(f)} /\ ToSet(g) = {g[i] : i \in 1..Len(g)}
        /\ ToSet(f \o g) = {(f \o g)[i] : i \in 1..(Len(f) + Len(g))}
    BY <1>1 DEF ToSet
  <1>4. ASSUME NEW i \in 1..(Len(f) + Len(g))
        PROVE  (f \o g)[i] \in ToSet(f) \cup ToSet(g)
    <2>1. CASE i <= Len(f)
      BY <1>1, <1>2, <1>3, <2>1
    <2>2. CASE i > Len(f)
      <3>1. i - Len(f) \in 1..Len(g) /\ i = Len(f) + (i - Len(f))
        BY <1>1, <2>2
      <3>2. (f \o g)[i] = g[i - Len(f)]
        BY <1>2, <3>1
      <3> QED BY <1>3, <3>1, <3>2
    <2> QED BY <1>1, <2>1, <2>2
  <1>5. ASSUME NEW i \in 1..Len(f) PROVE f[i] \in ToSet(f \o g)
    <2>1. i \in 1..(Len(f) + Len(g))
      BY <1>1
    <2> QED BY <1>2, <1>3, <2>1
  <1>6. ASSUME NEW i \in 1..Len(g) PROVE g[i] \in ToSet(f \o g)
    <2>1. Len(f) + i \in 1..(Len(f) + Len(g))
      BY <1>1
    <2> QED BY <1>2, <1>3, <2>1
  <1> QED BY <1>3, <1>4, <1>5, <1>6

LEMMA Appending ==
  ASSUME NEW file \in Seq(Pieces), NEW x \in Pieces
  PROVE  /\ Append(file, x) \in Seq(Pieces)
         /\ Held(Append(file, x)) = Held(file) \cup ({x} \cap Packets)
         /\ IsFiniteSet(Cuts(file)) /\ Cardinality(Cuts(file)) \in Nat
         /\ Cardinality(Cuts(Append(file, x)))
              = Cardinality(Cuts(file)) + (IF x \in Parts THEN 1 ELSE 0)
  <1>1. Append(file, x) \in Seq(Pieces)
    OBVIOUS
  <1>2. ToSet(Append(file, x)) = ToSet(file) \cup {x}
    <2>1. ToSet(Append(file, x)) = {Append(file, x)[i] : i \in 1..(Len(file) + 1)}
      BY DEF ToSet
    <2>2. /\ \A i \in 1..Len(file) : Append(file, x)[i] = file[i]
          /\ Append(file, x)[Len(file) + 1] = x
      OBVIOUS
    <2>3. ToSet(file) = {file[i] : i \in 1..Len(file)}
      BY DEF ToSet
    <2> QED BY <2>1, <2>2, <2>3
  <1>3. Cuts(Append(file, x)) = Cuts(file) \cup (IF x \in Parts THEN {Len(file) + 1} ELSE {})
    BY DEF Cuts
  <1>4. IsFiniteSet(Cuts(file)) /\ Cardinality(Cuts(file)) \in Nat
    <2>1. IsFiniteSet(1..Len(file))
      BY FS_Interval
    <2>2. Cuts(file) \subseteq 1..Len(file)
      BY DEF Cuts
    <2> QED BY <2>1, <2>2, FS_Subset, FS_CardinalityType
  <1>5. Len(file) + 1 \notin Cuts(file)
    BY DEF Cuts
  <1>6. Cardinality(Cuts(file) \cup {Len(file) + 1}) = Cardinality(Cuts(file)) + 1
    BY <1>4, <1>5, FS_AddElement
  <1>7. Held(Append(file, x)) = Held(file) \cup ({x} \cap Packets)
    BY <1>2 DEF Held
  <1>8. Cardinality(Cuts(Append(file, x)))
          = Cardinality(Cuts(file)) + (IF x \in Parts THEN 1 ELSE 0)
    <2>1. CASE x \in Parts
      BY <1>3, <1>6, <2>1
    <2>2. CASE x \notin Parts
      <3>1. Cuts(Append(file, x)) = Cuts(file)
        BY <1>3, <2>2
      <3> QED BY <1>4, <2>2, <3>1
    <2> QED BY <2>1, <2>2
  <1> QED BY <1>1, <1>4, <1>7, <1>8

LEMMA EmptyFile ==
  <<>> \in Seq(Pieces) /\ Held(<<>>) = {} /\ Cardinality(Cuts(<<>>)) = 0
  <1>1. ToSet(<<>>) = {} /\ Cuts(<<>>) = {}
    BY DEF ToSet, Cuts
  <1> QED BY <1>1, FS_EmptySet DEF Held

(***************************************************************************)
(* The storage.                                                            *)
(***************************************************************************)
FilesInv ==
  /\ TypeOK
  /\ hot \in Seq(Pieces) /\ compacting \in Seq(Pieces)
  /\ accepted \subseteq Held(hot) \cup Held(compacting) \cup partition

LEMMA InitFiles == Init => FilesInv
  BY EmptyFile, PiecesAssumption DEF Init, FilesInv, TypeOK

LEMMA FilesType ==
  ASSUME NEW file \in Seq(Pieces)
  PROVE  /\ \A i \in DOMAIN file : file[i] \in Packets \cup Parts
         /\ Cardinality(Cuts(file)) \in Nat
  <1>1. CASE Packets = {} /\ file = <<>>
    BY <1>1, EmptyFile
  <1>2. PICK x : x \in Pieces
    BY DEF Pieces, Parts
  <1> QED BY <1>2, Appending DEF Pieces

LEMMA StoreFiles ==
  ASSUME FilesInv, NEW p \in Packets, Store(p), accepted' \subseteq accepted \cup {p}
  PROVE  FilesInv'
  <1>1. /\ hot' = Append(hot, p)
        /\ UNCHANGED <<compacting, partition, sidecar, kinds, session>>
    BY DEF Store
  <1>2. p \in Pieces /\ p \notin Parts
    BY PiecesAssumption DEF Pieces
  <1>3. /\ hot' \in Seq(Pieces) /\ Held(hot') = Held(hot) \cup {p}
        /\ Cardinality(Cuts(hot')) = Cardinality(Cuts(hot))
        /\ Cardinality(Cuts(hot)) \in Nat
    BY <1>1, <1>2, Appending DEF FilesInv
  <1>4. TypeOK'
    BY <1>1, <1>3, FilesType DEF FilesInv, TypeOK
  <1> QED BY <1>1, <1>3, <1>4 DEF FilesInv

LEMMA CutFiles ==
  ASSUME FilesInv, NEW part \in Parts, CutShort(part),
         UNCHANGED <<compacting, partition, sidecar, kinds, accepted>>,
         session' \in {"up", "down"}
  PROVE  FilesInv'
  <1>1. /\ hot' = Append(hot, part)
        /\ Cardinality(Cuts(hot)) + Cardinality(Cuts(compacting)) < MaxCuts
    BY DEF CutShort
  <1>2. part \in Pieces /\ part \notin Packets
    BY PiecesAssumption DEF Pieces
  <1>3. /\ hot' \in Seq(Pieces) /\ Held(hot') = Held(hot)
        /\ Cardinality(Cuts(hot')) = Cardinality(Cuts(hot)) + 1
        /\ Cardinality(Cuts(hot)) \in Nat
    <2>1. hot \in Seq(Pieces)
      BY DEF FilesInv
    <2>2. {part} \cap Packets = {} /\ part \in Parts
      BY <1>2
    <2>3. /\ Append(hot, part) \in Seq(Pieces)
          /\ Held(Append(hot, part)) = Held(hot) \cup ({part} \cap Packets)
          /\ Cardinality(Cuts(hot)) \in Nat
          /\ Cardinality(Cuts(Append(hot, part)))
               = Cardinality(Cuts(hot)) + (IF part \in Parts THEN 1 ELSE 0)
      BY <1>2, <2>1, Appending
    <2> QED BY <1>1, <2>2, <2>3
  <1>4. Cardinality(Cuts(compacting)) \in Nat
    BY FilesType DEF FilesInv
  <1>5. TypeOK'
    BY <1>1, <1>3, <1>4, FilesType, PiecesAssumption DEF FilesInv, TypeOK
  <1> QED BY <1>3, <1>5 DEF FilesInv

LEMMA MergeFiles ==
  ASSUME FilesInv, NEW k \in KindSets, MergeFile(compacting, k),
         kinds' \in KindSets, session' = "up", UNCHANGED <<hot, accepted>>
  PROVE  FilesInv'
  <1>1. /\ ReadFile(compacting).ok /\ compacting' = <<>>
        /\ partition' = partition \cup ToSet(ReadFile(compacting).packets)
        /\ sidecar' = sidecar \/ sidecar'.kinds = k
    BY DEF MergeFile
  <1>2. partition' = partition \cup Held(compacting)
    BY <1>1, ReadsAll DEF FilesInv
  <1>3. /\ Cardinality(Cuts(hot)) \in Nat /\ Cardinality(Cuts(compacting)) \in Nat
        /\ Cardinality(Cuts(compacting')) = 0
    BY <1>1, FilesType, EmptyFile DEF FilesInv
  <1>4. partition' \subseteq Packets
    BY <1>2 DEF FilesInv, TypeOK, Held
  <1>5. \A i \in DOMAIN compacting' : compacting'[i] \in Packets \cup Parts
    BY <1>1
  <1>6. sidecar' # NoSidecar => sidecar'.kinds \in KindSets
    BY <1>1 DEF FilesInv, TypeOK
  <1>7. Cardinality(Cuts(hot')) + Cardinality(Cuts(compacting')) <= MaxCuts
    BY <1>3, PiecesAssumption DEF FilesInv, TypeOK
  <1>8. TypeOK'
    BY <1>4, <1>5, <1>6, <1>7 DEF FilesInv, TypeOK
  <1> QED BY <1>1, <1>2, <1>8, EmptyFile DEF FilesInv

LEMMA NextFiles ==
  ASSUME FilesInv, [Next]_vars
  PROVE  FilesInv'
  <1>1. ASSUME NEW p \in Packets, Accept(p) PROVE FilesInv'
    BY <1>1, StoreFiles DEF Accept
  <1>2. ASSUME NEW p \in Packets, AppendFails(p) PROVE FilesInv'
    <2>1. CASE RotationFails(p)
      BY <2>1, StoreFiles DEF RotationFails
    <2>2. ASSUME NEW part \in Parts, WriteFails(p, part) PROVE FilesInv'
      BY <2>2, CutFiles DEF WriteFails, FilesInv, TypeOK
    <2> QED BY <1>2, <2>1, <2>2 DEF AppendFails
  <1>3. CASE Rotate
    <2>1. /\ compacting = <<>> /\ compacting' = hot /\ hot' = <<>>
          /\ UNCHANGED <<partition, sidecar, kinds, session, accepted>>
      BY <1>3 DEF Rotate
    <2>2. Cardinality(Cuts(hot)) \in Nat
      BY FilesType DEF FilesInv
    <2> QED BY <2>1, <2>2, EmptyFile, FilesType DEF FilesInv, TypeOK
  <1>4. CASE Merge
    BY <1>4, MergeFiles DEF Merge, FilesInv, TypeOK
  <1>5. CASE Rebuild
    BY <1>5 DEF Rebuild, FilesInv, TypeOK
  <1>6. CASE Crash
    <2>1. CASE UNCHANGED hot
      BY <1>6, <2>1 DEF Crash, FilesInv, TypeOK
    <2>2. ASSUME NEW part \in Parts, CutShort(part) PROVE FilesInv'
      BY <1>6, <2>2, CutFiles DEF Crash
    <2> QED BY <1>6, <2>1, <2>2 DEF Crash
  <1>7. ASSUME NEW k \in KindSets, Open(k) PROVE FilesInv'
    BY <1>7, MergeFiles DEF Open
  <1>8. CASE UNCHANGED vars
    BY <1>8 DEF vars, FilesInv, TypeOK
  <1> QED BY <1>1, <1>2, <1>3, <1>4, <1>5, <1>6, <1>7, <1>8 DEF Next

\* Nothing that is held is missing from what is read, if all can be read.
LEMMA HeldIsRead == FilesInv /\ Readable => accepted \subseteq Stored
  <1> SUFFICES ASSUME FilesInv, Readable PROVE accepted \subseteq Stored
    OBVIOUS
  <1> DEFINE h == ReadFile(hot).packets
             c == ReadFile(compacting).packets
  <1>1. ToSet(h) = Held(hot) /\ ToSet(c) = Held(compacting)
    BY ReadsAll DEF FilesInv, Readable
  <1>2. ToSet(h \o c) = ToSet(h) \cup ToSet(c)
    BY ReadsAll, JoinedFiles DEF FilesInv, Readable
  <1> QED BY <1>1, <1>2 DEF Stored, Snapshot, FilesInv

LEMMA AcceptedStays == [Next]_vars => accepted \subseteq accepted'
  BY DEF Next, vars, Accept, AppendFails, RotationFails, WriteFails, Rotate, Merge,
         Rebuild, Crash, Open

(***************************************************************************)
(* The load.                                                               *)
(***************************************************************************)
Batches(k) == k * LoadBatch

LoadInv ==
  /\ dump \in Dumps
  /\ batchEnd \in 0..Count /\ next \in 1..(Count + 1)
  /\ dump.cut => \E k \in Nat : batchEnd = Batches(k)
  /\ load = "reading" => next = batchEnd + 1
  /\ load = "inserting" => next \in 1..batchEnd
  /\ load \in {"reading", "inserting", "storage error"} => announced = Fine(next - 1)
  /\ load = "ok" => ~dump.cut /\ announced = Fine(Count)
  /\ load = "cut short" => /\ dump.cut /\ announced = Fine(batchEnd)
                           /\ batchEnd + LoadBatch > Count
  /\ announced \subseteq Fine(Count) \cap accepted

LEMMA DumpType ==
  ASSUME dump \in Dumps
  PROVE  /\ Count \in Nat /\ dump.cut \in BOOLEAN
         /\ \A i \in 1..Count : dump.records[i] \in Packets \cup {Bad}
  <1>1. dump.records \in Seq(Packets \cup {Bad}) /\ dump.cut \in BOOLEAN
    BY DumpsAssumption
  <1> QED BY <1>1 DEF Count

LEMMA FineSteps ==
  ASSUME NEW n \in Nat \ {0}
  PROVE  Fine(n) = Fine(n - 1) \cup ({dump.records[n]} \ {Bad})
  <1>1. 1..n = 1..(n - 1) \cup {n}
    OBVIOUS
  <1> QED BY <1>1 DEF Fine

\* As many records as there are in whole batches.
LEMMA WholeBatches ==
  ASSUME NEW b \in Nat \ {0}, NEW k \in Nat, NEW n \in Nat, k * b <= n, n < k * b + b
  PROVE  (n \div b) * b = k * b
  <1>1. n \div b \in Nat /\ n % b \in 0..(b - 1)
    OBVIOUS
  <1>2. n = b * (n \div b) + (n % b)
    OBVIOUS
  <1>3. n \div b = k
    OBVIOUS
  <1> QED BY <1>3

LEMMA SmallerOfTwo ==
  ASSUME NEW a \in Int, NEW b \in Int
  PROVE  Min({a, b}) = IF a <= b THEN a ELSE b
  BY DEF Min

LEMMA InitLoad == LoadInit => FilesInv /\ LoadInv
  <1> SUFFICES ASSUME LoadInit PROVE FilesInv /\ LoadInv
    OBVIOUS
  <1>1. FilesInv
    BY InitFiles DEF LoadInit
  <1>2. Count \in Nat
    BY DumpType DEF LoadInit
  <1>3. 0 = Batches(0)
    BY DumpsAssumption DEF Batches
  <1> QED BY <1>1, <1>2, <1>3 DEF LoadInit, LoadInv

LEMMA StartLoadInv ==
  ASSUME LoadInv, StartLoad PROVE LoadInv'
  <1>1. /\ load' = "reading" /\ next' = 1 /\ batchEnd' = 0 /\ announced' = {}
        /\ UNCHANGED <<dump, accepted>>
    BY DEF StartLoad, vars
  <1>2. Count \in Nat /\ Count' = Count
    BY <1>1, DumpType DEF LoadInv, Count
  <1>3. 0 = Batches(0)
    BY DumpsAssumption DEF Batches
  <1>4. next' - 1 = 0
    BY <1>1
  <1>5. Fine(next - 1)' = {}
    BY <1>4 DEF Fine
  <1>6. dump' \in Dumps /\ announced' \subseteq Fine(Count)' \cap accepted'
    BY <1>1 DEF LoadInv
  <1>7. dump'.cut => \E k \in Nat : batchEnd' = Batches(k)'
    BY <1>1, <1>3 DEF Batches
  <1>8. /\ batchEnd' \in 0..Count' /\ next' \in 1..(Count' + 1)
        /\ next' = batchEnd' + 1
    BY <1>1, <1>2
  <1>9. load' \in {"reading", "inserting", "storage error"} => announced' = Fine(next - 1)'
    BY <1>1, <1>5
  <1> QED BY <1>1, <1>6, <1>7, <1>8, <1>9 DEF LoadInv

LEMMA ReadBatchInv ==
  ASSUME LoadInv, ReadBatch PROVE LoadInv'
  <1>1. /\ load = "reading" /\ next = batchEnd + 1 /\ announced = Fine(batchEnd)
        /\ UNCHANGED <<dump, next, announced, accepted>>
        /\ Count \in Nat /\ LoadBatch \in Nat \ {0} /\ batchEnd \in 0..Count
        /\ announced \subseteq Fine(Count) \cap accepted
    <2>1. load = "reading" /\ UNCHANGED <<dump, next, announced, accepted>>
      BY DEF ReadBatch, vars
    <2>2. Count \in Nat /\ LoadBatch \in Nat \ {0}
      BY DumpType, DumpsAssumption DEF LoadInv
    <2>3. next - 1 = batchEnd /\ next = batchEnd + 1 /\ batchEnd \in 0..Count
      BY <2>1, <2>2 DEF LoadInv
    <2>4. announced = Fine(next - 1) /\ announced \subseteq Fine(Count) \cap accepted
      BY <2>1 DEF LoadInv
    <2> QED BY <2>1, <2>2, <2>3, <2>4
  <1>2. Count' = Count /\ \A n : Fine(n)' = Fine(n)
    BY <1>1 DEF Count, Fine
  <1>3. CASE batchEnd + LoadBatch > Count /\ dump.cut
    BY <1>1, <1>2, <1>3 DEF ReadBatch, LoadInv, Batches
  <1>4. CASE ~(batchEnd + LoadBatch > Count /\ dump.cut)
    <2>1. batchEnd' = IF batchEnd + LoadBatch <= Count THEN batchEnd + LoadBatch ELSE Count
      <3>1. batchEnd' = Min({batchEnd + LoadBatch, Count})
        BY <1>4 DEF ReadBatch
      <3>2. batchEnd + LoadBatch \in Int /\ Count \in Int
        BY <1>1
      <3> QED BY <3>1, <3>2, SmallerOfTwo
    <2>2. load' = IF batchEnd' > batchEnd THEN "inserting" ELSE "ok"
      BY <1>4 DEF ReadBatch
    <2>3. dump'.cut => \E k \in Nat : batchEnd' = Batches(k)
      <3> SUFFICES ASSUME dump.cut PROVE \E k \in Nat : batchEnd' = Batches(k)
        BY <1>1
      <3>1. PICK k \in Nat : batchEnd = k * LoadBatch
        BY DEF LoadInv, Batches
      <3>2. batchEnd' = batchEnd + LoadBatch
        BY <1>1, <1>4, <2>1
      <3>3. batchEnd' = (k + 1) * LoadBatch
        BY <1>1, <3>1, <3>2
      <3> QED BY <3>3 DEF Batches
    <2>4. batchEnd' \in 0..Count
      BY <1>1, <2>1
    <2>5. CASE batchEnd' > batchEnd
      <3>1. load' = "inserting" /\ next' \in 1..batchEnd'
        BY <1>1, <2>2, <2>4, <2>5
      <3> QED BY <1>1, <1>2, <2>3, <2>4, <3>1 DEF LoadInv, Batches
    <2>6. CASE ~(batchEnd' > batchEnd)
      <3>1. load' = "ok" /\ batchEnd = Count /\ ~dump.cut
        BY <1>1, <1>4, <2>1, <2>2, <2>6
      <3> QED BY <1>1, <1>2, <2>3, <2>4, <3>1 DEF LoadInv, Batches
    <2> QED BY <2>5, <2>6
  <1> QED BY <1>3, <1>4

\* A record is done with, and sent to the subscriptions unless it is bad.
LEMMA AdvanceInv ==
  ASSUME LoadInv, load = "inserting", Advance, accepted \subseteq accepted',
         announced' = announced \cup ({dump.records[next]} \ {Bad}),
         dump.records[next] = Bad \/ dump.records[next] \in accepted'
  PROVE  LoadInv'
  <1>1. /\ Count \in Nat /\ batchEnd \in 0..Count /\ next \in 1..batchEnd
        /\ UNCHANGED <<dump, batchEnd>> /\ next' = next + 1
        /\ announced = Fine(next - 1) /\ announced \subseteq Fine(Count) \cap accepted
    BY DumpType DEF LoadInv, Advance
  <1>2. Count' = Count /\ \A n : Fine(n)' = Fine(n)
    BY <1>1 DEF Count, Fine
  <1>3. announced' = Fine(next) /\ next' - 1 = next
    BY <1>1, FineSteps
  <1>4. Fine(next) \subseteq Fine(Count)
    BY <1>1 DEF Fine
  <1>5. announced' \subseteq Fine(Count)' \cap accepted'
    BY <1>1, <1>2, <1>3, <1>4
  <1>6. \/ load' = "reading" /\ next' = batchEnd' + 1
        \/ load' = "inserting" /\ next' \in 1..batchEnd'
    BY <1>1 DEF Advance
  <1>7. next' \in 1..(Count + 1)
    BY <1>1
  <1> QED BY <1>1, <1>2, <1>3, <1>5, <1>6, <1>7 DEF LoadInv, Batches

LEMMA InsertFailsInv ==
  ASSUME LoadInv, InsertFails PROVE LoadInv'
  <1>1. /\ load = "inserting" /\ load' = "storage error"
        /\ UNCHANGED <<dump, next, batchEnd, announced, accepted>>
    BY DEF InsertFails, Inserting, AppendFails, RotationFails, WriteFails, vars
  <1>2. Count' = Count /\ \A n : Fine(n)' = Fine(n)
    BY <1>1 DEF Count, Fine
  <1> QED BY <1>1, <1>2 DEF LoadInv, Batches

LEMMA BesideInv ==
  ASSUME LoadInv, accepted \subseteq accepted',
         UNCHANGED <<dump, next, batchEnd, announced>>, load' \in {"idle", load}
  PROVE  LoadInv'
  <1>1. Count' = Count /\ \A n : Fine(n)' = Fine(n)
    BY DEF Count, Fine
  <1> QED BY <1>1 DEF LoadInv, Batches

LEMMA NextLoad ==
  ASSUME FilesInv, LoadInv, [LoadNext]_<<vars, loadVars>>
  PROVE  FilesInv' /\ LoadInv'
  <1>1. CASE StartLoad
    BY <1>1, NextFiles, StartLoadInv DEF StartLoad
  <1>2. CASE ReadBatch
    BY <1>2, NextFiles, ReadBatchInv DEF ReadBatch
  <1>3. CASE SkipRecord
    <2>1. /\ UNCHANGED <<announced, vars>> /\ dump.records[next] = Bad
          /\ load = "inserting" /\ Advance
      BY <1>3 DEF SkipRecord, Inserting
    <2>2. accepted' = accepted
      BY <2>1 DEF vars
    <2>3. announced' = announced \cup ({dump.records[next]} \ {Bad})
      BY <2>1
    <2> QED BY <2>1, <2>2, <2>3, NextFiles, AdvanceInv
  <1>4. CASE InsertRecord
    <2>1. /\ Inserting /\ dump.records[next] # Bad /\ Advance
          /\ Accept(dump.records[next]) /\ load = "inserting"
          /\ announced' = announced \cup {dump.records[next]}
      BY <1>4 DEF InsertRecord, Inserting
    <2>2. dump.records[next] \in Packets
      <3>1. next \in 1..Count
        BY <2>1, DumpType DEF LoadInv
      <3> QED BY <2>1, <3>1, DumpType DEF LoadInv
    <2>3. Next
      BY <2>1, <2>2 DEF Next
    <2>4. accepted' = accepted \cup {dump.records[next]}
      BY <2>1 DEF Accept
    <2>5. announced' = announced \cup ({dump.records[next]} \ {Bad})
      BY <2>1
    <2> QED BY <2>1, <2>3, <2>4, <2>5, NextFiles, AdvanceInv
  <1>5. CASE InsertFails
    <2>1. next \in 1..Count /\ dump.records[next] \in Packets
      <3>1. next \in 1..Count /\ dump.records[next] # Bad
        <4>1. load = "inserting" /\ dump.records[next] # Bad
          BY <1>5 DEF InsertFails, Inserting
        <4>2. dump \in Dumps /\ batchEnd \in 0..Count /\ next \in 1..batchEnd
          BY <4>1 DEF LoadInv
        <4>3. Count \in Nat
          BY <4>2, DumpType
        <4> QED BY <4>1, <4>2, <4>3
      <3>2. dump \in Dumps
        BY DEF LoadInv
      <3> QED BY <3>1, <3>2, DumpType
    <2>2. [Next]_vars
      BY <1>5, <2>1 DEF InsertFails, Next
    <2> QED BY <1>5, <2>2, NextFiles, InsertFailsInv
  <1>6. CASE Beside
    BY <1>6, NextFiles, AcceptedStays, BesideInv DEF Beside
  <1>7. CASE UNCHANGED <<vars, loadVars>>
    <2>1. UNCHANGED vars /\ UNCHANGED <<dump, load, next, batchEnd, announced>>
      BY <1>7 DEF loadVars
    <2> QED BY <2>1, NextFiles, BesideInv DEF vars
  <1> QED BY <1>1, <1>2, <1>3, <1>4, <1>5, <1>6, <1>7 DEF LoadNext

LEMMA LoadAlways == LoadSpec => [](FilesInv /\ LoadInv)
  BY InitLoad, NextLoad, PTL DEF LoadSpec

(***************************************************************************)
(* What holds.                                                             *)
(***************************************************************************)

\* The files hold packets and parts of packets, and no more than MaxCuts parts,
\* whatever appends, compactions, crashes, restarts and loads do.
THEOREM TypeCorrect == LoadSpec => []TypeOK
  BY LoadAlways, PTL DEF FilesInv

\* No packet whose append returned Ok is ever missing from an answer: either a
\* file is an error to all that read it, or the packet is read.
THEOREM LosesNothingSilently == LoadSpec => []NoSilentLoss
  <1>1. FilesInv => NoSilentLoss
    BY HeldIsRead DEF NoSilentLoss
  <1> QED BY <1>1, LoadAlways, PTL

\* What a load has sent to the subscriptions stays in the database.
THEOREM AnnouncedStaysStored == LoadSpec => []AnnouncedIsStored
  <1>1. FilesInv /\ LoadInv => AnnouncedIsStored
    BY HeldIsRead DEF AnnouncedIsStored, LoadInv
  <1> QED BY <1>1, LoadAlways, PTL

\* However a load ends, it has inserted and announced a prefix of the dump: all of
\* it, all whole batches before the cut, or all that came before the refused record.
THEOREM LoadsAPrefix == LoadSpec => []LoadAccounted
  <1>1. FilesInv /\ LoadInv => LoadAccounted
    <2> SUFFICES ASSUME LoadInv PROVE LoadAccounted
      OBVIOUS
    <2>1. announced \subseteq Fine(Count)
      BY DEF LoadInv
    <2>2. CASE load = "cut short"
      <3>1. Count \in Nat /\ LoadBatch \in Nat \ {0}
        BY DumpType, DumpsAssumption DEF LoadInv
      <3>2. PICK k \in Nat : batchEnd = k * LoadBatch
        BY <2>2 DEF LoadInv, Batches
      <3>3. k * LoadBatch <= Count /\ Count < k * LoadBatch + LoadBatch
        <4>1. batchEnd \in 0..Count /\ batchEnd + LoadBatch > Count
          BY <2>2 DEF LoadInv
        <4> QED BY <3>1, <3>2, <4>1
      <3>4. (Count \div LoadBatch) * LoadBatch = batchEnd
        BY <3>1, <3>2, <3>3, WholeBatches
      <3> QED BY <2>2, <3>4 DEF LoadInv, LoadAccounted
    <2>3. CASE load # "cut short"
      BY <2>1, <2>3 DEF LoadInv, LoadAccounted
    <2> QED BY <2>2, <2>3
  <1> QED BY <1>1, LoadAlways, PTL
=============================================================================
