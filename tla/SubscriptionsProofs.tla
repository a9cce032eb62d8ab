------------------------- MODULE SubscriptionsProofs -------------------------
(***************************************************************************)
(* What a subscriber is promised, for any number of events, subscriptions  *)
(* and workers, any capacity, and however requests are split into batches. *)
(***************************************************************************)
EXTENDS Subscriptions, SequenceTheorems, FiniteSetTheorems, WellFoundedInduction,
        NaturalsInduction, TLAPS

\* A send adds the item for those it reaches, and for nobody else; whoever it
\* does not reach leaves the table.
LEMMA Sending ==
  ASSUME DeliveryTypeOK, NEW to, NEW item \in Events \cup {Eose}, TrySend(to, item)
  PROVE  /\ sent' \in [Subs -> SUBSET (Events \cup {Eose})]
         /\ backlog' \in [Subs -> 0..Capacity]
         /\ entries' \subseteq entries
         /\ \A s \in Subs : sent[s] \subseteq sent'[s] /\ sent'[s] \subseteq sent[s] \cup {item}
         /\ \A s \in Subs \cap to : CanSend(s) => item \in sent'[s]
         /\ \A s \in Subs : ~(s \in to /\ CanSend(s)) => sent'[s] = sent[s]
         /\ \A s \in entries' : s \in to => CanSend(s)
  <1> DEFINE reached == {s \in to : CanSend(s)}
  <1>1. /\ sent' = [s \in Subs |-> sent[s] \cup IF s \in reached THEN {item} ELSE {}]
        /\ backlog' = [s \in Subs |-> backlog[s] + IF s \in reached THEN 1 ELSE 0]
        /\ entries' = entries \ (to \ reached)
    BY DEF TrySend
  <1>2. backlog' \in [Subs -> 0..Capacity]
    BY <1>1, ConstantsAssumption DEF DeliveryTypeOK, CanSend
  <1>3. sent' \in [Subs -> SUBSET (Events \cup {Eose})]
    BY <1>1 DEF DeliveryTypeOK
  <1> QED BY <1>1, <1>2, <1>3 DEF DeliveryTypeOK

LEMMA InitDelivery == Init => DeliveryInv
  BY ConstantsAssumption DEF Init, DeliveryInv, DeliveryTypeOK, InsertInv, SnapshotInv, Workers

LEMMA StutterDelivery ==
  ASSUME DeliveryInv, UNCHANGED <<inserts, table, channels, active, promised, emitted>>
  PROVE  DeliveryInv'
  BY DEF DeliveryInv, DeliveryTypeOK, InsertInv, SnapshotInv, inserts, table, channels

LEMMA InsertKeepsDelivery ==
  ASSUME DeliveryInv, InsertStep
  PROVE  DeliveryInv'
  <1> USE DEF DeliveryInv, DeliveryTypeOK
  <1>1. ASSUME NEW e \in Events, AppendPacket(e) PROVE DeliveryInv'
    BY <1>1 DEF AppendPacket, InsertInv, SnapshotInv, table, channels, pool
  <1>2. ASSUME NEW e \in Events, Collect(e) PROVE DeliveryInv'
    BY <1>2 DEF Collect, InsertInv, SnapshotInv, table, channels, pool
  <1>3. ASSUME NEW e \in Events, FinishInsert(e) PROVE DeliveryInv'
    BY <1>3 DEF FinishInsert, InsertInv, SnapshotInv, table, channels, pool
  <1>4. ASSUME NEW e \in Events, NEW r \in Subs, Broadcast(e, r) PROVE DeliveryInv'
    <2>1. /\ insert[e] = "sending" /\ TrySend({r}, e)
          /\ targets' = [targets EXCEPT ![e] = @ \ {r}]
          /\ UNCHANGED <<stored, insert, life, asOf, active, promised, emitted>>
      BY <1>4 DEF Broadcast, pool
    <2>2. /\ sent' \in [Subs -> SUBSET (Events \cup {Eose})]
          /\ backlog' \in [Subs -> 0..Capacity] /\ entries' \subseteq entries
          /\ \A s \in Subs : sent[s] \subseteq sent'[s] /\ sent'[s] \subseteq sent[s] \cup {e}
          /\ r \in entries' => e \in sent'[r]
      BY <2>1, Sending
    <2>3. DeliveryTypeOK'
      BY <2>1, <2>2
    <2>4. InsertInv'
      BY <2>1, <2>2 DEF InsertInv
    <2>5. SnapshotInv'
      BY <2>1, <2>2, ConstantsAssumption DEF SnapshotInv
    <2> QED BY <2>3, <2>4, <2>5
  <1>5. ASSUME NEW e \in Events, AppendFails(e) \/ FinishSilently(e) PROVE DeliveryInv'
    BY <1>5 DEF AppendFails, FinishSilently, InsertInv, SnapshotInv, table, channels, pool
  <1> QED BY <1>1, <1>2, <1>3, <1>4, <1>5 DEF InsertStep

LEMMA SubscriberKeepsDelivery ==
  ASSUME DeliveryInv, SubscriberStep
  PROVE  DeliveryInv'
  <1> USE DEF DeliveryInv, DeliveryTypeOK
  <1>1. ASSUME NEW r \in Subs, Register(r) PROVE DeliveryInv'
    BY <1>1 DEF Register, InsertInv, SnapshotInv, inserts, channels, pool
  <1>2. ASSUME NEW r \in Subs, Enqueue(r) PROVE DeliveryInv'
    BY <1>2 DEF Enqueue, InsertInv, SnapshotInv, inserts, channels, pool
  <1>3. ASSUME NEW r \in Subs, Receive(r) PROVE DeliveryInv'
    BY <1>3, ConstantsAssumption
       DEF Receive, InsertInv, SnapshotInv, inserts, table, pool
  <1>4. ASSUME NEW r \in Subs, Drop(r) PROVE DeliveryInv'
    BY <1>4, ConstantsAssumption DEF Drop, InsertInv, SnapshotInv, inserts, pool
  <1> QED BY <1>1, <1>2, <1>3, <1>4 DEF SubscriberStep

LEMMA DispatcherKeepsDelivery ==
  ASSUME DeliveryInv, DispatcherStep \/ Close
  PROVE  DeliveryInv'
  <1>1. ASSUME HandleEnqueue \/ HandleCompleted \/ Joined \/ Close PROVE DeliveryInv'
    BY <1>1, StutterDelivery DEF HandleEnqueue, HandleCompleted, Joined, Close, pool
  <1>2. ASSUME HandleShutdown PROVE DeliveryInv'
    BY <1>2 DEF HandleShutdown, DeliveryInv, DeliveryTypeOK, InsertInv, SnapshotInv,
                inserts, channels, pool
  <1> QED BY <1>1, <1>2 DEF DispatcherStep

LEMMA WorkerKeepsDelivery ==
  ASSUME DeliveryInv, WorkerStep
  PROVE  DeliveryInv'
  <1>1. ASSUME NEW w \in Workers, Begin(w) PROVE DeliveryInv'
    <2> DEFINE open == {s \in Subs : s \in Elements(batch[w]) /\ life[s] = "live"}
    <2>1. /\ active' = [active EXCEPT ![w] = open]
          /\ promised' = [promised EXCEPT ![w] = stored]
          /\ emitted' = [emitted EXCEPT ![w] = {}]
          /\ UNCHANGED <<inserts, table, channels>>
      BY <1>1 DEF Begin
    <2> QED BY <2>1 DEF DeliveryInv, DeliveryTypeOK, InsertInv, SnapshotInv,
                        inserts, table, channels
  <1>2. ASSUME NEW w \in Workers, NEW e \in Events, Emit(w, e) PROVE DeliveryInv'
    <2>1. /\ e \in stored /\ TrySend(active[w], e)
          /\ emitted' = [emitted EXCEPT ![w] = @ \cup {e}]
          /\ active' = [active EXCEPT ![w] = {s \in @ : CanSend(s)}]
          /\ UNCHANGED <<stored, insert, targets, life, asOf, promised>>
      BY <1>2 DEF Emit, inserts
    <2>2. /\ sent' \in [Subs -> SUBSET (Events \cup {Eose})]
          /\ backlog' \in [Subs -> 0..Capacity] /\ entries' \subseteq entries
          /\ \A s \in Subs : sent[s] \subseteq sent'[s] /\ sent'[s] \subseteq sent[s] \cup {e}
          /\ \A s \in Subs \cap active[w] : CanSend(s) => e \in sent'[s]
      BY <2>1, Sending DEF DeliveryInv
    <2>3. DeliveryTypeOK'
      BY <2>1, <2>2 DEF DeliveryInv, DeliveryTypeOK
    <2>4. InsertInv'
      BY <2>1, <2>2 DEF DeliveryInv, DeliveryTypeOK, InsertInv
    <2>5. SnapshotInv'
      BY <2>1, <2>2, ConstantsAssumption DEF DeliveryInv, DeliveryTypeOK, SnapshotInv
    <2> QED BY <2>3, <2>4, <2>5 DEF DeliveryInv
  <1>3. ASSUME NEW w \in Workers, FinishBatch(w) PROVE DeliveryInv'
    <2>1. /\ promised[w] \subseteq emitted[w] /\ TrySend(active[w], Eose)
          /\ active' = [active EXCEPT ![w] = {}]
          /\ UNCHANGED <<stored, insert, targets, life, asOf, promised, emitted>>
      BY <1>3 DEF FinishBatch, inserts
    <2>2. /\ sent' \in [Subs -> SUBSET (Events \cup {Eose})]
          /\ backlog' \in [Subs -> 0..Capacity] /\ entries' \subseteq entries
          /\ \A s \in Subs : sent[s] \subseteq sent'[s] /\ sent'[s] \subseteq sent[s] \cup {Eose}
          /\ \A s \in Subs : s \notin active[w] => sent'[s] = sent[s]
      BY <2>1, Sending DEF DeliveryInv
    <2>3. DeliveryTypeOK'
      BY <2>1, <2>2 DEF DeliveryInv, DeliveryTypeOK
    <2>4. InsertInv'
      BY <2>1, <2>2 DEF DeliveryInv, DeliveryTypeOK, InsertInv
    <2>5. SnapshotInv'
      BY <2>1, <2>2, ConstantsAssumption DEF DeliveryInv, DeliveryTypeOK, SnapshotInv
    <2> QED BY <2>3, <2>4, <2>5 DEF DeliveryInv
  <1>4. ASSUME NEW w \in Workers, FailBatch(w) PROVE DeliveryInv'
    BY <1>4 DEF FailBatch, DeliveryInv, DeliveryTypeOK, InsertInv, SnapshotInv,
                inserts, channels
  <1>5. ASSUME NEW w \in Workers, Report(w) \/ Exit(w) PROVE DeliveryInv'
    BY <1>5, StutterDelivery DEF Report, Exit
  <1> QED BY <1>1, <1>2, <1>3, <1>4, <1>5 DEF WorkerStep

-----------------------------------------------------------------------------
\* The delivery of events is correct step by step (broadcast_packet,
\* process_batch): DeliveryInv is inductive.
THEOREM Delivers == Spec => []DeliveryInv
  <1>1. ASSUME DeliveryInv, [Next]_vars PROVE DeliveryInv'
    <2>1. CASE UNCHANGED vars
      BY <1>1, <2>1, StutterDelivery DEF vars, pool
    <2>2. CASE Next
      BY <1>1, <2>2, InsertKeepsDelivery, SubscriberKeepsDelivery,
         DispatcherKeepsDelivery, WorkerKeepsDelivery DEF Next
    <2> QED BY <1>1, <2>1, <2>2
  <1> QED BY <1>1, InitDelivery, PTL DEF Spec

\* EOSE never reaches a subscriber before an event that was stored when it
\* called subscribe().
THEOREM EoseComesLast == Spec => []SnapshotBeforeEose
  <1>1. DeliveryInv => SnapshotBeforeEose
    BY DEF DeliveryInv, SnapshotInv, SnapshotBeforeEose
  <1> QED BY <1>1, Delivers, PTL

\* Between the snapshot and the live events there is no gap into which an
\* insert that notifies subscribers and runs beside subscribe() could fall
\* (subscribe and insert_event_json_owned).
THEOREM LeavesNoGap == Spec => []NoGap
  <1>1. DeliveryInv => NoGap
    BY DEF DeliveryInv, DeliveryTypeOK, InsertInv, SnapshotInv, NoGap
  <1> QED BY <1>1, Delivers, PTL

(***************************************************************************)
(* Sequences.                                                              *)
(***************************************************************************)
LEMMA ElementsAt ==
  ASSUME NEW S, NEW seq \in Seq(S)
  PROVE  /\ Elements(seq) \subseteq S
         /\ \A x : x \in Elements(seq) <=> \E i \in 1..Len(seq) : seq[i] = x
  <1>1. Len(seq) \in Nat /\ DOMAIN seq = 1..Len(seq) /\ \A i \in 1..Len(seq) : seq[i] \in S
    BY LenProperties, ElementOfSeq
  <1> QED BY <1>1 DEF Elements

LEMMA ElementsEmpty == Elements(<<>>) = {}
  BY DEF Elements

LEMMA ElementsAppend ==
  ASSUME NEW S, NEW seq \in Seq(S), NEW x \in S
  PROVE  Elements(Append(seq, x)) = Elements(seq) \cup {x}
  <1> DEFINE a == Append(seq, x)
  <1>1. /\ a \in Seq(S) /\ Len(a) = Len(seq) + 1 /\ Len(seq) \in Nat
        /\ \A i \in 1..Len(seq) : a[i] = seq[i]
        /\ a[Len(seq) + 1] = x
    BY AppendProperties, LenProperties
  <1>2. ASSUME NEW y
        PROVE  (\E i \in 1..Len(a) : a[i] = y) <=> y = x \/ \E i \in 1..Len(seq) : seq[i] = y
    BY <1>1
  <1>3. /\ \A y : y \in Elements(a) <=> \E i \in 1..Len(a) : a[i] = y
        /\ \A y : y \in Elements(seq) <=> \E i \in 1..Len(seq) : seq[i] = y
    BY <1>1, ElementsAt
  <1> HIDE DEF a
  <1>4. \A y : y \in Elements(a) <=> y = x \/ y \in Elements(seq)
    BY <1>2, <1>3
  <1>5. Elements(a) = Elements(seq) \cup {x}
    BY <1>4
  <1> QED BY <1>5 DEF a

LEMMA ElementsTail ==
  ASSUME NEW S, NEW seq \in Seq(S), seq # <<>>
  PROVE  Elements(seq) = {Head(seq)} \cup Elements(Tail(seq))
  <1> DEFINE t == Tail(seq)
  <1>1. /\ t \in Seq(S) /\ Len(t) = Len(seq) - 1 /\ Len(seq) \in Nat \ {0}
        /\ \A i \in 1..Len(t) : t[i] = seq[i + 1]
        /\ Head(seq) = seq[1]
    BY HeadTailProperties, LenProperties, EmptySeq
  <1>2. ASSUME NEW y
        PROVE  (\E i \in 1..Len(seq) : seq[i] = y)
                 <=> y = seq[1] \/ \E i \in 1..Len(t) : t[i] = y
    <2>1. ASSUME NEW i \in 1..Len(seq), seq[i] = y, i # 1 PROVE \E j \in 1..Len(t) : t[j] = y
      <3>1. i - 1 \in 1..Len(t) /\ t[i - 1] = seq[i]
        BY <1>1, <2>1
      <3> QED BY <3>1, <2>1
    <2>2. ASSUME NEW i \in 1..Len(t), t[i] = y PROVE \E j \in 1..Len(seq) : seq[j] = y
      <3>1. i + 1 \in 1..Len(seq)
        BY <1>1, <2>2
      <3> QED BY <1>1, <2>2, <3>1
    <2>3. 1 \in 1..Len(seq)
      BY <1>1
    <2> QED BY <2>1, <2>2, <2>3
  <1> HIDE DEF t
  <1>3. /\ \A y : y \in Elements(t) <=> \E i \in 1..Len(t) : t[i] = y
        /\ \A y : y \in Elements(seq) <=> \E i \in 1..Len(seq) : seq[i] = y
    BY <1>1, ElementsAt
  <1>4. \A y : y \in Elements(seq) <=> y = seq[1] \/ y \in Elements(t)
    BY <1>2, <1>3
  <1>5. Elements(seq) = {Head(seq)} \cup Elements(t)
    BY <1>1, <1>4
  <1> QED BY <1>5 DEF t

LEMMA Least ==
  ASSUME NEW T \in SUBSET Nat, T # {}
  PROVE  \E m \in T : \A k \in T : m <= k
  <1>1. PICK m \in T : \A k \in T : <<k, m>> \notin OpToRel(<, Nat)
    BY NatLessThanWellFounded, WFMin
  <1>2. ASSUME NEW k \in T, ~(m <= k) PROVE FALSE
    <2>1. k \in Nat /\ m \in Nat /\ k < m
      BY <1>2
    <2>2. <<k, m>> \in OpToRel(<, Nat)
      BY <2>1, Zenon DEF OpToRel
    <2> QED BY <1>1, <2>2
  <1> QED BY <1>2

LEMMA Piece ==
  ASSUME NEW S, NEW seq \in Seq(S), NEW lo \in Nat \ {0}, NEW hi \in 0..Len(seq)
  PROVE  /\ SubSeq(seq, lo, hi) \in Seq(S)
         /\ \A k \in 1..Len(seq) : lo <= k /\ k <= hi => seq[k] \in Elements(SubSeq(seq, lo, hi))
  <1> DEFINE piece == SubSeq(seq, lo, hi)
  <1>1. Len(seq) \in Nat /\ \A k \in 1..Len(seq) : seq[k] \in S
    BY LenProperties, ElementOfSeq
  <1>2. lo \in Int /\ hi \in Int /\ \A k \in lo..hi : seq[k] \in S
    BY <1>1
  <1>3. /\ piece \in Seq(S)
        /\ Len(piece) = IF lo <= hi THEN hi - lo + 1 ELSE 0
        /\ \A k \in 1..(hi - lo + 1) : piece[k] = seq[lo + k - 1]
    BY <1>2, SubSeqProperties
  <1> HIDE DEF piece
  <1>4. ASSUME NEW k \in 1..Len(seq), lo <= k, k <= hi
        PROVE  seq[k] \in Elements(piece)
    <2>1. /\ k - lo + 1 \in 1..(hi - lo + 1) /\ lo + (k - lo + 1) - 1 = k
          /\ k - lo + 1 \in 1..Len(piece)
      BY <1>1, <1>3, <1>4
    <2>2. piece[k - lo + 1] = seq[k]
      BY <1>3, <2>1
    <2> QED BY <1>3, <2>1, <2>2, ElementsAt
  <1> QED BY <1>3, <1>4 DEF piece

(***************************************************************************)
(* split_pending.                                                          *)
(***************************************************************************)
\* Every request gets into a batch, whatever the sizes come to: the pieces begin
\* where the one before ends, the first with the first request, and the last piece
\* ends with the last request.
LEMMA SplitKeeps ==
  ASSUME NEW requests \in Seq(Subs)
  PROVE  /\ Split(requests) \in Seq(Seq(Subs))
         /\ \A s \in Elements(requests) : \E b \in Elements(Split(requests)) : s \in Elements(b)
  <1> DEFINE n == IF Len(requests) < NWorkers THEN Len(requests) ELSE NWorkers
             at(i) == (i - 1) * (Len(requests) \div n)
                      + (IF i - 1 < Len(requests) % n THEN i - 1 ELSE Len(requests) % n)
             piece(i) == SubSeq(requests, at(i) + 1, at(i + 1))
             pieces == [i \in 1..n |-> piece(i)]
  <1>1. PICK len \in Nat : len = Len(requests)
    BY LenProperties
  <1>2. Split(requests) = pieces
    BY DEF Split
  <1>3. CASE len = 0
    <2>1. n = 0
      BY <1>1, <1>3, ConstantsAssumption
    <2>2. requests = <<>>
      BY <1>1, <1>3, EmptySeq
    <2> HIDE DEF n, piece
    <2>3. pieces = <<>>
      BY <2>1, 1..0 = {}
    <2> QED BY <1>2, <2>2, <2>3, EmptySeq, ElementsEmpty
  <1>4. CASE len # 0
    <2>1. n \in Nat \ {0} /\ n <= len
      BY <1>1, <1>4, ConstantsAssumption
    <2> HIDE DEF n
    <2>2. PICK q, r : q = len \div n /\ r = len % n
      OBVIOUS
    <2>3. q \in Nat /\ r \in Nat /\ r < n
      BY <2>1, <2>2, Z3
    <2>4. q * n + r = len
      BY <2>1, <2>2, <2>3, Z3
    <2>5. \A i : at(i) = (i - 1) * q + (IF i - 1 < r THEN i - 1 ELSE r)
      BY <1>1, <2>2
    <2> HIDE DEF at
    <2> DEFINE first == [i \in 1..(n + 1) |-> (i - 1) * q + (IF i - 1 < r THEN i - 1 ELSE r)]
    <2>6. /\ \A i \in 1..(n + 1) : first[i] = (i - 1) * q + (IF i - 1 < r THEN i - 1 ELSE r)
          /\ \A i \in 1..n : at(i) = first[i] /\ at(i + 1) = first[i + 1]
      <3>1. \A i \in 1..n : i \in 1..(n + 1) /\ i + 1 \in 1..(n + 1)
        BY <2>1
      <3>2. \A i \in 1..(n + 1) : at(i) = first[i]
        BY <2>5
      <3> HIDE DEF first
      <3>3. \A i \in 1..n : at(i) = first[i] /\ at(i + 1) = first[i + 1]
        BY <3>1, <3>2
      <3> QED BY <3>3 DEF first
    <2> HIDE DEF first
    <2>7. first[1] = 0 /\ first[n + 1] = len
      <3>1. 1 \in 1..(n + 1) /\ n + 1 \in 1..(n + 1)
        BY <2>1
      <3>2. ASSUME NEW i \in 1..(n + 1), i = 1 PROVE first[i] = 0
        BY <2>3, <2>6, <3>2
      <3>3. ASSUME NEW i \in 1..(n + 1), i = n + 1 PROVE first[i] = len
        <4>1. i - 1 = n /\ ~(n < r) /\ n * q = q * n
          BY <2>1, <2>3, <3>3
        <4> QED BY <2>4, <2>6, <4>1
      <3> QED BY <3>1, <3>2, <3>3
    <2>8. ASSUME NEW i \in 1..(n + 1) PROVE first[i] \in 0..len
      <3>1. PICK j \in 0..n : j = i - 1
        BY <2>1
      <3>2. PICK p, m : p = j * q /\ m = q * n
        OBVIOUS
      <3>3. p \in Nat /\ m \in Nat /\ p <= m
        BY <2>1, <2>3, <3>2
      <3>4. first[i] = p + (IF j < r THEN j ELSE r) /\ len = m + r
        BY <2>4, <2>6, <3>1, <3>2
      <3> QED BY <2>1, <2>3, <3>3, <3>4
    <2>9. ASSUME NEW i \in 1..n
          PROVE  /\ piece(i) \in Seq(Subs)
                 /\ \A k \in 1..len : first[i] < k /\ k <= first[i + 1] =>
                      requests[k] \in Elements(piece(i))
      <3>1. at(i) \in 0..len /\ at(i + 1) \in 0..len
        <4>1. i \in 1..(n + 1) /\ i + 1 \in 1..(n + 1)
          BY <2>1
        <4> QED BY <2>6, <2>8, <4>1
      <3>2. PICK lo, hi : lo = at(i) + 1 /\ hi = at(i + 1)
        OBVIOUS
      <3>3. lo \in Nat \ {0} /\ hi \in 0..Len(requests)
        BY <1>1, <3>1, <3>2
      <3>4. piece(i) = SubSeq(requests, lo, hi)
        BY <3>2
      <3> HIDE DEF piece
      <3>5. /\ piece(i) \in Seq(Subs)
            /\ \A k \in 1..len : lo <= k /\ k <= hi => requests[k] \in Elements(piece(i))
        BY <1>1, <3>3, <3>4, Piece
      <3>6. \A k \in 1..len : first[i] < k /\ k <= first[i + 1] => lo <= k /\ k <= hi
        BY <2>6, <3>1, <3>2
      <3> QED BY <3>5, <3>6
    <2> HIDE DEF piece
    <2>10. pieces \in Seq(Seq(Subs)) /\ Len(pieces) = n
      BY <2>1, <2>9
    <2>11. \A i \in 1..n : \A k \in 1..Len(requests) :
             first[i] < k /\ k <= first[i + 1] => requests[k] \in Elements(pieces[i])
      BY <1>1, <2>9
    <2> HIDE DEF pieces
    <2>12. ASSUME NEW s \in Elements(requests)
           PROVE  \E b \in Elements(pieces) : s \in Elements(b)
      <3>1. PICK k \in 1..len : requests[k] = s
        BY <1>1, <2>12, ElementsAt
      <3> DEFINE T == {i \in 1..n : k <= first[i + 1]}
      <3>2. n \in T /\ T \in SUBSET Nat
        BY <2>1, <2>7, <3>1
      <3>3. PICK i \in T : \A j \in T : i <= j
        BY <3>2, Least
      <3>4. first[i] < k
        <4>1. CASE i = 1
          BY <2>7, <3>1, <4>1
        <4>2. CASE i # 1
          <5>1. /\ i - 1 \in 1..n /\ ~(i <= i - 1) /\ (i - 1) + 1 = i
                /\ i \in 1..(n + 1)
            BY <2>1, <4>2
          <5>2. ~(k <= first[i])
            BY <3>3, <5>1
          <5> QED BY <2>8, <5>1, <5>2
        <4> QED BY <4>1, <4>2
      <3>5. s \in Elements(pieces[i])
        BY <1>1, <2>11, <3>1, <3>3, <3>4
      <3>6. pieces[i] \in Elements(pieces)
        BY <2>10, ElementsAt
      <3> QED BY <3>5, <3>6
    <2> QED BY <1>2, <2>10, <2>12
  <1> QED BY <1>3, <1>4

(***************************************************************************)
(* dispatch_ready_batches and dispatch_available.                          *)
(***************************************************************************)
LEMMA Prefix ==
  ASSUME NEW S, NEW seq \in Seq(S), NEW m \in 0..Len(seq)
  PROVE  /\ SubSeq(seq, 1, m) \in Seq(S) /\ Len(SubSeq(seq, 1, m)) = m
         /\ \A i \in 1..m : SubSeq(seq, 1, m)[i] = seq[i]
  <1>1. Len(seq) \in Nat /\ \A k \in 1..Len(seq) : seq[k] \in S
    BY LenProperties, ElementOfSeq
  <1>2. 1 \in Int /\ m \in Int /\ \A k \in 1..m : seq[k] \in S
    BY <1>1
  <1>3. /\ SubSeq(seq, 1, m) \in Seq(S)
        /\ Len(SubSeq(seq, 1, m)) = IF 1 <= m THEN m - 1 + 1 ELSE 0
        /\ \A k \in 1..(m - 1 + 1) : SubSeq(seq, 1, m)[k] = seq[1 + k - 1]
    BY <1>2, SubSeqProperties
  <1>4. m - 1 + 1 = m /\ \A k \in 1..m : 1 + k - 1 = k
    BY <1>1
  <1> QED BY <1>1, <1>3, <1>4

\* As many batches as there are idle workers are handed out, each worker taken
\* from the list gets one, and either every batch has gone or every worker.
LEMMA HandedKeeps ==
  ASSUME NEW batches \in Seq(Seq(Subs)), NEW workers \in Seq(Workers), Distinct(workers)
  PROVE  /\ Handed(batches, workers).left \in Seq(Seq(Subs))
         /\ Handed(batches, workers).idle \in Seq(Workers)
         /\ Distinct(Handed(batches, workers).idle)
         /\ Elements(Handed(batches, workers).idle) \subseteq Elements(workers)
         /\ DOMAIN Handed(batches, workers).given
              = Elements(workers) \ Elements(Handed(batches, workers).idle)
         /\ \A w \in DOMAIN Handed(batches, workers).given :
              Handed(batches, workers).given[w] \in Seq(Subs)
         /\ \A b \in Elements(batches) :
              \/ b \in Elements(Handed(batches, workers).left)
              \/ \E w \in DOMAIN Handed(batches, workers).given :
                   Handed(batches, workers).given[w] = b
         /\ \/ Handed(batches, workers).left = <<>>
            \/ Handed(batches, workers).idle = <<>>
  <1> DEFINE n == IF Len(batches) < Len(workers) THEN Len(batches) ELSE Len(workers)
             taken == {workers[Len(workers) + 1 - i] : i \in 1..n}
             given == [w \in taken |->
                        LET i == CHOOSE i \in 1..n : workers[Len(workers) + 1 - i] = w
                        IN batches[i]]
             left == SubSeq(batches, n + 1, Len(batches))
             rest == SubSeq(workers, 1, Len(workers) - n)
  <1>0. /\ Handed(batches, workers).left = left /\ Handed(batches, workers).idle = rest
        /\ Handed(batches, workers).given = given
    BY DEF Handed
  <1>1. PICK lb \in Nat, lw \in Nat : lb = Len(batches) /\ lw = Len(workers)
    BY LenProperties
  <1>2. n \in Nat /\ n <= lb /\ n <= lw /\ (n = lb \/ n = lw)
    BY <1>1
  <1>3. /\ \A i, j \in 1..lw : workers[i] = workers[j] => i = j
        /\ \A i \in 1..lw : workers[i] \in Workers
        /\ \A i \in 1..lb : batches[i] \in Seq(Subs)
    BY <1>1, LenProperties, ElementOfSeq, SMTT(30) DEF Distinct
  <1>4. ASSUME NEW w \in taken
        PROVE  \E i \in 1..n : w = workers[lw + 1 - i] /\ given[w] = batches[i]
    <2> DEFINE i == CHOOSE i \in 1..n : workers[Len(workers) + 1 - i] = w
    <2>1. \E k \in 1..n : workers[Len(workers) + 1 - k] = w
      BY <1>4
    <2>2. i \in 1..n /\ workers[Len(workers) + 1 - i] = w
      BY <2>1
    <2>3. given[w] = batches[i]
      BY <1>4
    <2> QED BY <1>1, <2>2, <2>3
  <1>5. DOMAIN given = taken
    OBVIOUS
  <1>6. taken = {workers[lw + 1 - i] : i \in 1..n}
    BY <1>1
  <1>7. left = SubSeq(batches, n + 1, lb) /\ rest = SubSeq(workers, 1, lw - n)
    BY <1>1
  <1> HIDE DEF n, taken, given, left, rest
  <1>8. /\ rest \in Seq(Workers) /\ Len(rest) = lw - n
        /\ \A i \in 1..(lw - n) : rest[i] = workers[i]
    <2>1. lw - n \in 0..Len(workers)
      BY <1>1, <1>2
    <2> QED BY <1>7, <2>1, Prefix
  <1>9. Distinct(rest)
    <2>1. DOMAIN rest = 1..(lw - n)
      BY <1>8, LenProperties
    <2> QED BY <1>2, <1>3, <1>8, <2>1, SMTT(30) DEF Distinct
  <1>10. /\ \A w : w \in Elements(rest) <=> \E i \in 1..(lw - n) : workers[i] = w
         /\ \A w : w \in Elements(workers) <=> \E i \in 1..lw : workers[i] = w
    <2>1. \A w : w \in Elements(rest) <=> \E i \in 1..Len(rest) : rest[i] = w
      BY <1>8, ElementsAt
    <2>2. \A w : w \in Elements(workers) <=> \E i \in 1..Len(workers) : workers[i] = w
      BY ElementsAt
    <2> QED BY <1>1, <1>8, <2>1, <2>2
  <1>11. ASSUME NEW w PROVE w \in taken <=> w \in Elements(workers) /\ w \notin Elements(rest)
    <2>1. ASSUME NEW i \in 1..n, w = workers[lw + 1 - i]
          PROVE  w \in Elements(workers) /\ w \notin Elements(rest)
      <3>1. lw + 1 - i \in 1..lw /\ lw + 1 - i > lw - n
        BY <1>2
      <3>2. \A j \in 1..(lw - n) : workers[j] # w
        BY <1>2, <1>3, <2>1, <3>1
      <3> QED BY <1>10, <2>1, <3>1, <3>2
    <2>2. ASSUME NEW i \in 1..lw, w = workers[i], w \notin Elements(rest)
          PROVE  w \in taken
      <3>1. i \notin 1..(lw - n)
        BY <1>10, <2>2
      <3>2. lw + 1 - i \in 1..n /\ lw + 1 - (lw + 1 - i) = i
        BY <1>2, <3>1
      <3> QED BY <1>6, <2>2, <3>2
    <2> QED BY <1>6, <1>10, <2>1, <2>2
  <1>12. /\ left \in Seq(Seq(Subs))
         /\ \A k \in 1..lb : n + 1 <= k => batches[k] \in Elements(left)
    <2>1. n + 1 \in Nat \ {0} /\ lb \in 0..Len(batches)
      BY <1>1, <1>2
    <2>2. /\ left \in Seq(Seq(Subs))
          /\ \A k \in 1..Len(batches) : n + 1 <= k /\ k <= lb => batches[k] \in Elements(left)
      BY <1>7, <2>1, Piece
    <2> QED BY <1>1, <2>2
  <1>13. ASSUME NEW b \in Elements(batches)
         PROVE  b \in Elements(left) \/ \E w \in taken : given[w] = b
    <2>1. PICK k \in 1..lb : batches[k] = b
      BY <1>1, <1>13, ElementsAt
    <2>2. CASE n + 1 <= k
      BY <1>12, <2>1, <2>2
    <2>3. CASE ~(n + 1 <= k)
      <3>1. k \in 1..n /\ workers[lw + 1 - k] \in taken
        BY <1>2, <1>6, <2>3
      <3>2. PICK i \in 1..n : /\ workers[lw + 1 - k] = workers[lw + 1 - i]
                              /\ given[workers[lw + 1 - k]] = batches[i]
        BY <1>4, <3>1
      <3>3. lw + 1 - k \in 1..lw /\ lw + 1 - i \in 1..lw
        BY <1>2, <3>1
      <3>4. lw + 1 - k = lw + 1 - i
        BY <1>3, <3>2, <3>3
      <3>5. k = i
        BY <3>1, <3>4
      <3> QED BY <2>1, <3>1, <3>2, <3>5
    <2> QED BY <2>2, <2>3
  <1>14. ASSUME NEW w \in taken PROVE given[w] \in Seq(Subs)
    BY <1>2, <1>3, <1>4
  <1>15. left = <<>> \/ rest = <<>>
    <2>1. CASE n = lb
      <3>1. lb < n + 1 /\ lb \in Int /\ n + 1 \in Int
        BY <1>2, <2>1
      <3> QED BY <1>7, <3>1, SubSeqEmpty
    <2>2. CASE n = lw
      BY <1>8, <2>2, EmptySeq
    <2> QED BY <1>2, <2>1, <2>2
  <1>16. taken = Elements(workers) \ Elements(rest) /\ Elements(rest) \subseteq Elements(workers)
    <2>1. \A w : w \in Elements(rest) => w \in Elements(workers)
      BY <1>2, <1>10
    <2> QED BY <1>11, <2>1
  <1> QED BY <1>0, <1>5, <1>8, <1>9, <1>12, <1>13, <1>14, <1>15, <1>16

\* What the dispatcher does after a message: workers leave the idle list with a
\* batch, requests leave the queues with a worker, and only one of the two lists
\* is left over.
LEMMA DispatchKeeps ==
  ASSUME NEW requests \in Seq(Subs), NEW workers \in Seq(Workers), Distinct(workers),
         ready \in Seq(Seq(Subs)), batch \in [Workers -> Seq(Subs)],
         DispatchAvailable(requests, workers)
  PROVE  /\ pending' \in Seq(Subs) /\ ready' \in Seq(Seq(Subs)) /\ idle' \in Seq(Workers)
         /\ Distinct(idle') /\ Elements(idle') \subseteq Elements(workers)
         /\ idle' # <<>> => pending' = <<>> /\ ready' = <<>>
         /\ worker' = [w \in Workers |->
                         IF w \in Elements(workers) \ Elements(idle') THEN "given" ELSE worker[w]]
         /\ batch' \in [Workers -> Seq(Subs)]
         /\ \A w \in Workers \ (Elements(workers) \ Elements(idle')) : batch'[w] = batch[w]
         /\ \A s : s \in Elements(requests) \/ (\E b \in Elements(ready) : s \in Elements(b)) =>
              \/ s \in Elements(pending')
              \/ \E b \in Elements(ready') : s \in Elements(b)
              \/ \E w \in Elements(workers) \ Elements(idle') : s \in Elements(batch'[w])
  <1> DEFINE old == Handed(ready, workers)
             new == Handed(Split(requests), old.idle)
  <1>1. /\ old.left \in Seq(Seq(Subs)) /\ old.idle \in Seq(Workers) /\ Distinct(old.idle)
        /\ Elements(old.idle) \subseteq Elements(workers)
        /\ DOMAIN old.given = Elements(workers) \ Elements(old.idle)
        /\ \A w \in DOMAIN old.given : old.given[w] \in Seq(Subs)
        /\ \A b \in Elements(ready) : \/ b \in Elements(old.left)
                                      \/ \E w \in DOMAIN old.given : old.given[w] = b
        /\ old.left = <<>> \/ old.idle = <<>>
    BY HandedKeeps
  <1>2. /\ Split(requests) \in Seq(Seq(Subs))
        /\ \A s \in Elements(requests) : \E b \in Elements(Split(requests)) : s \in Elements(b)
    BY SplitKeeps
  <1>3. /\ new.left \in Seq(Seq(Subs)) /\ new.idle \in Seq(Workers) /\ Distinct(new.idle)
        /\ Elements(new.idle) \subseteq Elements(old.idle)
        /\ DOMAIN new.given = Elements(old.idle) \ Elements(new.idle)
        /\ \A w \in DOMAIN new.given : new.given[w] \in Seq(Subs)
        /\ \A b \in Elements(Split(requests)) : \/ b \in Elements(new.left)
                                                \/ \E w \in DOMAIN new.given : new.given[w] = b
        /\ new.left = <<>> \/ new.idle = <<>>
    BY <1>1, <1>2, HandedKeeps, SMTT(30)
  <1>4. Elements(workers) \subseteq Workers
    BY ElementsAt
  <1>5. CASE /\ old.idle = <<>> \/ old.left # <<>>
             /\ Give(old.given)
             /\ pending' = requests /\ ready' = old.left /\ idle' = old.idle
    <2> HIDE DEF old, new
    <2>1. idle' = <<>>
      BY <1>1, <1>5
    <2>2. /\ worker' = [w \in Workers |-> IF w \in DOMAIN old.given THEN "given" ELSE worker[w]]
          /\ batch' = [w \in Workers |-> IF w \in DOMAIN old.given THEN old.given[w] ELSE batch[w]]
      BY <1>5 DEF Give
    <2>3. DOMAIN old.given = Elements(workers) \ Elements(idle')
      BY <1>1, <1>5
    <2>4. \A b \in Elements(ready) : \/ b \in Elements(ready')
                                     \/ \E w \in Elements(workers) \ Elements(idle') : batch'[w] = b
      BY <1>1, <1>4, <1>5, <2>2, <2>3
    <2>5. batch' \in [Workers -> Seq(Subs)]
      BY <1>1, <2>2
    <2> QED BY <1>1, <1>5, <2>1, <2>2, <2>3, <2>4, <2>5
  <1>6. CASE /\ old.idle # <<>> /\ old.left = <<>>
             /\ Give([w \in DOMAIN old.given \cup DOMAIN new.given |->
                        IF w \in DOMAIN old.given THEN old.given[w] ELSE new.given[w]])
             /\ pending' = <<>> /\ ready' = new.left /\ idle' = new.idle
    <2> DEFINE taken == DOMAIN old.given \cup DOMAIN new.given
               given == [w \in taken |->
                           IF w \in DOMAIN old.given THEN old.given[w] ELSE new.given[w]]
    <2>0. /\ DOMAIN given = taken
          /\ \A w \in DOMAIN old.given : w \in taken /\ given[w] = old.given[w]
          /\ \A w \in DOMAIN new.given :
               w \in taken /\ (w \notin DOMAIN old.given => given[w] = new.given[w])
          /\ Give(given)
      BY <1>6
    <2> HIDE DEF old, new
    <2>1. taken = Elements(workers) \ Elements(idle') /\ DOMAIN old.given \cap DOMAIN new.given = {}
      BY <1>1, <1>3, <1>6
    <2> HIDE DEF taken, given
    <2>2. /\ worker' = [w \in Workers |-> IF w \in taken THEN "given" ELSE worker[w]]
          /\ batch' = [w \in Workers |-> IF w \in taken THEN given[w] ELSE batch[w]]
      BY <2>0 DEF Give
    <2>3. \A w \in taken : given[w] \in Seq(Subs) /\ w \in Workers
      BY <1>1, <1>3, <1>4, <2>0, <2>1 DEF taken
    <2>4. batch' \in [Workers -> Seq(Subs)]
      BY <2>2, <2>3
    <2>5. \A b \in Elements(ready) : \E w \in taken : batch'[w] = b
      BY <1>1, <1>6, <2>0, <2>2, <2>3, ElementsEmpty
    <2>6. \A b \in Elements(Split(requests)) :
             b \in Elements(ready') \/ \E w \in taken : batch'[w] = b
      BY <1>3, <1>6, <2>0, <2>1, <2>2, <2>3
    <2>7. idle' # <<>> => pending' = <<>> /\ ready' = <<>>
      BY <1>3, <1>6
    <2>8. pending' \in Seq(Subs) /\ Elements(idle') \subseteq Elements(workers)
      BY <1>1, <1>3, <1>6, EmptySeq
    <2>9. ASSUME NEW s, s \in Elements(requests) \/ \E b \in Elements(ready) : s \in Elements(b)
          PROVE  \/ \E b \in Elements(ready') : s \in Elements(b)
                 \/ \E w \in taken : s \in Elements(batch'[w])
      <3>1. CASE s \in Elements(requests)
        BY <1>2, <2>6, <3>1
      <3>2. CASE \E b \in Elements(ready) : s \in Elements(b)
        BY <2>5, <3>2
      <3> QED BY <2>9, <3>1, <3>2
    <2>10. \A w \in Workers \ taken : batch'[w] = batch[w]
      BY <2>2
    <2>11. ready' \in Seq(Seq(Subs)) /\ idle' \in Seq(Workers) /\ Distinct(idle')
      BY <1>3, <1>6
    <2>12. worker' = [w \in Workers |->
                       IF w \in Elements(workers) \ Elements(idle') THEN "given" ELSE worker[w]]
      BY <2>1, <2>2
    <2> QED BY <2>1, <2>4, <2>7, <2>8, <2>9, <2>10, <2>11, <2>12
  <1> QED BY <1>5, <1>6 DEF DispatchAvailable

(***************************************************************************)
(* Messages.                                                               *)
(***************************************************************************)
LEMMA Messages ==
  /\ ShutdownMsg \in Message /\ ShutdownMsg.type = "shutdown"
  /\ \A s \in Subs : /\ EnqueueMsg(s) \in Message /\ EnqueueMsg(s).type = "enqueue"
                     /\ EnqueueMsg(s).sub = s
  /\ \A w \in Workers : /\ CompletedMsg(w) \in Message /\ CompletedMsg(w).type = "completed"
                        /\ CompletedMsg(w).worker = w
  /\ \A m \in Message :
       \/ m = ShutdownMsg
       \/ \E s \in Subs : m = EnqueueMsg(s)
       \/ \E w \in Workers : m = CompletedMsg(w)
  BY DEF Message, ShutdownMsg, EnqueueMsg, CompletedMsg

LEMMA Sent ==
  ASSUME NEW S, NEW seq \in Seq(S), NEW m \in S
  PROVE  /\ Append(seq, m) \in Seq(S) /\ Len(seq) \in Nat
         /\ DOMAIN seq = 1..Len(seq) /\ DOMAIN Append(seq, m) = 1..(Len(seq) + 1)
         /\ \A i \in 1..Len(seq) : Append(seq, m)[i] = seq[i] /\ seq[i] \in Elements(seq)
         /\ Append(seq, m)[Len(seq) + 1] = m
         /\ Elements(Append(seq, m)) = Elements(seq) \cup {m}
  BY AppendProperties, LenProperties, ElementsAppend DEF Elements

LEMMA Taken ==
  ASSUME NEW S, NEW seq \in Seq(S), seq # <<>>
  PROVE  /\ Tail(seq) \in Seq(S) /\ Head(seq) \in S /\ Head(seq) = seq[1] /\ Len(seq) \in Nat \ {0}
         /\ DOMAIN seq = 1..Len(seq) /\ DOMAIN Tail(seq) = 1..(Len(seq) - 1)
         /\ \A i \in 1..(Len(seq) - 1) : Tail(seq)[i] = seq[i + 1]
         /\ Elements(seq) = {Head(seq)} \cup Elements(Tail(seq))
  <1>1. Tail(seq) \in Seq(S) /\ Head(seq) \in S /\ Len(Tail(seq)) = Len(seq) - 1
        /\ \A i \in 1..Len(Tail(seq)) : Tail(seq)[i] = seq[i + 1]
    BY HeadTailProperties
  <1>2. Len(seq) \in Nat \ {0} /\ DOMAIN seq = 1..Len(seq) /\ DOMAIN Tail(seq) = 1..Len(Tail(seq))
    BY <1>1, LenProperties, EmptySeq
  <1>3. Head(seq) = seq[1]
    OBVIOUS
  <1> QED BY <1>1, <1>2, <1>3, ElementsTail

(***************************************************************************)
(* QueueInv is kept by what leaves the queues alone, and by the two calls  *)
(* that put a request or the shutdown into the dispatcher's channel.       *)
(***************************************************************************)
LEMMA SameQueues ==
  ASSUME QueueInv, DeliveryTypeOK',
         UNCHANGED <<db, inbox, queues, worker, batch, active>>,
         entries' \subseteq entries,
         \A s \in Subs : sent[s] \subseteq sent'[s],
         \A s \in Subs : life'[s] = "registered" => life[s] = "registered",
         \A s \in entries' : life'[s] = life[s]
  PROVE  QueueInv'
  <1>1. TypeOK'
    BY DEF QueueInv, TypeOK, queues
  <1>2. PoolInv'
    BY DEF QueueInv, PoolInv, Distinct, Elsewhere, queues
  <1>3. ClosingInv'
    BY DEF QueueInv, ClosingInv, queues
  <1>4. OwedInv'
    <2>1. \A s : Owed(s)' <=> Owed(s)
      BY DEF Owed, Queued, queues
    <2>2. entries' \subseteq Subs
      BY DEF QueueInv, TypeOK, DeliveryTypeOK
    <2> QED BY <2>1, <2>2 DEF QueueInv, OwedInv
  <1> QED BY <1>1, <1>2, <1>3, <1>4 DEF QueueInv

LEMMA InsertKeepsQueues ==
  ASSUME QueueInv, DeliveryTypeOK', InsertStep
  PROVE  QueueInv'
  <1>1. ASSUME NEW e \in Events, \/ AppendPacket(e) \/ AppendFails(e) \/ Collect(e)
                                \/ FinishInsert(e) \/ FinishSilently(e)
        PROVE  QueueInv'
    BY <1>1, SameQueues
       DEF AppendPacket, AppendFails, Collect, FinishInsert, FinishSilently,
           table, channels, pool
  <1>2. ASSUME NEW e \in Events, NEW r \in Subs, Broadcast(e, r) PROVE QueueInv'
    <2>1. /\ TrySend({r}, e)
          /\ UNCHANGED <<db, inbox, queues, worker, batch, active, life>>
      BY <1>2 DEF Broadcast, pool
    <2>2. entries' \subseteq entries /\ \A s \in Subs : sent[s] \subseteq sent'[s]
      BY <2>1, Sending DEF QueueInv, TypeOK
    <2> QED BY <2>1, <2>2, SameQueues
  <1> QED BY <1>1, <1>2 DEF InsertStep

LEMMA SubscriberKeepsQueues ==
  ASSUME QueueInv, DeliveryTypeOK', SubscriberStep
  PROVE  QueueInv'
  <1>1. ASSUME NEW r \in Subs, Register(r) PROVE QueueInv'
    <2>1. /\ db = "open" /\ life[r] = "new" /\ entries' = entries \cup {r}
          /\ life' = [life EXCEPT ![r] = "registered"]
          /\ UNCHANGED <<db, sent, inbox, queues, worker, batch, active>>
      BY <1>1 DEF Register, channels, pool
    <2>2. TypeOK'
      BY <2>1 DEF QueueInv, TypeOK, queues
    <2>3. PoolInv'
      BY <2>1 DEF QueueInv, PoolInv, Distinct, Elsewhere, queues
    <2>4. ClosingInv'
      BY <2>1 DEF QueueInv, ClosingInv, queues
    <2>5. OwedInv'
      <3>1. \A s : Owed(s)' <=> Owed(s)
        BY <2>1 DEF Owed, Queued, queues
      <3> QED BY <2>1, <3>1 DEF QueueInv, OwedInv, TypeOK, DeliveryTypeOK
    <2> QED BY <2>2, <2>3, <2>4, <2>5 DEF QueueInv
  <1>2. ASSUME NEW r \in Subs, Enqueue(r) PROVE QueueInv'
    <2>1. /\ life[r] = "registered" /\ life' = [life EXCEPT ![r] = "live"]
          /\ inbox' = Append(inbox, EnqueueMsg(r))
          /\ UNCHANGED <<db, entries, sent, queues, worker, batch, active>>
      BY <1>2 DEF Enqueue, channels, pool
    <2>2. /\ inbox \in Seq(Message) /\ life \in [Subs -> {"new", "registered", "live", "dropped"}]
          /\ db \in {"open", "closed"}
      BY DEF QueueInv, TypeOK, DeliveryTypeOK
    <2>3. EnqueueMsg(r) \in Message /\ EnqueueMsg(r).type = "enqueue" /\ EnqueueMsg(r) # ShutdownMsg
      BY Messages
    <2>4. \A w \in Workers : CompletedMsg(w) # EnqueueMsg(r)
      BY <2>3, Messages
    <2>5. /\ inbox' \in Seq(Message) /\ Len(inbox) \in Nat
          /\ DOMAIN inbox = 1..Len(inbox) /\ DOMAIN inbox' = 1..(Len(inbox) + 1)
          /\ \A i \in 1..Len(inbox) : inbox'[i] = inbox[i] /\ inbox[i] \in Elements(inbox)
          /\ inbox'[Len(inbox) + 1] = EnqueueMsg(r)
          /\ Elements(inbox') = Elements(inbox) \cup {EnqueueMsg(r)}
      BY <2>1, <2>2, <2>3, Sent
    <2>6. TypeOK'
      BY <2>1, <2>5 DEF QueueInv, TypeOK, queues
    <2>7. db = "open" /\ dispatcher = "running" /\ ShutdownMsg \notin Elements(inbox)
      BY <2>1, <2>2 DEF QueueInv, ClosingInv
    <2>8. PoolInv'
      BY <2>1, <2>3, <2>4, <2>5 DEF QueueInv, PoolInv, Distinct, Elsewhere, queues
    <2>9. ClosingInv'
      BY <2>1, <2>3, <2>5, <2>7 DEF QueueInv, ClosingInv, queues
    <2>10. OwedInv'
      <3>1. \A s : Owed(s) => Owed(s)'
        BY <2>1, <2>5 DEF Owed, Queued, queues
      <3>2. Owed(r)'
        BY <2>5 DEF Owed, Queued
      <3> QED BY <2>1, <2>2, <3>1, <3>2 DEF QueueInv, OwedInv, TypeOK, DeliveryTypeOK
    <2> QED BY <2>6, <2>8, <2>9, <2>10 DEF QueueInv
  <1>3. ASSUME NEW r \in Subs, Receive(r) PROVE QueueInv'
    BY <1>3, SameQueues DEF Receive, table, pool
  <1>4. ASSUME NEW r \in Subs, Drop(r) PROVE QueueInv'
    <2>1. /\ entries' = entries \ {r} /\ life' = [life EXCEPT ![r] = "dropped"]
          /\ UNCHANGED <<db, sent, inbox, queues, worker, batch, active>>
      BY <1>4 DEF Drop, pool
    <2>2. life \in [Subs -> {"new", "registered", "live", "dropped"}] /\ entries \subseteq Subs
      BY DEF QueueInv, TypeOK, DeliveryTypeOK
    <2>3. /\ \A s \in Subs : life'[s] = "registered" => life[s] = "registered"
          /\ \A s \in entries' : life'[s] = life[s]
      BY <2>1, <2>2
    <2> QED BY <2>1, <2>3, SameQueues
  <1> QED BY <1>1, <1>2, <1>3, <1>4 DEF SubscriberStep

LEMMA CloseKeepsQueues ==
  ASSUME QueueInv, DeliveryTypeOK', Close
  PROVE  QueueInv'
  <1>1. /\ db = "open" /\ db' = "closed" /\ inbox' = Append(inbox, ShutdownMsg)
        /\ \A s \in Subs : life[s] # "registered"
        /\ UNCHANGED <<entries, life, sent, queues, worker, batch, active>>
    BY DEF Close, table, channels, pool
  <1>2. inbox \in Seq(Message)
    BY DEF QueueInv, TypeOK
  <1>3. /\ ShutdownMsg \in Message /\ ShutdownMsg.type = "shutdown"
        /\ \A w \in Workers : CompletedMsg(w) # ShutdownMsg
        /\ \A s \in Subs : EnqueueMsg(s) # ShutdownMsg
    BY Messages
  <1>4. /\ inbox' \in Seq(Message) /\ Len(inbox) \in Nat
        /\ DOMAIN inbox = 1..Len(inbox) /\ DOMAIN inbox' = 1..(Len(inbox) + 1)
        /\ \A i \in 1..Len(inbox) : inbox'[i] = inbox[i] /\ inbox[i] \in Elements(inbox)
        /\ inbox'[Len(inbox) + 1] = ShutdownMsg
        /\ Elements(inbox') = Elements(inbox) \cup {ShutdownMsg}
    BY <1>1, <1>2, <1>3, Sent
  <1>5. TypeOK'
    BY <1>1, <1>4 DEF QueueInv, TypeOK, queues
  <1>6. PoolInv'
    BY <1>1, <1>3, <1>4 DEF QueueInv, PoolInv, Distinct, Elsewhere, queues
  <1>7. ClosingInv'
    <2>1. dispatcher = "running" /\ ShutdownMsg \notin Elements(inbox)
      BY <1>1 DEF QueueInv, ClosingInv
    <2>2. \A i, j \in DOMAIN inbox' : inbox'[i] = ShutdownMsg => j <= i
      BY <1>4, <2>1
    <2> QED BY <1>1, <2>1, <2>2 DEF QueueInv, ClosingInv, queues
  <1>8. OwedInv'
    <2>1. \A s : Owed(s) => Owed(s)'
      BY <1>1, <1>4 DEF Owed, Queued, queues
    <2> QED BY <1>1, <2>1 DEF QueueInv, OwedInv
  <1> QED BY <1>5, <1>6, <1>7, <1>8 DEF QueueInv

(***************************************************************************)
(* run_dispatcher.                                                         *)
(***************************************************************************)
\* What handle_dispatcher_message does after an enqueue or a completion: the
\* message has left the channel, its request or its worker is among those passed
\* to dispatch_available.
LEMMA DispatchKeepsQueues ==
  ASSUME QueueInv, DeliveryTypeOK', NEW requests \in Seq(Subs), NEW workers \in Seq(Workers),
         Distinct(workers), DispatchAvailable(requests, workers),
         dispatcher = "running", inbox # <<>>, inbox' = Tail(inbox),
         UNCHANGED <<db, entries, life, sent, dispatcher, active>>,
         \A w \in Elements(workers) : ~Elsewhere(w) /\ CompletedMsg(w) \notin Elements(inbox'),
         \A w \in Workers : \/ w \in Elements(workers) \/ CompletedMsg(w) \in Elements(inbox')
                            \/ Elsewhere(w),
         \A s : s \in Elements(pending) \/ Head(inbox) = EnqueueMsg(s) => s \in Elements(requests)
  PROVE  QueueInv'
  <1> DEFINE taken == Elements(workers) \ Elements(idle')
  <1>1. /\ inbox \in Seq(Message) /\ ready \in Seq(Seq(Subs)) /\ batch \in [Workers -> Seq(Subs)]
        /\ worker \in [Workers -> {"waiting", "given", "querying", "reporting", "gone"}]
    BY DEF QueueInv, TypeOK
  <1>2. /\ inbox' \in Seq(Message) /\ Head(inbox) = inbox[1] /\ Len(inbox) \in Nat \ {0}
        /\ DOMAIN inbox = 1..Len(inbox) /\ DOMAIN inbox' = 1..(Len(inbox) - 1)
        /\ \A i \in 1..(Len(inbox) - 1) : inbox'[i] = inbox[i + 1]
        /\ Elements(inbox) = {Head(inbox)} \cup Elements(inbox')
    BY <1>1, Taken
  <1>3. /\ pending' \in Seq(Subs) /\ ready' \in Seq(Seq(Subs)) /\ idle' \in Seq(Workers)
        /\ Distinct(idle') /\ Elements(idle') \subseteq Elements(workers)
        /\ idle' # <<>> => pending' = <<>> /\ ready' = <<>>
        /\ worker' = [w \in Workers |-> IF w \in taken THEN "given" ELSE worker[w]]
        /\ batch' \in [Workers -> Seq(Subs)]
        /\ \A w \in Workers \ taken : batch'[w] = batch[w]
        /\ \A s : s \in Elements(requests) \/ (\E b \in Elements(ready) : s \in Elements(b)) =>
             \/ s \in Elements(pending')
             \/ \E b \in Elements(ready') : s \in Elements(b)
             \/ \E w \in taken : s \in Elements(batch'[w])
    BY <1>1, DispatchKeeps
  <1>4. taken \subseteq Elements(workers) /\ Elements(workers) \subseteq Workers
    BY ElementsAt
  <1>5. \A w \in Workers : w \in Elements(workers) => w \in taken \/ w \in Elements(idle')
    OBVIOUS
  <1>6. taken \cap Elements(idle') = {}
    OBVIOUS
  <1> HIDE DEF taken
  <1>7. TypeOK'
    <2>1. worker' \in [Workers -> {"waiting", "given", "querying", "reporting", "gone"}]
      BY <1>1, <1>3
    <2>2. db' \in {"open", "closed"} /\ dispatcher' \in {"running", "joining", "gone"}
      BY DEF QueueInv, TypeOK
    <2> QED BY <1>2, <1>3, <2>1, <2>2 DEF TypeOK
  <1>8. \A w \in Workers : (w \in taken => worker'[w] = "given")
                           /\ (w \notin taken => worker'[w] = worker[w] /\ batch'[w] = batch[w])
    BY <1>3
  <1>9. PoolInv'
    <2>1. \A i, j \in DOMAIN inbox' : inbox'[i].type = "completed" /\ inbox'[i] = inbox'[j] => i = j
      <3>1. ASSUME NEW i \in DOMAIN inbox', NEW j \in DOMAIN inbox',
                   inbox'[i].type = "completed", inbox'[i] = inbox'[j]
            PROVE  i = j
        <4>1. /\ i + 1 \in DOMAIN inbox /\ j + 1 \in DOMAIN inbox
              /\ inbox'[i] = inbox[i + 1] /\ inbox'[j] = inbox[j + 1]
          BY <1>2, <3>1
        <4>2. i + 1 = j + 1
          BY <3>1, <4>1 DEF QueueInv, PoolInv
        <4> QED BY <1>2, <3>1, <4>2
      <3> QED BY <3>1
    <2>2. ASSUME NEW w \in Workers
          PROVE  /\ w \in Elements(idle') \/ CompletedMsg(w) \in Elements(inbox') \/ Elsewhere(w)'
                 /\ w \in Elements(idle') => ~Elsewhere(w)' /\ CompletedMsg(w) \notin Elements(inbox')
                 /\ CompletedMsg(w) \in Elements(inbox') => ~Elsewhere(w)'
                 /\ worker'[w] = "gone" => dispatcher' # "running"
                 /\ worker'[w] = "querying" => active'[w] \subseteq Elements(batch'[w])
      <3>1. w \in taken => Elsewhere(w)'
        BY <1>8 DEF Elsewhere
      <3>2. w \notin taken => (Elsewhere(w)' <=> Elsewhere(w))
        BY <1>8 DEF Elsewhere
      <3>3. CompletedMsg(w) \in Elements(inbox') => ~Elsewhere(w) /\ w \notin taken
        BY <1>2, <1>4 DEF QueueInv, PoolInv
      <3>4. w \in Elements(idle') => w \in Elements(workers) /\ w \notin taken
        BY <1>3, <1>6
      <3>5. worker'[w] = "gone" => dispatcher' # "running"
        BY <1>8 DEF QueueInv, PoolInv
      <3>6. worker'[w] = "querying" => active'[w] \subseteq Elements(batch'[w])
        BY <1>8 DEF QueueInv, PoolInv
      <3> QED BY <1>5, <3>1, <3>2, <3>3, <3>4, <3>5, <3>6
    <2> QED BY <1>3, <2>1, <2>2 DEF PoolInv
  <1>10. ClosingInv'
    <2>1. ASSUME NEW i \in DOMAIN inbox', NEW j \in DOMAIN inbox',
                 inbox'[i] = ShutdownMsg, inbox'[j].type # "completed"
          PROVE  j <= i
      <3>1. /\ i + 1 \in DOMAIN inbox /\ j + 1 \in DOMAIN inbox
            /\ inbox'[i] = inbox[i + 1] /\ inbox'[j] = inbox[j + 1]
        BY <1>2, <2>1
      <3>2. j + 1 <= i + 1
        BY <2>1, <3>1 DEF QueueInv, ClosingInv
      <3> QED BY <1>2, <2>1, <3>2
    <2> QED BY <1>2, <2>1 DEF QueueInv, ClosingInv
  <1>11. OwedInv'
    <2>1. ASSUME NEW s, Owed(s) PROVE Owed(s)'
      <3>1. CASE Queued(s)
        <4>1. \/ EnqueueMsg(s) \in Elements(inbox')
              \/ s \in Elements(requests) \/ \E b \in Elements(ready) : s \in Elements(b)
          BY <1>2, <3>1 DEF Queued
        <4>2. CASE EnqueueMsg(s) \in Elements(inbox')
          BY <4>2 DEF Owed, Queued
        <4>3. CASE s \in Elements(requests) \/ \E b \in Elements(ready) : s \in Elements(b)
          <5>1. \/ s \in Elements(pending')
                \/ \E b \in Elements(ready') : s \in Elements(b)
                \/ \E w \in taken : s \in Elements(batch'[w])
            BY <1>3, <4>3
          <5>2. ASSUME NEW w \in taken, s \in Elements(batch'[w]) PROVE Owed(s)'
            BY <1>4, <1>8, <5>2 DEF Owed
          <5> QED BY <5>1, <5>2 DEF Owed, Queued
        <4> QED BY <4>1, <4>2, <4>3
      <3>2. ASSUME NEW w \in Workers, \/ worker[w] = "given" /\ s \in Elements(batch[w])
                                      \/ worker[w] = "querying" /\ s \in active[w]
            PROVE  Owed(s)'
        <4>1. w \notin taken
          BY <1>4, <3>2 DEF Elsewhere
        <4> QED BY <1>8, <3>2, <4>1 DEF Owed
      <3> QED BY <2>1, <3>1, <3>2 DEF Owed
    <2> QED BY <2>1 DEF QueueInv, OwedInv
  <1> QED BY <1>7, <1>9, <1>10, <1>11 DEF QueueInv

LEMMA DistinctAppend ==
  ASSUME NEW S, NEW seq \in Seq(S), NEW x \in S, Distinct(seq), x \notin Elements(seq)
  PROVE  Distinct(Append(seq, x))
  <1>1. /\ Len(seq) \in Nat /\ DOMAIN seq = 1..Len(seq) /\ DOMAIN Append(seq, x) = 1..(Len(seq) + 1)
        /\ \A i \in 1..Len(seq) : Append(seq, x)[i] = seq[i] /\ seq[i] # x
        /\ Append(seq, x)[Len(seq) + 1] = x
    BY Sent
  <1>2. ASSUME NEW i \in DOMAIN Append(seq, x), NEW j \in DOMAIN Append(seq, x),
               Append(seq, x)[i] = Append(seq, x)[j]
        PROVE  i = j
    <2>1. (i \in 1..Len(seq) \/ i = Len(seq) + 1) /\ (j \in 1..Len(seq) \/ j = Len(seq) + 1)
      BY <1>1, <1>2
    <2> QED BY <1>1, <1>2, <2>1 DEF Distinct
  <1> QED BY <1>2 DEF Distinct

LEMMA DispatcherKeepsQueues ==
  ASSUME QueueInv, DeliveryTypeOK', DispatcherStep
  PROVE  QueueInv'
  <1>1. /\ inbox \in Seq(Message) /\ pending \in Seq(Subs) /\ idle \in Seq(Workers)
        /\ ready \in Seq(Seq(Subs))
    BY DEF QueueInv, TypeOK
  <1>2. ASSUME inbox # <<>>, inbox' = Tail(inbox)
        PROVE  /\ inbox' \in Seq(Message) /\ Head(inbox) \in Message /\ Head(inbox) = inbox[1]
               /\ Len(inbox) \in Nat \ {0}
               /\ DOMAIN inbox = 1..Len(inbox) /\ DOMAIN inbox' = 1..(Len(inbox) - 1)
               /\ \A i \in 1..(Len(inbox) - 1) : inbox'[i] = inbox[i + 1]
               /\ Elements(inbox) = {Head(inbox)} \cup Elements(inbox')
    BY <1>1, <1>2, Taken
  <1>3. ASSUME HandleEnqueue PROVE QueueInv'
    <2>1. /\ dispatcher = "running" /\ inbox # <<>> /\ inbox' = Tail(inbox)
          /\ Head(inbox).type = "enqueue"
          /\ DispatchAvailable(Append(pending, Head(inbox).sub), idle)
          /\ UNCHANGED <<db, entries, life, sent, dispatcher, active>>
      BY <1>3 DEF HandleEnqueue, Take, table, channels
    <2>2. PICK r \in Subs : Head(inbox) = EnqueueMsg(r) /\ Head(inbox).sub = r
      BY <1>2, <2>1, Messages
    <2>3. \A w \in Workers : CompletedMsg(w) # Head(inbox)
      BY <2>1, Messages
    <2>4. Elements(Append(pending, r)) = Elements(pending) \cup {r} /\ Append(pending, r) \in Seq(Subs)
      BY <1>1, Sent
    <2>5. \A s : s \in Elements(pending) \/ Head(inbox) = EnqueueMsg(s)
                   => s \in Elements(Append(pending, r))
      <3>1. \A s : Head(inbox) = EnqueueMsg(s) => s = r
        BY <2>2 DEF EnqueueMsg
      <3> QED BY <2>4, <3>1
    <2>6. Elements(idle) \subseteq Workers
      BY <1>1, ElementsAt
    <2>7. /\ \A w \in Elements(idle) : ~Elsewhere(w) /\ CompletedMsg(w) \notin Elements(inbox')
          /\ \A w \in Workers : \/ w \in Elements(idle) \/ CompletedMsg(w) \in Elements(inbox')
                                \/ Elsewhere(w)
      BY <1>2, <2>1, <2>3, <2>6 DEF QueueInv, PoolInv
    <2>8. Distinct(idle) /\ DispatchAvailable(Append(pending, r), idle)
      BY <2>1, <2>2 DEF QueueInv, PoolInv
    <2> QED BY <1>1, <2>1, <2>4, <2>5, <2>7, <2>8, DispatchKeepsQueues
  <1>4. ASSUME HandleCompleted PROVE QueueInv'
    <2>1. /\ dispatcher = "running" /\ inbox # <<>> /\ inbox' = Tail(inbox)
          /\ Head(inbox).type = "completed"
          /\ DispatchAvailable(pending, Append(idle, Head(inbox).worker))
          /\ UNCHANGED <<db, entries, life, sent, dispatcher, active>>
      BY <1>4 DEF HandleCompleted, Take, table, channels
    <2>2. PICK v \in Workers : Head(inbox) = CompletedMsg(v) /\ Head(inbox).worker = v
      BY <1>2, <2>1, Messages
    <2>3. \A s : Head(inbox) # EnqueueMsg(s)
      BY <2>1 DEF EnqueueMsg
    <2>4. \A w : CompletedMsg(w) = Head(inbox) => w = v
      BY <2>2 DEF CompletedMsg
    <2>5. CompletedMsg(v) \in Elements(inbox) /\ v \notin Elements(idle) /\ ~Elsewhere(v)
      BY <1>2, <2>1, <2>2 DEF QueueInv, PoolInv
    <2>6. CompletedMsg(v) \notin Elements(inbox')
      <3>1. SUFFICES ASSUME CompletedMsg(v) \in Elements(inbox') PROVE FALSE
        OBVIOUS
      <3>2. PICK i \in DOMAIN inbox' : inbox'[i] = CompletedMsg(v)
        BY <3>1 DEF Elements
      <3>3. i \in 1..(Len(inbox) - 1) /\ i + 1 \in DOMAIN inbox /\ 1 \in DOMAIN inbox
            /\ inbox[i + 1] = inbox[1] /\ inbox[1].type = "completed"
        BY <1>2, <2>1, <2>2, <3>2
      <3>4. i + 1 = 1
        BY <3>3 DEF QueueInv, PoolInv
      <3> QED BY <3>3, <3>4
    <2>7. /\ Append(idle, v) \in Seq(Workers) /\ Elements(Append(idle, v)) = Elements(idle) \cup {v}
          /\ Distinct(Append(idle, v))
      <3>1. Distinct(idle)
        BY DEF QueueInv, PoolInv
      <3> QED BY <1>1, <2>5, <3>1, Sent, DistinctAppend
    <2>8. Elements(idle) \subseteq Workers
      BY <1>1, ElementsAt
    <2>9. /\ \A w \in Elements(Append(idle, v)) :
                ~Elsewhere(w) /\ CompletedMsg(w) \notin Elements(inbox')
          /\ \A w \in Workers : \/ w \in Elements(Append(idle, v))
                                \/ CompletedMsg(w) \in Elements(inbox') \/ Elsewhere(w)
      BY <1>2, <2>1, <2>4, <2>5, <2>6, <2>7, <2>8 DEF QueueInv, PoolInv
    <2>10. DispatchAvailable(pending, Append(idle, v))
      BY <2>1, <2>2
    <2> QED BY <1>1, <2>1, <2>3, <2>7, <2>9, <2>10, DispatchKeepsQueues
  <1>5. ASSUME HandleShutdown PROVE QueueInv'
    <2>1. /\ dispatcher = "running" /\ inbox # <<>> /\ inbox' = Tail(inbox)
          /\ Head(inbox).type = "shutdown"
          /\ entries' = entries \ (Elements(pending) \cup UNION {Elements(b) : b \in Elements(ready)})
          /\ pending' = <<>> /\ ready' = <<>> /\ dispatcher' = "joining"
          /\ UNCHANGED <<db, life, sent, idle, worker, batch, active>>
      BY <1>5 DEF HandleShutdown, Take, channels, pool
    <2>2. /\ Head(inbox) = ShutdownMsg /\ \A w \in Workers : CompletedMsg(w) # Head(inbox)
      BY <1>2, <2>1, Messages
    <2>3. \A w \in Workers :
            CompletedMsg(w) \in Elements(inbox') <=> CompletedMsg(w) \in Elements(inbox)
      BY <1>2, <2>1, <2>2
    <2>4. ASSUME NEW j \in DOMAIN inbox, inbox[j].type # "completed" PROVE j = 1
      <3>1. 1 \in DOMAIN inbox /\ inbox[1] = ShutdownMsg
        BY <1>2, <2>1, <2>2
      <3>2. j <= 1
        BY <2>4, <3>1 DEF QueueInv, ClosingInv
      <3> QED BY <1>2, <2>1, <2>4, <3>2
    <2>5. \A i \in DOMAIN inbox' : inbox'[i].type = "completed"
      <3>1. ASSUME NEW i \in DOMAIN inbox', inbox'[i].type # "completed" PROVE FALSE
        <4>1. i \in 1..(Len(inbox) - 1) /\ i + 1 \in DOMAIN inbox /\ inbox[i + 1].type # "completed"
          BY <1>2, <2>1, <3>1
        <4>2. i + 1 = 1
          BY <2>4, <4>1
        <4> QED BY <4>1, <4>2
      <3> QED BY <3>1
    <2>6. TypeOK'
      <3>1. pending' \in Seq(Subs) /\ ready' \in Seq(Seq(Subs))
        BY <2>1, EmptySeq
      <3> QED BY <1>2, <2>1, <3>1 DEF QueueInv, TypeOK
    <2>7. PoolInv'
      <3>1. \A i, j \in DOMAIN inbox' : inbox'[i].type = "completed" /\ inbox'[i] = inbox'[j] => i = j
        <4>1. ASSUME NEW i \in DOMAIN inbox', NEW j \in DOMAIN inbox',
                     inbox'[i].type = "completed", inbox'[i] = inbox'[j]
              PROVE  i = j
          <5>1. /\ i + 1 \in DOMAIN inbox /\ j + 1 \in DOMAIN inbox
                /\ inbox'[i] = inbox[i + 1] /\ inbox'[j] = inbox[j + 1]
            BY <1>2, <2>1, <4>1
          <5>2. i + 1 = j + 1
            BY <4>1, <5>1 DEF QueueInv, PoolInv
          <5> QED BY <1>2, <2>1, <4>1, <5>2
        <4> QED BY <4>1
      <3> QED BY <2>1, <2>3, <3>1 DEF QueueInv, PoolInv, Distinct, Elsewhere
    <2>8. ClosingInv'
      <3>1. ShutdownMsg \in Elements(inbox) /\ db # "open"
        BY <1>2, <2>1, <2>2 DEF QueueInv, ClosingInv
      <3>2. ShutdownMsg.type # "completed"
        BY Messages
      <3> QED BY <2>1, <2>5, <3>1, <3>2 DEF QueueInv, ClosingInv
    <2>9. OwedInv'
      <3>1. ASSUME NEW s \in entries', Owed(s) PROVE Owed(s)'
        <4>1. EnqueueMsg(s) \notin Elements(inbox)
          <5>1. ASSUME NEW j \in DOMAIN inbox, inbox[j] = EnqueueMsg(s) PROVE FALSE
            <6>1. inbox[j].type = "enqueue"
              BY <5>1 DEF EnqueueMsg
            <6>2. j = 1
              BY <2>4, <6>1
            <6> QED BY <1>2, <2>1, <6>1, <6>2
          <5> QED BY <5>1 DEF Elements
        <4>2. ~Queued(s)
          BY <2>1, <3>1, <4>1 DEF Queued
        <4> QED BY <2>1, <3>1, <4>2 DEF Owed
      <3>2. entries' \subseteq entries /\ life' = life /\ sent' = sent
        BY <2>1
      <3> QED BY <3>1, <3>2 DEF QueueInv, OwedInv
    <2> QED BY <2>6, <2>7, <2>8, <2>9 DEF QueueInv
  <1>6. ASSUME Joined PROVE QueueInv'
    <2>1. /\ dispatcher = "joining" /\ dispatcher' = "gone" /\ \A w \in Workers : worker[w] = "gone"
          /\ UNCHANGED <<db, entries, life, sent, inbox, pending, ready, idle, worker, batch, active>>
      BY <1>6 DEF Joined, table, channels, pool
    <2>2. TypeOK'
      BY <2>1 DEF QueueInv, TypeOK
    <2>3. PoolInv'
      BY <2>1 DEF QueueInv, PoolInv, Distinct, Elsewhere
    <2>4. ClosingInv'
      BY <2>1 DEF QueueInv, ClosingInv
    <2>5. OwedInv'
      <3>1. \A s : Owed(s) => Owed(s)'
        BY <2>1 DEF Owed, Queued
      <3> QED BY <2>1, <3>1 DEF QueueInv, OwedInv
    <2> QED BY <2>2, <2>3, <2>4, <2>5 DEF QueueInv
  <1> QED BY <1>3, <1>4, <1>5, <1>6 DEF DispatcherStep

(***************************************************************************)
(* run_worker and process_batch.                                           *)
(***************************************************************************)
\* A step of a worker that is at work before and after it leaves the pool and the
\* closing as they are.
LEMMA AtWork ==
  ASSUME QueueInv, DeliveryTypeOK', NEW w \in Workers, NEW state \in {"querying", "reporting"},
         Elsewhere(w), worker' = [worker EXCEPT ![w] = state],
         UNCHANGED <<db, life, inbox, queues, batch>>,
         \A v \in Workers : v # w => active'[v] = active[v],
         state = "querying" => active'[w] \subseteq Elements(batch[w])
  PROVE  TypeOK' /\ PoolInv' /\ ClosingInv'
  <1>1. worker \in [Workers -> {"waiting", "given", "querying", "reporting", "gone"}]
    BY DEF QueueInv, TypeOK
  <1>2. /\ worker' \in [Workers -> {"waiting", "given", "querying", "reporting", "gone"}]
        /\ worker'[w] = state /\ \A v \in Workers : v # w => worker'[v] = worker[v]
        /\ worker'[w] # "gone" /\ worker[w] # "gone"
    BY <1>1 DEF Elsewhere
  <1>3. \A v \in Workers : Elsewhere(v)' <=> Elsewhere(v)
    BY <1>2 DEF Elsewhere
  <1>4. TypeOK'
    BY <1>2 DEF QueueInv, TypeOK, queues
  <1>5. PoolInv'
    BY <1>2, <1>3 DEF QueueInv, PoolInv, Distinct, queues
  <1>6. ClosingInv'
    BY <1>2 DEF QueueInv, ClosingInv, queues
  <1> QED BY <1>4, <1>5, <1>6

LEMMA WorkerKeepsQueues ==
  ASSUME QueueInv, DeliveryTypeOK', WorkerStep
  PROVE  QueueInv'
  <1>1. /\ worker \in [Workers -> {"waiting", "given", "querying", "reporting", "gone"}]
        /\ active \in [Workers -> SUBSET Subs] /\ entries \subseteq Subs
        /\ batch \in [Workers -> Seq(Subs)] /\ inbox \in Seq(Message)
    BY DEF QueueInv, TypeOK, DeliveryTypeOK
  <1>2. ASSUME NEW w \in Workers, Begin(w) PROVE QueueInv'
    <2> DEFINE open == {s \in Subs : s \in Elements(batch[w]) /\ life[s] = "live"}
    <2>1. /\ worker[w] = "given" /\ active' = [active EXCEPT ![w] = open]
          /\ worker' = [worker EXCEPT ![w] = IF open = {} THEN "reporting" ELSE "querying"]
          /\ UNCHANGED <<db, entries, life, sent, inbox, queues, batch>>
      BY <1>2 DEF Begin, table, channels
    <2>2. /\ \A s \in Subs : s \in Elements(batch[w]) /\ life[s] = "live" => s \in open
          /\ open \subseteq Elements(batch[w])
      OBVIOUS
    <2> HIDE DEF open
    <2>3. PICK state \in {"querying", "reporting"} :
            state = IF open = {} THEN "reporting" ELSE "querying"
      OBVIOUS
    <2>4. TypeOK' /\ PoolInv' /\ ClosingInv'
      <3>1. /\ Elsewhere(w) /\ worker' = [worker EXCEPT ![w] = state]
            /\ active'[w] = open /\ \A v \in Workers : v # w => active'[v] = active[v]
        BY <1>1, <2>1, <2>3 DEF Elsewhere
      <3> QED BY <2>1, <2>2, <3>1, AtWork
    <2>5. OwedInv'
      <3>1. ASSUME NEW s \in entries, life[s] = "live", Owed(s) PROVE Owed(s)'
        <4>1. ASSUME s \in Elements(batch[w]) PROVE Owed(s)'
          <5>1. s \in open
            BY <1>1, <2>2, <3>1, <4>1
          <5>2. worker'[w] = "querying" /\ s \in active'[w]
            BY <1>1, <2>1, <5>1
          <5> QED BY <5>2 DEF Owed
        <4>2. Queued(s)' <=> Queued(s)
          BY <2>1 DEF Queued, queues
        <4>3. ASSUME NEW v \in Workers, v # w,
                     \/ worker[v] = "given" /\ s \in Elements(batch[v])
                     \/ worker[v] = "querying" /\ s \in active[v]
              PROVE  Owed(s)'
          BY <1>1, <2>1, <4>3 DEF Owed
        <4> QED BY <2>1, <3>1, <4>1, <4>2, <4>3 DEF Owed
      <3> QED BY <2>1, <3>1 DEF QueueInv, OwedInv
    <2> QED BY <2>4, <2>5 DEF QueueInv
  <1>3. ASSUME NEW w \in Workers, NEW e \in Events, Emit(w, e) PROVE QueueInv'
    <2>1. /\ worker[w] = "querying" /\ TrySend(active[w], e)
          /\ active' = [active EXCEPT ![w] = {s \in @ : CanSend(s)}]
          /\ UNCHANGED <<db, life, inbox, queues, worker, batch>>
      BY <1>3 DEF Emit
    <2>2. /\ entries' \subseteq entries
          /\ \A s \in Subs : sent[s] \subseteq sent'[s]
          /\ \A s \in entries' : s \in active[w] => CanSend(s)
      BY <2>1, Sending DEF QueueInv, TypeOK
    <2>3. /\ active'[w] \subseteq active[w] /\ \A v \in Workers : v # w => active'[v] = active[v]
          /\ \A s \in entries' : s \in active[w] => s \in active'[w]
      BY <1>1, <2>1, <2>2
    <2>4. TypeOK' /\ PoolInv' /\ ClosingInv'
      <3>1. Elsewhere(w) /\ worker' = [worker EXCEPT ![w] = "querying"]
        BY <1>1, <2>1 DEF Elsewhere
      <3>2. active'[w] \subseteq Elements(batch[w])
        BY <2>1, <2>3 DEF QueueInv, PoolInv
      <3> QED BY <2>1, <2>3, <3>1, <3>2, AtWork
    <2>5. OwedInv'
      <3>1. ASSUME NEW s \in entries', Owed(s) PROVE Owed(s)'
        <4>1. Queued(s)' <=> Queued(s)
          BY <2>1 DEF Queued, queues
        <4>2. \A v \in Workers : s \in active[v] => s \in active'[v]
          BY <2>3, <3>1
        <4> QED BY <2>1, <3>1, <4>1, <4>2 DEF Owed
      <3> QED BY <1>1, <2>1, <2>2, <3>1 DEF QueueInv, OwedInv
    <2> QED BY <2>4, <2>5 DEF QueueInv
  <1>4. ASSUME NEW w \in Workers, FinishBatch(w) PROVE QueueInv'
    <2>1. /\ worker[w] = "querying" /\ TrySend(active[w], Eose)
          /\ worker' = [worker EXCEPT ![w] = "reporting"]
          /\ active' = [active EXCEPT ![w] = {}]
          /\ UNCHANGED <<db, life, inbox, queues, batch>>
      BY <1>4 DEF FinishBatch
    <2>2. /\ entries' \subseteq entries
          /\ \A s \in Subs : sent[s] \subseteq sent'[s]
          /\ \A s \in Subs \cap active[w] : CanSend(s) => Eose \in sent'[s]
          /\ \A s \in entries' : s \in active[w] => CanSend(s)
      BY <2>1, Sending DEF QueueInv, TypeOK
    <2>3. TypeOK' /\ PoolInv' /\ ClosingInv'
      <3>1. Elsewhere(w) /\ \A v \in Workers : v # w => active'[v] = active[v]
        BY <1>1, <2>1 DEF Elsewhere
      <3> QED BY <2>1, <3>1, AtWork
    <2>4. OwedInv'
      <3>1. ASSUME NEW s \in entries', Owed(s) PROVE Owed(s)' \/ Eose \in sent'[s]
        <4>1. CASE s \in active[w]
          BY <1>1, <2>2, <3>1, <4>1
        <4>2. CASE s \notin active[w]
          <5>1. Queued(s)' <=> Queued(s)
            BY <2>1 DEF Queued, queues
          <5>2. \A v \in Workers : v # w => worker'[v] = worker[v] /\ active'[v] = active[v]
            BY <1>1, <2>1
          <5> QED BY <2>1, <3>1, <4>2, <5>1, <5>2 DEF Owed
        <4> QED BY <4>1, <4>2
      <3> QED BY <1>1, <2>1, <2>2, <3>1 DEF QueueInv, OwedInv
    <2> QED BY <2>3, <2>4 DEF QueueInv
  <1>5. ASSUME NEW w \in Workers, FailBatch(w) PROVE QueueInv'
    <2>1. /\ worker[w] = "querying" /\ entries' = entries \ Elements(batch[w])
          /\ worker' = [worker EXCEPT ![w] = "reporting"]
          /\ active' = [active EXCEPT ![w] = {}]
          /\ UNCHANGED <<db, life, sent, inbox, queues, batch>>
      BY <1>5 DEF FailBatch, channels
    <2>2. TypeOK' /\ PoolInv' /\ ClosingInv'
      <3>1. Elsewhere(w) /\ \A v \in Workers : v # w => active'[v] = active[v]
        BY <1>1, <2>1 DEF Elsewhere
      <3> QED BY <2>1, <3>1, AtWork
    <2>3. active[w] \subseteq Elements(batch[w])
      BY <2>1 DEF QueueInv, PoolInv
    <2>4. OwedInv'
      <3>1. ASSUME NEW s \in entries', Owed(s) PROVE Owed(s)'
        <4>1. Queued(s)' <=> Queued(s)
          BY <2>1 DEF Queued, queues
        <4>2. \A v \in Workers : v # w => worker'[v] = worker[v] /\ active'[v] = active[v]
          BY <1>1, <2>1
        <4> QED BY <2>1, <2>3, <3>1, <4>1, <4>2 DEF Owed
      <3> QED BY <2>1, <3>1 DEF QueueInv, OwedInv
    <2> QED BY <2>2, <2>4 DEF QueueInv
  <1>6. ASSUME NEW w \in Workers, Report(w) PROVE QueueInv'
    <2>1. /\ worker[w] = "reporting" /\ worker' = [worker EXCEPT ![w] = "waiting"]
          /\ batch' = [batch EXCEPT ![w] = <<>>]
          /\ inbox' = Append(inbox, CompletedMsg(w))
          /\ UNCHANGED <<db, entries, life, sent, queues, active>>
      BY <1>6 DEF Report, table, channels
    <2>2. /\ CompletedMsg(w) \in Message /\ CompletedMsg(w).type = "completed"
          /\ CompletedMsg(w) # ShutdownMsg
          /\ \A v \in Workers : CompletedMsg(v) = CompletedMsg(w) => v = w
          /\ \A s : CompletedMsg(w) # EnqueueMsg(s)
      BY Messages DEF CompletedMsg, EnqueueMsg
    <2>3. /\ inbox' \in Seq(Message) /\ Len(inbox) \in Nat
          /\ DOMAIN inbox = 1..Len(inbox) /\ DOMAIN inbox' = 1..(Len(inbox) + 1)
          /\ \A i \in 1..Len(inbox) : inbox'[i] = inbox[i] /\ inbox[i] \in Elements(inbox)
          /\ inbox'[Len(inbox) + 1] = CompletedMsg(w)
          /\ Elements(inbox') = Elements(inbox) \cup {CompletedMsg(w)}
      BY <1>1, <2>1, <2>2, Sent
    <2>4. CompletedMsg(w) \notin Elements(inbox) /\ w \notin Elements(idle)
      BY <2>1 DEF QueueInv, PoolInv, Elsewhere
    <2>5. /\ worker'[w] = "waiting" /\ \A v \in Workers : v # w => worker'[v] = worker[v] /\ batch'[v] = batch[v]
          /\ worker' \in [Workers -> {"waiting", "given", "querying", "reporting", "gone"}]
      BY <1>1, <2>1
    <2>6. TypeOK'
      <3>1. batch' \in [Workers -> Seq(Subs)]
        BY <1>1, <2>1, EmptySeq
      <3> QED BY <2>1, <2>3, <2>5, <3>1 DEF QueueInv, TypeOK, queues
    <2>7. PoolInv'
      <3>1. \A i, j \in DOMAIN inbox' : inbox'[i].type = "completed" /\ inbox'[i] = inbox'[j] => i = j
        <4>1. ASSUME NEW i \in DOMAIN inbox', NEW j \in DOMAIN inbox',
                     inbox'[i].type = "completed", inbox'[i] = inbox'[j]
              PROVE  i = j
          <5>1. (i \in 1..Len(inbox) \/ i = Len(inbox) + 1) /\ (j \in 1..Len(inbox) \/ j = Len(inbox) + 1)
            BY <2>3, <4>1
          <5>2. \A k \in 1..Len(inbox) : inbox'[k] # CompletedMsg(w)
            BY <2>3, <2>4
          <5>3. ASSUME i \in 1..Len(inbox), j \in 1..Len(inbox) PROVE i = j
            BY <2>3, <4>1, <5>3 DEF QueueInv, PoolInv
          <5> QED BY <2>3, <4>1, <5>1, <5>2, <5>3
        <4> QED BY <4>1
      <3>2. ASSUME NEW v \in Workers
            PROVE  /\ v \in Elements(idle') \/ CompletedMsg(v) \in Elements(inbox') \/ Elsewhere(v)'
                   /\ v \in Elements(idle') => ~Elsewhere(v)' /\ CompletedMsg(v) \notin Elements(inbox')
                   /\ CompletedMsg(v) \in Elements(inbox') => ~Elsewhere(v)'
                   /\ worker'[v] = "gone" => dispatcher' # "running"
                   /\ worker'[v] = "querying" => active'[v] \subseteq Elements(batch'[v])
        <4>1. CASE v = w
          <5>1. ~Elsewhere(v)' /\ worker'[v] # "gone" /\ worker'[v] # "querying"
            BY <2>5, <4>1 DEF Elsewhere
          <5>2. CompletedMsg(v) \in Elements(inbox') /\ v \notin Elements(idle')
            BY <2>1, <2>3, <2>4, <4>1 DEF queues
          <5> QED BY <5>1, <5>2
        <4>2. CASE v # w
          <5>1. CompletedMsg(v) \in Elements(inbox') <=> CompletedMsg(v) \in Elements(inbox)
            BY <2>2, <2>3, <4>2
          <5>2. Elsewhere(v)' <=> Elsewhere(v)
            BY <2>5, <4>2 DEF Elsewhere
          <5> QED BY <2>1, <2>5, <4>2, <5>1, <5>2 DEF QueueInv, PoolInv, queues
        <4> QED BY <4>1, <4>2
      <3> QED BY <2>1, <3>1, <3>2 DEF QueueInv, PoolInv, queues
    <2>8. ClosingInv'
      <3>1. dispatcher # "gone"
        BY <2>1 DEF QueueInv, ClosingInv
      <3>2. ASSUME NEW i \in DOMAIN inbox', NEW j \in DOMAIN inbox',
                   inbox'[i] = ShutdownMsg, inbox'[j].type # "completed"
            PROVE  j <= i
        <4>1. i \in DOMAIN inbox /\ j \in DOMAIN inbox
          BY <2>2, <2>3, <3>2
        <4> QED BY <2>3, <3>2, <4>1 DEF QueueInv, ClosingInv
      <3>3. dispatcher # "running" => \A i \in DOMAIN inbox' : inbox'[i].type = "completed"
        BY <2>2, <2>3 DEF QueueInv, ClosingInv
      <3> QED BY <2>1, <2>2, <2>3, <3>1, <3>2, <3>3 DEF QueueInv, ClosingInv, queues
    <2>9. OwedInv'
      <3>1. ASSUME NEW s, Owed(s) PROVE Owed(s)'
        BY <2>1, <2>3, <2>5, <3>1 DEF Owed, Queued, queues
      <3> QED BY <2>1, <3>1 DEF QueueInv, OwedInv
    <2> QED BY <2>6, <2>7, <2>8, <2>9 DEF QueueInv
  <1>7. ASSUME NEW w \in Workers, Exit(w) PROVE QueueInv'
    <2>1. /\ worker[w] = "waiting" /\ dispatcher = "joining"
          /\ worker' = [worker EXCEPT ![w] = "gone"]
          /\ UNCHANGED <<db, entries, life, sent, inbox, queues, batch, active>>
      BY <1>7 DEF Exit, table, channels
    <2>2. /\ worker'[w] = "gone" /\ \A v \in Workers : v # w => worker'[v] = worker[v]
          /\ worker' \in [Workers -> {"waiting", "given", "querying", "reporting", "gone"}]
      BY <1>1, <2>1
    <2>3. \A v \in Workers : Elsewhere(v)' <=> Elsewhere(v)
      BY <2>1, <2>2 DEF Elsewhere
    <2>4. TypeOK'
      BY <2>1, <2>2 DEF QueueInv, TypeOK, queues
    <2>5. PoolInv'
      BY <2>1, <2>2, <2>3 DEF QueueInv, PoolInv, Distinct, queues
    <2>6. ClosingInv'
      BY <2>1, <2>2 DEF QueueInv, ClosingInv, queues
    <2>7. OwedInv'
      <3>1. ASSUME NEW s, Owed(s) PROVE Owed(s)'
        BY <2>1, <2>2, <3>1 DEF Owed, Queued, queues
      <3> QED BY <2>1, <3>1 DEF QueueInv, OwedInv
    <2> QED BY <2>4, <2>5, <2>6, <2>7 DEF QueueInv
  <1> QED BY <1>2, <1>3, <1>4, <1>5, <1>6, <1>7 DEF WorkerStep

LEMMA InitQueues == Init => QueueInv
  <1> SUFFICES ASSUME Init PROVE QueueInv
    OBVIOUS
  <1>1. DeliveryTypeOK
    BY InitDelivery DEF DeliveryInv
  <1>2. /\ db = "open" /\ dispatcher = "running" /\ entries = {}
        /\ inbox = <<>> /\ pending = <<>> /\ ready = <<>>
        /\ idle = [i \in 1..NWorkers |-> NWorkers + 1 - i]
        /\ worker = [w \in Workers |-> "waiting"] /\ batch = [w \in Workers |-> <<>>]
    BY DEF Init, Workers
  <1>3. NWorkers \in Nat \ {0}
    BY ConstantsAssumption
  <1>4. \A i \in 1..NWorkers : NWorkers + 1 - i \in 1..NWorkers
    BY <1>3
  <1>5. idle \in Seq(Workers) /\ Distinct(idle) /\ DOMAIN idle = 1..NWorkers
    BY <1>2, <1>3, <1>4 DEF Workers, Distinct
  <1>6. Workers \subseteq Elements(idle)
    <2>1. ASSUME NEW w \in Workers PROVE w \in Elements(idle)
      <3>1. NWorkers + 1 - w \in 1..NWorkers /\ NWorkers + 1 - (NWorkers + 1 - w) = w
        BY <1>3 DEF Workers
      <3>2. idle[NWorkers + 1 - w] = w
        BY <1>2, <3>1
      <3> QED BY <1>5, <3>1, <3>2 DEF Elements
    <2> QED BY <2>1
  <1>7. Elements(inbox) = {} /\ DOMAIN inbox = {}
    BY <1>2, ElementsEmpty
  <1>8. TypeOK
    <2>1. inbox \in Seq(Message) /\ pending \in Seq(Subs) /\ ready \in Seq(Seq(Subs))
          /\ batch \in [Workers -> Seq(Subs)]
      BY <1>2, EmptySeq
    <2> QED BY <1>1, <1>2, <1>5, <2>1 DEF TypeOK
  <1>9. PoolInv
    BY <1>2, <1>5, <1>6, <1>7 DEF PoolInv, Elsewhere
  <1>10. ClosingInv
    BY <1>2, <1>7 DEF ClosingInv
  <1>11. OwedInv
    BY <1>2 DEF OwedInv
  <1> QED BY <1>8, <1>9, <1>10, <1>11 DEF QueueInv

\* The queues of the batcher are correct step by step (handle_dispatcher_message,
\* dispatch_available, run_worker): QueueInv is inductive.
THEOREM Queues == Spec => []QueueInv
  <1>1. ASSUME DeliveryInv, DeliveryInv', QueueInv, [Next]_vars PROVE QueueInv'
    <2>1. DeliveryTypeOK'
      BY <1>1 DEF DeliveryInv
    <2>2. CASE UNCHANGED vars
      BY <1>1, <2>1, <2>2, SameQueues DEF vars, pool, table, channels
    <2>3. CASE Next
      BY <1>1, <2>1, <2>3, InsertKeepsQueues, SubscriberKeepsQueues, CloseKeepsQueues,
         DispatcherKeepsQueues, WorkerKeepsQueues DEF Next
    <2> QED BY <1>1, <2>2, <2>3
  <1> QED BY <1>1, InitQueues, Delivers, PTL DEF Spec

\* The program's variables keep their types, the dispatcher's queues and the
\* batches of split_pending included.
THEOREM TypeCorrect == Spec => []TypeOK
  <1>1. QueueInv => TypeOK
    BY DEF QueueInv
  <1> QED BY <1>1, Queues, PTL

\* However completions, requests and batches interleave, each worker is idle, at
\* work or reporting, and in one of the three only (the debug_assert of
\* handle_dispatcher_message holds).
THEOREM NoWorkerLost == Spec => []WorkersAccounted
  <1>1. ASSUME QueueInv PROVE WorkersAccounted
    <2>1. ASSUME NEW x, NEW seq, Distinct(seq)
          PROVE  Times(x, seq) = IF x \in Elements(seq) THEN 1 ELSE 0
      <3>1. CASE x \in Elements(seq)
        <4>1. PICK i \in DOMAIN seq : seq[i] = x
          BY <3>1 DEF Elements
        <4>2. {k \in DOMAIN seq : seq[k] = x} = {i}
          BY <2>1, <4>1 DEF Distinct
        <4> QED BY <3>1, <4>2, FS_Singleton DEF Times
      <3>2. CASE x \notin Elements(seq)
        <4>1. {k \in DOMAIN seq : seq[k] = x} = {}
          BY <3>2 DEF Elements
        <4> QED BY <3>2, <4>1, FS_EmptySet DEF Times
      <3> QED BY <3>1, <3>2
    <2>2. ASSUME NEW w \in Workers
          PROVE  Times(CompletedMsg(w), inbox) = IF CompletedMsg(w) \in Elements(inbox) THEN 1 ELSE 0
      <3>1. CASE CompletedMsg(w) \in Elements(inbox)
        <4>1. PICK i \in DOMAIN inbox : inbox[i] = CompletedMsg(w)
          BY <3>1 DEF Elements
        <4>2. CompletedMsg(w).type = "completed"
          BY Messages
        <4>3. {k \in DOMAIN inbox : inbox[k] = CompletedMsg(w)} = {i}
          BY <1>1, <4>1, <4>2 DEF QueueInv, PoolInv
        <4> QED BY <3>1, <4>3, FS_Singleton DEF Times
      <3>2. CASE CompletedMsg(w) \notin Elements(inbox)
        <4>1. {k \in DOMAIN inbox : inbox[k] = CompletedMsg(w)} = {}
          BY <3>2 DEF Elements
        <4> QED BY <3>2, <4>1, FS_EmptySet DEF Times
      <3> QED BY <3>1, <3>2
    <2>3. Distinct(idle)
      BY <1>1 DEF QueueInv, PoolInv
    <2>4. ASSUME NEW w \in Workers
          PROVE  Times(w, idle) + Times(CompletedMsg(w), inbox)
                   + (IF worker[w] \in {"waiting", "gone"} THEN 0 ELSE 1) = 1
      <3>1. /\ w \in Elements(idle) \/ CompletedMsg(w) \in Elements(inbox) \/ Elsewhere(w)
            /\ w \in Elements(idle) => ~Elsewhere(w) /\ CompletedMsg(w) \notin Elements(inbox)
            /\ CompletedMsg(w) \in Elements(inbox) => ~Elsewhere(w)
        BY <1>1 DEF QueueInv, PoolInv
      <3>2. Times(w, idle) = IF w \in Elements(idle) THEN 1 ELSE 0
        BY <2>1, <2>3
      <3> QED BY <2>2, <3>1, <3>2 DEF Elsewhere
    <2> QED BY <2>4 DEF WorkersAccounted
  <1> QED BY <1>1, Queues, PTL

\* Nobody waits for a snapshot that no thread is going to take: when every thread
\* has come to rest, what is in the table and still held has had its EOSE.
THEOREM NobodyLeftWaiting == Spec => []NobodyForgotten
  <1>1. ASSUME QueueInv PROVE NobodyForgotten
    <2>1. SUFFICES ASSUME Quiet, NEW s \in entries, life[s] = "live", Eose \notin sent[s]
                   PROVE  FALSE
      BY DEF NobodyForgotten
    <2>2. Owed(s)
      BY <1>1, <2>1 DEF QueueInv, OwedInv
    <2>3. /\ inbox = <<>> /\ dispatcher \in {"running", "gone"}
          /\ \A w \in Workers : worker[w] \in {"waiting", "gone"}
      BY <2>1 DEF Quiet
    <2>4. Elements(inbox) = {}
      BY <2>3, ElementsEmpty
    <2>5. pending = <<>> /\ ready = <<>>
      <3>1. CASE dispatcher = "gone"
        BY <1>1, <3>1 DEF QueueInv, ClosingInv
      <3>2. CASE dispatcher = "running"
        <4>1. 1 \in Workers
          BY ConstantsAssumption DEF Workers
        <4>2. 1 \in Elements(idle)
          BY <1>1, <2>3, <2>4, <4>1 DEF QueueInv, PoolInv, Elsewhere
        <4>3. idle # <<>>
          BY <4>2, ElementsEmpty
        <4> QED BY <1>1, <4>3 DEF QueueInv, PoolInv
      <3> QED BY <2>3, <3>1, <3>2
    <2>6. ~Queued(s)
      BY <2>4, <2>5, ElementsEmpty DEF Queued
    <2> QED BY <2>2, <2>3, <2>6 DEF Owed
  <1> QED BY <1>1, Queues, PTL

\* The drop of the database leaves no subscription in the table without its EOSE:
\* what was queued is unregistered, what a worker holds is finished first.
THEOREM Settles == Spec => []ShutdownSettles
  <1>1. ASSUME QueueInv PROVE ShutdownSettles
    <2>1. SUFFICES ASSUME dispatcher = "gone", NEW s \in entries, Eose \notin sent[s]
                   PROVE  FALSE
      BY DEF ShutdownSettles
    <2>2. /\ pending = <<>> /\ ready = <<>> /\ \A w \in Workers : worker[w] = "gone"
          /\ \A i \in DOMAIN inbox : inbox[i].type = "completed"
          /\ db = "closed" /\ \A r \in Subs : life[r] # "registered"
      BY <1>1, <2>1 DEF QueueInv, ClosingInv, TypeOK
    <2>3. s \in Subs /\ life[s] = "live"
      <3>1. s \in Subs
        BY <1>1, <2>1 DEF QueueInv, TypeOK, DeliveryTypeOK
      <3>2. \A r \in entries : life[r] \in {"registered", "live"}
        BY <1>1 DEF QueueInv, OwedInv
      <3> QED BY <2>1, <2>2, <3>1, <3>2
    <2>4. EnqueueMsg(s) \notin Elements(inbox)
      BY <2>2 DEF Elements, EnqueueMsg
    <2>5. ~Queued(s)
      BY <2>2, <2>4, ElementsEmpty DEF Queued
    <2>6. ~Owed(s)
      BY <2>2, <2>5 DEF Owed
    <2> QED BY <1>1, <2>1, <2>3, <2>6 DEF QueueInv, OwedInv
  <1> QED BY <1>1, Queues, PTL
=============================================================================
