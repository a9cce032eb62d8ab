------------------------- MODULE SidecarQueueProofs -------------------------
(***************************************************************************)
(* The sidecar guard for any number of compaction and reindex threads.     *)
(***************************************************************************)
EXTENDS SidecarQueue, FiniteSetTheorems, TLAPS

IndInv == TypeOK /\ MutualExclusion

(***************************************************************************)
(* The counter.  Queued gains a compaction, loses one, or stays.           *)
(***************************************************************************)
LEMMA QueuedFinite == IsFiniteSet(Queued)
BY FS_Subset, ThreadsAssumption DEF Queued

LEMMA QueuedCount == Cardinality(Queued) \in Nat
BY QueuedFinite, FS_CardinalityType

LEMMA QueuedSame ==
  ASSUME TypeOK, Queued' = Queued, pendingCompactions' = pendingCompactions
  PROVE  pendingCompactions' = Cardinality(Queued')
BY DEF TypeOK

LEMMA QueuedGains ==
  ASSUME TypeOK, NEW c \in Compactions \ Queued, Queued' = Queued \cup {c},
         pendingCompactions' = pendingCompactions + 1
  PROVE  pendingCompactions' = Cardinality(Queued')
BY QueuedFinite, FS_AddElement DEF TypeOK

LEMMA QueuedLoses ==
  ASSUME TypeOK, NEW c \in Queued, Queued' = Queued \ {c},
         pendingCompactions' = pendingCompactions - 1
  PROVE  pendingCompactions' = Cardinality(Queued')
BY QueuedFinite, FS_RemoveElement DEF TypeOK

(***************************************************************************)
(* Types and the counter.                                                  *)
(***************************************************************************)
LEMMA TypeInit == Init => TypeOK
<1> SUFFICES ASSUME Init PROVE TypeOK
  OBVIOUS
<1>1. Queued = {}
  BY DEF Init, Queued, Threads
<1> QED
  BY <1>1, FS_EmptySet DEF Init, TypeOK

\* What is left of TypeOK once the counter is settled.
LEMMA TypeStep ==
  ASSUME TypeOK, NEW t \in Threads, Acquire(t) \/ Retry(t) \/ Release(t) \/ SpuriousWakeup(t)
  PROVE  active' \in BOOLEAN /\ pc' \in [Threads -> {"idle", "waiting", "woken", "holding"}]
<1>1. CASE Acquire(t)
  BY <1>1 DEF Acquire, Wait, Hold, TypeOK
<1>2. CASE Retry(t)
  BY <1>2 DEF Retry, Wait, Hold, TypeOK
<1>3. CASE Release(t)
  BY <1>3 DEF Release, TypeOK
<1>4. CASE SpuriousWakeup(t)
  BY <1>4 DEF SpuriousWakeup, TypeOK
<1> QED
  BY <1>1, <1>2, <1>3, <1>4

LEMMA CountStep ==
  ASSUME TypeOK, NEW t \in Threads, Acquire(t) \/ Retry(t) \/ Release(t) \/ SpuriousWakeup(t)
  PROVE  pendingCompactions' = Cardinality(Queued')
<1> USE ThreadsAssumption DEF Threads
<1>1. CASE Acquire(t)
  <2>1. CASE Wait(t) /\ t \in Compactions
    <3>1. t \notin Queued /\ Queued' = Queued \cup {t}
      BY <1>1, <2>1 DEF Acquire, Wait, Queued, TypeOK
    <3>2. pendingCompactions' = pendingCompactions + 1
      BY <1>1, <2>1 DEF Acquire, Wait, Hold, TypeOK
    <3> QED
      BY <2>1, <3>1, <3>2, QueuedGains
  <2>2. CASE ~(Wait(t) /\ t \in Compactions)
    <3>1. Queued' = Queued
      BY <1>1, <2>2 DEF Acquire, Wait, Hold, Queued, TypeOK
    <3>2. pendingCompactions' = pendingCompactions
      BY <1>1, <2>2 DEF Acquire, Wait, Hold
    <3> QED
      BY <3>1, <3>2, QueuedSame
  <2> QED
    BY <2>1, <2>2
<1>2. CASE Retry(t)
  <2>1. CASE Wait(t)
    <3>1. Queued' = Queued
      BY <1>2, <2>1 DEF Retry, Wait, Queued, TypeOK
    <3>2. pendingCompactions' = pendingCompactions
      BY <1>2, <2>1 DEF Retry, Wait, Hold, TypeOK
    <3> QED
      BY <3>1, <3>2, QueuedSame
  <2>2. CASE Hold(t) /\ t \in Compactions
    <3>1. t \in Queued /\ Queued' = Queued \ {t}
      BY <1>2, <2>2 DEF Retry, Hold, Queued, TypeOK
    <3>2. pendingCompactions' = pendingCompactions - 1
      BY <1>2, <2>2 DEF Retry, Wait, Hold, TypeOK
    <3> QED
      BY <3>1, <3>2, QueuedLoses
  <2>3. CASE Hold(t) /\ t \notin Compactions
    <3>1. Queued' = Queued
      BY <1>2, <2>3 DEF Retry, Hold, Queued, TypeOK
    <3>2. pendingCompactions' = pendingCompactions
      BY <1>2, <2>3 DEF Retry
    <3> QED
      BY <3>1, <3>2, QueuedSame
  <2> QED
    BY <1>2, <2>1, <2>2, <2>3 DEF Retry
<1>3. CASE Release(t)
  <2>1. Queued' = Queued
    BY <1>3 DEF Release, Queued, TypeOK
  <2> QED
    BY <1>3, <2>1, QueuedSame DEF Release
<1>4. CASE SpuriousWakeup(t)
  <2>1. Queued' = Queued
    BY <1>4 DEF SpuriousWakeup, Queued, TypeOK
  <2> QED
    BY <1>4, <2>1, QueuedSame DEF SpuriousWakeup
<1> QED
  BY <1>1, <1>2, <1>3, <1>4

LEMMA TypeNext == TypeOK /\ [Next]_vars => TypeOK'
<1>1. TypeOK /\ UNCHANGED vars => TypeOK'
  BY DEF TypeOK, vars, Queued
<1> QED
  BY <1>1, TypeStep, CountStep DEF Next, TypeOK

\* Every reachable state is well typed, and pending_compactions is the number
\* of compactions that wait for a guard, on every path through acquire().
THEOREM TypeCorrect == Spec => []TypeOK
BY TypeInit, TypeNext, PTL DEF Spec

(***************************************************************************)
(* Mutual exclusion.                                                       *)
(***************************************************************************)
LEMMA Enters ==
  ASSUME IndInv, NEW t \in Threads, ~active, Hold(t)
  PROVE  MutualExclusion'
BY DEF IndInv, TypeOK, MutualExclusion, Holders, Hold

LEMMA StaysOut ==
  ASSUME IndInv, NEW t \in Threads, pc[t] # "holding", NEW next, next # "holding",
         pc' = [pc EXCEPT ![t] = next], active' = active
  PROVE  MutualExclusion'
BY DEF IndInv, TypeOK, MutualExclusion, Holders

LEMMA ExclusionNext == IndInv /\ [Next]_vars => MutualExclusion'
<1> SUFFICES ASSUME IndInv, [Next]_vars PROVE MutualExclusion'
  OBVIOUS
<1>1. ASSUME NEW t \in Threads, Acquire(t) PROVE MutualExclusion'
  BY <1>1, Enters, StaysOut DEF Acquire, Blocked, Wait
<1>2. ASSUME NEW t \in Threads, Retry(t) PROVE MutualExclusion'
  BY <1>2, Enters, StaysOut DEF Retry, Blocked, Wait
<1>3. ASSUME NEW t \in Threads, Release(t) PROVE MutualExclusion'
  <2>1. Holders = {t}
    BY <1>3 DEF Release, IndInv, MutualExclusion, Holders
  <2>2. Holders' = {}
    BY <1>3, <2>1 DEF Release, IndInv, TypeOK, Holders
  <2> QED
    BY <1>3, <2>2 DEF Release, MutualExclusion
<1>4. ASSUME NEW t \in Threads, SpuriousWakeup(t) PROVE MutualExclusion'
  BY <1>4, StaysOut DEF SpuriousWakeup
<1>5. CASE UNCHANGED vars
  BY <1>5 DEF vars, IndInv, MutualExclusion, Holders
<1> QED
  BY <1>1, <1>2, <1>3, <1>4, <1>5 DEF Next

LEMMA Inductive == Spec => []IndInv
<1>1. Init => IndInv
  BY TypeInit DEF IndInv, Init, MutualExclusion, Holders
<1>2. IndInv /\ [Next]_vars => IndInv'
  BY TypeNext, ExclusionNext DEF IndInv
<1> QED
  BY <1>1, <1>2, PTL DEF Spec

\* Two threads never hold the guard at the same time: a partition and its
\* sidecars have one writer, whatever wakeups the condition variable makes up.
THEOREM Excludes == Spec => []MutualExclusion
<1>1. IndInv => MutualExclusion
  BY DEF IndInv
<1> QED
  BY <1>1, Inductive, PTL

(***************************************************************************)
(* Sleeping and overtaking.                                                *)
(***************************************************************************)
LEMMA NonEmpty ==
  ASSUME TypeOK, pendingCompactions > 0
  PROVE  Queued # {}
BY FS_EmptySet DEF TypeOK

LEMMA NoneQueued ==
  ASSUME TypeOK, ~(pendingCompactions > 0)
  PROVE  Queued = {}
BY QueuedFinite, QueuedCount, FS_EmptySet DEF TypeOK

LEMMA WakeupNext == IndInv /\ NoLostWakeup /\ [Next]_vars => NoLostWakeup'
<1> SUFFICES ASSUME IndInv, NoLostWakeup, [Next]_vars PROVE NoLostWakeup'
  OBVIOUS
<1> USE ThreadsAssumption DEF IndInv, TypeOK, Threads
<1>1. ASSUME NEW t \in Threads, Acquire(t) \/ Retry(t) PROVE NoLostWakeup'
  <2>1. CASE active' = TRUE
    BY <2>1 DEF NoLostWakeup
  <2>2. CASE ~active'
    <3>1. /\ ~active /\ Blocked(t, pendingCompactions) /\ pc[t] \in {"idle", "woken"}
          /\ pc' = [pc EXCEPT ![t] = "waiting"]
      BY <1>1, <2>2 DEF Acquire, Retry, Wait, Hold, Blocked
    <3>2. t \in Reindexers /\ pendingCompactions > 0
      BY <3>1 DEF Blocked
    <3>3. PICK c \in Compactions : pc[c] \in {"waiting", "woken"}
      BY <3>2, NonEmpty DEF Queued
    <3>4. PICK d \in Compactions : pc[d] = "woken"
      BY <3>1, <3>3 DEF NoLostWakeup
    <3>5. pc'[d] = "woken"
      BY <3>1, <3>2, <3>4
    <3> QED
      BY <3>1, <3>2, <3>5 DEF NoLostWakeup
  <2> QED
    BY <1>1, <2>1, <2>2 DEF Acquire, Retry, Hold, Wait
<1>2. ASSUME NEW t \in Threads, Release(t) PROVE NoLostWakeup'
  BY <1>2 DEF Release, NoLostWakeup
<1>3. ASSUME NEW t \in Threads, SpuriousWakeup(t) PROVE NoLostWakeup'
  BY <1>3 DEF SpuriousWakeup, NoLostWakeup
<1>4. CASE UNCHANGED vars
  BY <1>4 DEF vars, NoLostWakeup
<1> QED
  BY <1>1, <1>2, <1>3, <1>4 DEF Next

\* While the guard is free, a thread sleeps only as a reindex that stepped back
\* for a compaction that is awake: no thread is forgotten by notify_all().
THEOREM ForgetsNobody == Spec => []NoLostWakeup
<1>1. Init => NoLostWakeup
  BY DEF Init, NoLostWakeup
<1> QED
  BY <1>1, Inductive, WakeupNext, PTL DEF Spec

\* No reindex is given the guard while a compaction waits for it.
THEOREM NeverOvertaken == Spec => CompactionFirst
<1> DEFINE First == \A r \in Reindexers :
                      pc[r] # "holding" /\ pc'[r] = "holding" => Queued = {}
<1>1. TypeOK /\ [Next]_vars => [First]_vars
  <2> SUFFICES ASSUME TypeOK, Next, NEW r \in Reindexers,
                      pc[r] # "holding", pc'[r] = "holding"
               PROVE  Queued = {}
    BY DEF vars
  <2>1. PICK t \in Threads : Acquire(t) \/ Retry(t) \/ Release(t) \/ SpuriousWakeup(t)
    BY DEF Next
  <2>2. t = r /\ ~Blocked(r, pendingCompactions)
    BY <2>1 DEF TypeOK, Acquire, Retry, Release, SpuriousWakeup, Hold, Wait, Threads
  <2> QED
    BY <2>2, NoneQueued DEF Blocked
<1>2. Spec => [][First]_vars
  BY <1>1, TypeCorrect, PTL DEF Spec
<1> QED
  BY <1>2 DEF CompactionFirst
=============================================================================
