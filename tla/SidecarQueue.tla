---------------------------- MODULE SidecarQueue ----------------------------
(***************************************************************************)
(* SidecarUpdateQueue (storage/sidecar_queue.rs): the lock under which a   *)
(* partition and its sidecars are rewritten, by a compaction or by a       *)
(* reindex, and which lets a compaction that waits go first.  It is built  *)
(* from a mutex, that no thread keeps between two steps, and a condition   *)
(* variable, whose wait may also end for no reason.                        *)
(***************************************************************************)
EXTENDS Integers, FiniteSets

CONSTANTS
  Compactions,  \* threads that call acquire_compaction()
  Reindexers    \* threads that call acquire_reindex()

Threads == Compactions \cup Reindexers

ASSUME ThreadsAssumption ==
  /\ Compactions \cap Reindexers = {}
  /\ IsFiniteSet(Compactions) /\ IsFiniteSet(Reindexers)

VARIABLES
  active,              \* a guard exists
  pendingCompactions,  \* compactions that have called and have no guard yet
  pc                   \* "idle", "waiting" on the condvar, "woken", "holding"

vars == <<active, pendingCompactions, pc>>

Init ==
  /\ active = FALSE /\ pendingCompactions = 0
  /\ pc = [t \in Threads |-> "idle"]

\* Fault: a reindex does not look at the compactions that wait.
BlockedByGuardOnly(t, pending) == active

\* Fault: only the waiting compactions are looked at, not the guard.
BlockedByCountOnly(t, pending) == t \in Reindexers /\ pending > 0

\* The condition of acquire()'s while loop.
Blocked(t, pending) == active \/ (t \in Reindexers /\ pending > 0)

Hold(t) == active' = TRUE /\ pc' = [pc EXCEPT ![t] = "holding"]
Wait(t) == UNCHANGED active /\ pc' = [pc EXCEPT ![t] = "waiting"]

\* acquire() up to its first wait: a compaction counts itself, and if it need
\* not wait it takes itself off the count in the same critical section.
Acquire(t) ==
  /\ pc[t] = "idle"
  /\ \/ /\ Blocked(t, pendingCompactions)
        /\ pendingCompactions' = IF t \in Compactions THEN pendingCompactions + 1
                                                      ELSE pendingCompactions
        /\ Wait(t)
     \/ /\ ~Blocked(t, pendingCompactions)
        /\ UNCHANGED pendingCompactions
        /\ Hold(t)

\* Fault: a compaction that waited stays on the count.
RetryForgettingCount(t) ==
  /\ pc[t] = "woken"
  /\ IF Blocked(t, pendingCompactions) THEN Wait(t) ELSE Hold(t)
  /\ UNCHANGED pendingCompactions

\* The wait has returned with the mutex; the loop looks at its condition again.
Retry(t) ==
  /\ pc[t] = "woken"
  /\ \/ /\ Blocked(t, pendingCompactions)
        /\ UNCHANGED pendingCompactions
        /\ Wait(t)
     \/ /\ ~Blocked(t, pendingCompactions)
        /\ pendingCompactions' = IF t \in Compactions THEN pendingCompactions - 1
                                                      ELSE pendingCompactions
        /\ Hold(t)

\* Fault: one waiting thread is notified, whichever.
ReleaseOne(t) ==
  /\ pc[t] = "holding"
  /\ active' = FALSE
  /\ LET waiting == {u \in Threads : pc[u] = "waiting"} IN
     \/ waiting = {} /\ pc' = [pc EXCEPT ![t] = "idle"]
     \/ \E u \in waiting : pc' = [pc EXCEPT ![t] = "idle", ![u] = "woken"]
  /\ UNCHANGED pendingCompactions

\* The guard is dropped: notify_all().
Release(t) ==
  /\ pc[t] = "holding"
  /\ active' = FALSE
  /\ pc' = [u \in Threads |-> IF u = t THEN "idle"
                              ELSE IF pc[u] = "waiting" THEN "woken" ELSE pc[u]]
  /\ UNCHANGED pendingCompactions

SpuriousWakeup(t) ==
  /\ pc[t] = "waiting"
  /\ pc' = [pc EXCEPT ![t] = "woken"]
  /\ UNCHANGED <<active, pendingCompactions>>

Next == \E t \in Threads : Acquire(t) \/ Retry(t) \/ Release(t) \/ SpuriousWakeup(t)

Spec == Init /\ [][Next]_vars

\* A woken thread gets the mutex back and the work under the guard ends.
\* Nobody is obliged to call acquire, and no wakeup may be counted upon except
\* those of notify_all.
FairSpec == Spec /\ \A t \in Threads : WF_vars(Retry(t)) /\ WF_vars(Release(t))

-----------------------------------------------------------------------------
(***************************************************************************)
(* Properties.                                                             *)
(***************************************************************************)
Holders == {t \in Threads : pc[t] = "holding"}
Queued  == {c \in Compactions : pc[c] \in {"waiting", "woken"}}

\* Types, and the counter: pending_compactions is the number of compactions
\* that have called and have no guard.
TypeOK ==
  /\ active \in BOOLEAN
  /\ pc \in [Threads -> {"idle", "waiting", "woken", "holding"}]
  /\ pendingCompactions = Cardinality(Queued)

\* One guard at a time, and active says whether there is one.
MutualExclusion ==
  /\ \A t, u \in Holders : t = u
  /\ active <=> Holders # {}

\* Nobody sleeps on a guard that is free, unless it is a reindex that stepped
\* back for a compaction that is awake and will notify it when it is done:
\* notify_all is needed, and the reindexers that lose the race are not forgotten.
NoLostWakeup ==
  ~active => \A t \in Threads : pc[t] = "waiting" =>
               t \in Reindexers /\ \E c \in Compactions : pc[c] = "woken"

\* A reindex never takes the guard past a compaction that has asked for it.
CompactionFirst ==
  [][\A r \in Reindexers : pc[r] # "holding" /\ pc'[r] = "holding" => Queued = {}]_vars

\* A compaction that asks for the guard gets it, whatever the reindexers do.
\* There is one compaction at a time (CompactionScheduler), hence no other
\* compaction to overtake it.
CompactionServed == \A c \in Compactions : (c \in Queued) ~> (pc[c] = "holding")
=============================================================================
