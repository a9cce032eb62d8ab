------------------------ MODULE CompactionScheduler ------------------------
(***************************************************************************)
(* Who compacts the hot file, and when: the two flags compact_running and  *)
(* compact_pending, and the threads that pass a compaction on to one       *)
(* another through them (storage/hot.rs, storage/compaction.rs).           *)
(*                                                                         *)
(*   appenders   append_packet(), under the state lock                     *)
(*   compactors  callers of compact(), that compact in their own thread    *)
(*   runners     the threads spawned to run a compaction queue             *)
(*                                                                         *)
(* Every access to a flag is a step of its own; the state lock makes the   *)
(* write of a packet and the test of the file's length one step.  What a   *)
(* compaction does with its file is EventStore.                            *)
(***************************************************************************)
EXTENDS Integers, FiniteSets

CONSTANTS
  Appenders, Compactors, Runners,
  Nobody,
  MaxHot,           \* hot_events_max_bytes, in packets
  HotCap,           \* where the model stops telling hot lengths apart
  RotationMayFail   \* whether a rotation may return an error

Procs == Appenders \cup Compactors \cup Runners

ASSUME SchedulerAssumption ==
  /\ Appenders \cap Compactors = {} /\ Appenders \cap Runners = {}
  /\ Compactors \cap Runners = {} /\ Nobody \notin Procs
  /\ MaxHot \in Nat /\ HotCap \in Nat /\ MaxHot < HotCap
  /\ RotationMayFail \in BOOLEAN

VARIABLES
  hot,      \* length of hot.events, in packets
  lock,     \* the thread that keeps the state lock between two steps
  running,  \* compact_running
  pending,  \* compact_pending
  pc

vars == <<hot, lock, running, pending, pc>>

\* The places at which a thread owns the compaction: it has set
\* compact_running, or was spawned by the thread that did.
OwnerPcs == {"rotate", "compact", "swap1", "release", "prepare", "quit"}
Owners == {p \in Procs : pc[p] \in OwnerPcs}

Goto(p, next) == pc' = [pc EXCEPT ![p] = next]

\* The caller goes on at next and a new thread starts at first.
Spawn(p, next, first) ==
  \E r \in Runners : /\ pc[r] = "idle"
                     /\ pc' = [pc EXCEPT ![p] = next, ![r] = first]

Init ==
  /\ hot = 0 /\ lock = Nobody /\ running = FALSE /\ pending = FALSE
  /\ pc = [p \in Procs |-> "idle"]

(***************************************************************************)
(* append_packet                                                           *)
(***************************************************************************)
Longer == IF hot < HotCap THEN hot + 1 ELSE HotCap

\* Fault: the lock is given back before the decision.
AppendWriteUnlocked(a) ==
  /\ pc[a] = "idle" /\ lock = Nobody
  /\ hot' = Longer
  /\ \/ hot' <= MaxHot /\ UNCHANGED pc
     \/ hot' > MaxHot /\ Goto(a, "cas")
  /\ UNCHANGED <<lock, running, pending>>

\* Under the lock: write the packet, and stop here unless the file is too long.
AppendWrite(a) ==
  /\ pc[a] = "idle" /\ lock = Nobody
  /\ hot' = Longer
  /\ \/ hot' <= MaxHot /\ UNCHANGED <<lock, pc>>
     \/ hot' > MaxHot /\ lock' = a /\ Goto(a, "cas")
  /\ UNCHANGED <<running, pending>>

AppendCas(a) ==
  /\ pc[a] = "cas"
  /\ IF running THEN UNCHANGED running /\ Goto(a, "pend")
                ELSE running' = TRUE /\ Goto(a, "rotate")
  /\ UNCHANGED <<hot, lock, pending>>

AppendRotate(a) ==
  /\ pc[a] = "rotate"
  /\ hot' = 0 /\ lock' = Nobody
  /\ Spawn(a, "idle", "compact")
  /\ UNCHANGED <<running, pending>>

\* The error may come before or after the rename.
AppendRotateFails(a) ==
  /\ RotationMayFail /\ pc[a] = "rotate"
  /\ hot' \in {hot, 0} /\ lock' = Nobody
  /\ running' = FALSE /\ Goto(a, "idle")
  /\ UNCHANGED pending

\* Fault: this path keeps the lock.
AppendPendKeepingLock(a) ==
  /\ pc[a] = "pend"
  /\ pending' = TRUE /\ Goto(a, "idle")
  /\ UNCHANGED <<hot, lock, running>>

AppendPend(a) ==
  /\ pc[a] = "pend"
  /\ pending' = TRUE /\ lock' = Nobody /\ Goto(a, "idle")
  /\ UNCHANGED <<hot, running>>

(***************************************************************************)
(* compact().  A caller that finds compact_running set returns an error    *)
(* and changes nothing.                                                    *)
(***************************************************************************)
CompactCas(c) ==
  /\ pc[c] = "idle" /\ ~running
  /\ running' = TRUE /\ Goto(c, "rotate")
  /\ UNCHANGED <<hot, lock, pending>>

CompactRotate(c) ==
  /\ pc[c] = "rotate" /\ lock = Nobody
  /\ \/ hot = 0 /\ UNCHANGED hot /\ Goto(c, "release")
     \/ hot > 0 /\ hot' = 0 /\ Goto(c, "compact")
     \/ hot > 0 /\ RotationMayFail /\ hot' \in {hot, 0} /\ Goto(c, "release")
  /\ UNCHANGED <<lock, running, pending>>

CompactRun(c) ==
  /\ pc[c] = "compact"
  /\ Goto(c, "release")
  /\ UNCHANGED <<hot, lock, running, pending>>

CompactRelease(c) ==
  /\ pc[c] = "release"
  /\ running' = FALSE /\ Goto(c, "swap2")
  /\ UNCHANGED <<hot, lock, pending>>

CompactSwap(c) ==
  /\ pc[c] = "swap2"
  /\ pending' = FALSE
  /\ Goto(c, IF pending THEN "cas" ELSE "idle")
  /\ UNCHANGED <<hot, lock, running>>

CompactSpawn(c) ==
  /\ pc[c] = "cas"
  /\ IF running THEN UNCHANGED running /\ Goto(c, "idle")
                ELSE running' = TRUE /\ Spawn(c, "idle", "prepare")
  /\ UNCHANGED <<hot, lock, pending>>

(***************************************************************************)
(* run_compaction_queue and run_pending_compaction_queue.                  *)
(***************************************************************************)
RunnerCompact(r) ==
  /\ pc[r] = "compact"
  /\ Goto(r, "swap1")
  /\ UNCHANGED <<hot, lock, running, pending>>

RunnerSwap(r) ==
  /\ pc[r] = "swap1"
  /\ pending' = FALSE
  /\ Goto(r, IF pending THEN "prepare" ELSE "release")
  /\ UNCHANGED <<hot, lock, running>>

RunnerRelease(r) ==
  /\ pc[r] = "release"
  /\ running' = FALSE /\ Goto(r, "swap2")
  /\ UNCHANGED <<hot, lock, pending>>

\* The second look at compact_pending, for an append that came in between.
RunnerSwapAgain(r) ==
  /\ pc[r] = "swap2"
  /\ pending' = FALSE
  /\ Goto(r, IF pending THEN "cas" ELSE "idle")
  /\ UNCHANGED <<hot, lock, running>>

\* Fault: the thread goes on although another one is compacting.
RunnerRetakesAlways(r) ==
  /\ pc[r] = "cas"
  /\ running' = TRUE /\ Goto(r, "prepare")
  /\ UNCHANGED <<hot, lock, pending>>

RunnerRetake(r) ==
  /\ pc[r] = "cas"
  /\ IF running THEN UNCHANGED running /\ Goto(r, "idle")
                ELSE running' = TRUE /\ Goto(r, "prepare")
  /\ UNCHANGED <<hot, lock, pending>>

\* prepare_pending_compaction: Ok(Some), Ok(None) or an error.
RunnerPrepare(r) ==
  /\ pc[r] = "prepare" /\ lock = Nobody
  /\ \/ hot <= MaxHot /\ UNCHANGED hot /\ Goto(r, "quit")
     \/ hot > MaxHot /\ hot' = 0 /\ Goto(r, "compact")
     \/ hot > MaxHot /\ RotationMayFail /\ hot' \in {hot, 0} /\ Goto(r, "quit")
  /\ UNCHANGED <<lock, running, pending>>

\* Fault: the thread ends and leaves compact_running set.
RunnerQuitKeepingFlag(r) ==
  /\ pc[r] = "quit"
  /\ Goto(r, "idle")
  /\ UNCHANGED <<hot, lock, running, pending>>

RunnerQuit(r) ==
  /\ pc[r] = "quit"
  /\ running' = FALSE /\ Goto(r, "idle")
  /\ UNCHANGED <<hot, lock, pending>>

-----------------------------------------------------------------------------
AppendStep(a) == \/ AppendCas(a) \/ AppendRotate(a) \/ AppendRotateFails(a)
                 \/ AppendPend(a)
CompactStep(c) == \/ CompactRotate(c) \/ CompactRun(c) \/ CompactRelease(c)
                  \/ CompactSwap(c) \/ CompactSpawn(c)
RunnerStep(r) == \/ RunnerCompact(r) \/ RunnerSwap(r) \/ RunnerRelease(r)
                 \/ RunnerSwapAgain(r) \/ RunnerRetake(r) \/ RunnerPrepare(r)
                 \/ RunnerQuit(r)

Next ==
  \/ \E a \in Appenders : AppendWrite(a) \/ AppendStep(a)
  \/ \E c \in Compactors : CompactCas(c) \/ CompactStep(c)
  \/ \E r \in Runners : RunnerStep(r)

Spec == Init /\ [][Next]_vars

\* A thread that has begun a call or was spawned goes on; nobody is obliged to
\* begin one.  Waiting for the state lock is strongly fair: a thread that finds
\* it free again and again gets it.  So is spawning: the program never waits for
\* a free thread, only the finite set Runners makes the model wait.
FairSpec ==
  /\ Spec
  /\ \A a \in Appenders : WF_vars(AppendStep(a)) /\ SF_vars(AppendRotate(a))
  /\ \A c \in Compactors : /\ WF_vars(CompactStep(c))
                           /\ SF_vars(CompactRotate(c)) /\ SF_vars(CompactSpawn(c))
  /\ \A r \in Runners : WF_vars(RunnerStep(r)) /\ SF_vars(RunnerPrepare(r))

\* Under traffic: an append eventually begins whenever one can.
TrafficSpec == FairSpec /\ SF_vars(\E a \in Appenders : AppendWrite(a))

-----------------------------------------------------------------------------
(***************************************************************************)
(* Properties.                                                             *)
(***************************************************************************)

\* Types, and the state lock: a thread that keeps it between two steps is an
\* append that is deciding what to do about a hot file that is too long.
TypeOK ==
  /\ hot \in 0..HotCap /\ running \in BOOLEAN /\ pending \in BOOLEAN
  /\ pc \in [Procs -> OwnerPcs \cup {"idle", "cas", "pend", "swap2"}]
  /\ lock \in Appenders \cup {Nobody}
  /\ \A a \in Appenders : (pc[a] # "idle") <=> (lock = a)

\* The compaction has one owner at a time, and compact_running tells whether it
\* has one - through the hand-over from an append or a manual compaction to the
\* thread it spawns, and on every path that gives the compaction up.
\* EventStore begins a compaction only while none is in progress: this is why.
OneOwner ==
  /\ \A p, q \in Owners : p = q
  /\ running <=> Owners # {}

\* A call of compact(), once it owns the compaction, returns.
CompactReturns ==
  \A c \in Compactors : (pc[c] # "idle") ~> (pc[c] = "idle")

\* As long as events keep coming, a hot file that got too long is rotated,
\* unless rotations go on failing: no order of the flag accesses stops the
\* compactions for good.
RotationFails == \E p \in Procs : /\ pc[p] \in {"rotate", "prepare"} /\ hot > MaxHot
                                  /\ pc'[p] # pc[p] /\ hot' = hot
KeepsRotating == []<>(hot <= MaxHot) \/ []<><<RotationFails>>_vars

\* README.md:34 "When the hot file exceeds the configured size, storage rotates
\* and compacts it": without waiting for one more event to arrive.
OversizedIsRotated == (hot > MaxHot) ~> (hot <= MaxHot)
=============================================================================
