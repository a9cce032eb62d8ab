--------------------- MODULE CompactionSchedulerProofs ---------------------
(***************************************************************************)
(* The compaction has one owner, for any number of appending threads, of   *)
(* callers of compact() and of spawned threads.                            *)
(***************************************************************************)
EXTENDS CompactionScheduler, TLAPS

IndInv == TypeOK /\ OneOwner

(***************************************************************************)
(* Types.                                                                  *)
(***************************************************************************)
LEMMA TypeInit == Init => TypeOK
<1> SUFFICES ASSUME Init PROVE TypeOK
  OBVIOUS
<1>1. hot \in 0..HotCap
  BY SchedulerAssumption DEF Init
<1>2. running \in BOOLEAN /\ pending \in BOOLEAN
  BY DEF Init
<1>3. pc \in [Procs -> OwnerPcs \cup {"idle", "cas", "pend", "swap2"}]
  BY DEF Init
<1>4. \A a \in Appenders : (pc[a] # "idle") <=> (lock = a)
  BY SchedulerAssumption DEF Init, Procs
<1> QED
  BY <1>1, <1>2, <1>3, <1>4 DEF Init, TypeOK

LEMMA AppendType ==
  ASSUME TypeOK, NEW a \in Appenders, AppendWrite(a) \/ AppendStep(a)
  PROVE  TypeOK'
<1> USE SchedulerAssumption DEF Procs, OwnerPcs, TypeOK
<1>1. CASE AppendWrite(a)
  BY <1>1 DEF AppendWrite, Longer, Goto
<1>2. CASE AppendCas(a)
  BY <1>2 DEF AppendCas, Goto
<1>3. CASE AppendRotate(a)
  <2>1. PICK r \in Runners : /\ pc[r] = "idle"
                             /\ pc' = [pc EXCEPT ![a] = "idle", ![r] = "compact"]
    BY <1>3 DEF AppendRotate, Spawn
  <2>2. r \notin Appenders /\ r \in Procs /\ a \in Procs
    OBVIOUS
  <2> QED
    BY <1>3, <2>1, <2>2 DEF AppendRotate
<1>4. CASE AppendRotateFails(a)
  <2>1. hot' \in 0..HotCap
    BY <1>4 DEF AppendRotateFails
  <2>2. pc' = [pc EXCEPT ![a] = "idle"] /\ lock' = Nobody /\ running' = FALSE
        /\ pending' = pending
    BY <1>4 DEF AppendRotateFails, Goto
  <2>3. \A b \in Appenders : (pc'[b] # "idle") <=> (lock' = b)
    BY <1>4, <2>2 DEF AppendRotateFails
  <2> QED
    BY <2>1, <2>2, <2>3
<1>5. CASE AppendPend(a)
  BY <1>5 DEF AppendPend, Goto
<1> QED
  BY <1>1, <1>2, <1>3, <1>4, <1>5 DEF AppendStep

LEMMA CompactType ==
  ASSUME TypeOK, NEW c \in Compactors, CompactCas(c) \/ CompactStep(c)
  PROVE  TypeOK'
<1> USE SchedulerAssumption DEF Procs, OwnerPcs, TypeOK
<1>0. c \notin Appenders /\ c \in Procs
  OBVIOUS
<1>1. CASE CompactCas(c) \/ CompactRun(c) \/ CompactRelease(c) \/ CompactSwap(c)
  BY <1>0, <1>1 DEF CompactCas, CompactRun, CompactRelease, CompactSwap, Goto
<1>3. CASE CompactRotate(c)
  <2>1. hot' \in 0..HotCap
    BY <1>3 DEF CompactRotate
  <2>2. PICK next \in {"release", "compact"} : pc' = [pc EXCEPT ![c] = next]
    BY <1>3 DEF CompactRotate, Goto
  <2>3. UNCHANGED <<lock, running, pending>>
    BY <1>3 DEF CompactRotate
  <2> QED
    BY <1>0, <2>1, <2>2, <2>3
<1>2. CASE CompactSpawn(c)
  <2>1. CASE running
    BY <1>0, <1>2, <2>1 DEF CompactSpawn, Goto
  <2>2. CASE ~running
    <3>1. PICK r \in Runners : /\ pc[r] = "idle"
                               /\ pc' = [pc EXCEPT ![c] = "idle", ![r] = "prepare"]
      BY <1>2, <2>2 DEF CompactSpawn, Spawn
    <3>2. r \notin Appenders /\ r \in Procs
      OBVIOUS
    <3> QED
      BY <1>0, <1>2, <2>2, <3>1, <3>2 DEF CompactSpawn
  <2> QED
    BY <2>1, <2>2
<1> QED
  BY <1>1, <1>2, <1>3 DEF CompactStep

LEMMA RunnerType ==
  ASSUME TypeOK, NEW r \in Runners, RunnerStep(r)
  PROVE  TypeOK'
<1> USE SchedulerAssumption DEF Procs, OwnerPcs, TypeOK
<1>0. r \notin Appenders /\ r \in Procs
  OBVIOUS
<1>1. CASE \/ RunnerCompact(r) \/ RunnerSwap(r) \/ RunnerRelease(r)
           \/ RunnerSwapAgain(r) \/ RunnerRetake(r) \/ RunnerQuit(r)
  BY <1>0, <1>1 DEF RunnerCompact, RunnerSwap, RunnerRelease, RunnerSwapAgain,
                    RunnerRetake, RunnerQuit, Goto
<1>2. CASE RunnerPrepare(r)
  <2>1. hot' \in 0..HotCap
    BY <1>2 DEF RunnerPrepare
  <2>2. PICK next \in {"quit", "compact"} : pc' = [pc EXCEPT ![r] = next]
    BY <1>2 DEF RunnerPrepare, Goto
  <2>3. UNCHANGED <<lock, running, pending>>
    BY <1>2 DEF RunnerPrepare
  <2> QED
    BY <1>0, <2>1, <2>2, <2>3
<1> QED
  BY <1>1, <1>2 DEF RunnerStep

LEMMA TypeNext == TypeOK /\ [Next]_vars => TypeOK'
<1>1. TypeOK /\ UNCHANGED vars => TypeOK'
  BY DEF TypeOK, vars
<1> QED
  BY <1>1, AppendType, CompactType, RunnerType DEF Next

\* Every reachable state is well typed, and a thread keeps the state lock
\* between two steps exactly while it decides on a compaction in append_packet.
THEOREM TypeCorrect == Spec => []TypeOK
BY TypeInit, TypeNext, PTL DEF Spec

(***************************************************************************)
(* One owner.  A step keeps it in one of four ways: the owners stay the    *)
(* same, a thread takes the compaction that nobody owns, the owner gives   *)
(* it up, or hands it over.                                                *)
(***************************************************************************)
LEMMA Stays ==
  ASSUME TypeOK, OneOwner, NEW p \in Procs, NEW next, Goto(p, next),
         pc[p] \in OwnerPcs <=> next \in OwnerPcs, running' = running
  PROVE  OneOwner'
BY DEF TypeOK, OneOwner, Owners, Goto

LEMMA Takes ==
  ASSUME TypeOK, OneOwner, ~running, NEW p \in Procs, NEW next \in OwnerPcs,
         Goto(p, next), running' = TRUE
  PROVE  OneOwner'
BY DEF TypeOK, OneOwner, Owners, Goto

LEMMA GivesUp ==
  ASSUME TypeOK, OneOwner, NEW p \in Owners, NEW next, next \notin OwnerPcs,
         Goto(p, next), running' = FALSE
  PROVE  OneOwner'
BY DEF TypeOK, OneOwner, Owners, Goto

LEMMA HandsOver ==
  ASSUME TypeOK, OneOwner, NEW p \in Procs, NEW next, next \notin OwnerPcs,
         NEW first \in OwnerPcs, Spawn(p, next, first), p \notin Runners,
         p \in Owners \/ ~running, running' = TRUE
  PROVE  OneOwner'
<1>1. PICK r \in Runners : /\ pc[r] = "idle"
                           /\ pc' = [pc EXCEPT ![p] = next, ![r] = first]
  BY DEF Spawn
<1>2. r \in Procs /\ r # p
  BY DEF Procs
<1>3. \A q \in Procs : q \in Owners' <=> q = r
  BY <1>1, <1>2 DEF TypeOK, OneOwner, Owners
<1> QED
  BY <1>2, <1>3 DEF OneOwner, Owners

LEMMA OwnerNext == IndInv /\ [Next]_vars => OneOwner'
<1> SUFFICES ASSUME TypeOK, OneOwner, [Next]_vars PROVE OneOwner'
  BY DEF IndInv
<1>1. ASSUME NEW a \in Appenders, AppendWrite(a) \/ AppendStep(a) PROVE OneOwner'
  <2>0. a \in Procs /\ a \notin Runners
    BY SchedulerAssumption DEF Procs
  <2>1. CASE AppendWrite(a)
    <3>1. CASE UNCHANGED pc
      BY <2>1, <3>1 DEF AppendWrite, OneOwner, Owners
    <3>2. CASE Goto(a, "cas")
      BY <2>0, <2>1, <3>2, Stays DEF AppendWrite, OwnerPcs
    <3> QED
      BY <2>1, <3>1, <3>2 DEF AppendWrite
  <2>2. CASE AppendCas(a)
    <3>1. CASE running
      BY <2>0, <2>2, <3>1, Stays DEF AppendCas, OwnerPcs
    <3>2. CASE ~running
      BY <2>0, <2>2, <3>2, Takes DEF AppendCas, OwnerPcs
    <3> QED
      BY <3>1, <3>2
  <2>3. CASE AppendRotate(a)
    <3>1. a \in Owners /\ running
      BY <2>0, <2>3 DEF AppendRotate, Owners, OwnerPcs, OneOwner
    <3> QED
      BY <2>0, <2>3, <3>1, HandsOver DEF AppendRotate, OwnerPcs, TypeOK
  <2>4. CASE AppendRotateFails(a)
    <3>1. a \in Owners
      BY <2>0, <2>4 DEF AppendRotateFails, Owners, OwnerPcs
    <3> QED
      BY <2>4, <3>1, GivesUp DEF AppendRotateFails, OwnerPcs
  <2>5. CASE AppendPend(a)
    BY <2>0, <2>5, Stays DEF AppendPend, OwnerPcs
  <2> QED
    BY <1>1, <2>1, <2>2, <2>3, <2>4, <2>5 DEF AppendStep
<1>2. ASSUME NEW c \in Compactors, CompactCas(c) \/ CompactStep(c) PROVE OneOwner'
  <2>0. c \in Procs /\ c \notin Runners
    BY SchedulerAssumption DEF Procs
  <2>1. CASE CompactCas(c)
    BY <2>0, <2>1, Takes DEF CompactCas, OwnerPcs
  <2>2. CASE CompactRotate(c) \/ CompactRun(c)
    BY <2>0, <2>2, Stays DEF CompactRotate, CompactRun, OwnerPcs
  <2>3. CASE CompactRelease(c)
    <3>1. c \in Owners
      BY <2>0, <2>3 DEF CompactRelease, Owners, OwnerPcs
    <3> QED
      BY <2>3, <3>1, GivesUp DEF CompactRelease, OwnerPcs
  <2>4. CASE CompactSwap(c)
    BY <2>0, <2>4, Stays DEF CompactSwap, OwnerPcs
  <2>5. CASE CompactSpawn(c)
    <3>1. CASE running
      BY <2>0, <2>5, <3>1, Stays DEF CompactSpawn, OwnerPcs
    <3>2. CASE ~running
      BY <2>0, <2>5, <3>2, HandsOver DEF CompactSpawn, OwnerPcs
    <3> QED
      BY <3>1, <3>2
  <2> QED
    BY <1>2, <2>1, <2>2, <2>3, <2>4, <2>5 DEF CompactStep
<1>3. ASSUME NEW r \in Runners, RunnerStep(r) PROVE OneOwner'
  <2>0. r \in Procs
    BY DEF Procs
  <2>1. CASE RunnerCompact(r) \/ RunnerSwap(r) \/ RunnerSwapAgain(r) \/ RunnerPrepare(r)
    BY <2>0, <2>1, Stays
       DEF RunnerCompact, RunnerSwap, RunnerSwapAgain, RunnerPrepare, OwnerPcs
  <2>2. CASE RunnerRelease(r) \/ RunnerQuit(r)
    <3>1. r \in Owners
      BY <2>0, <2>2 DEF RunnerRelease, RunnerQuit, Owners, OwnerPcs
    <3> QED
      BY <2>2, <3>1, GivesUp DEF RunnerRelease, RunnerQuit, OwnerPcs
  <2>3. CASE RunnerRetake(r)
    <3>1. CASE running
      BY <2>0, <2>3, <3>1, Stays DEF RunnerRetake, OwnerPcs
    <3>2. CASE ~running
      BY <2>0, <2>3, <3>2, Takes DEF RunnerRetake, OwnerPcs
    <3> QED
      BY <3>1, <3>2
  <2> QED
    BY <1>3, <2>1, <2>2, <2>3 DEF RunnerStep
<1>4. CASE UNCHANGED vars
  BY <1>4 DEF vars, OneOwner, Owners
<1> QED
  BY <1>1, <1>2, <1>3, <1>4 DEF Next

\* At every moment at most one thread owns the compaction, and compact_running
\* is set exactly while one does: no two threads rotate or merge at a time, and
\* the flag is never left set by a thread that has gone.
THEOREM OneOwnerAlways == Spec => []OneOwner
<1>1. Init => IndInv
  <2>1. Init => OneOwner
    BY DEF Init, OneOwner, Owners, OwnerPcs, Procs
  <2> QED
    BY <2>1, TypeInit DEF IndInv
<1>2. IndInv /\ [Next]_vars => IndInv'
  BY TypeNext, OwnerNext DEF IndInv
<1>3. IndInv => OneOwner
  BY DEF IndInv
<1> QED
  BY <1>1, <1>2, <1>3, PTL DEF Spec
=============================================================================
