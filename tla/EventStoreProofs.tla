-------------------------- MODULE EventStoreProofs --------------------------
(***************************************************************************)
(* The safety properties of EventStore, for every choice of its constants: *)
(* any number of events, days and compacting files, any number of workers, *)
(* inserts and faults.                                                     *)
(***************************************************************************)
EXTENDS EventStore, FiniteSetTheorems, WellFoundedInduction, TLAPS

(***************************************************************************)
(* Contents.                                                               *)
(***************************************************************************)

\* Merging two contents is a content with the events of both, and as many
\* packets as the two together (write_merged_packet keeps duplicates).
LEMMA PlusType ==
  ASSUME NEW a \in Content, NEW b \in Content
  PROVE  /\ Plus(a, b) \in Content
         /\ Plus(a, b).events = a.events \cup b.events
         /\ Plus(a, b).packets = a.packets + b.packets
BY DEF Plus, Content

LEMMA EmptyType == Empty \in Content /\ EmptyFile \in [Days -> Content]
BY DEF Empty, EmptyFile, Content

\* What an append writes: one packet more, on the day of the event.
LEMMA WriteType ==
  ASSUME TypeOK, NEW e \in Events
  PROVE  Write(e) \in [Days -> Content]
<1>1. DayOf[e] \in Days
  BY ConstantsAssumption
<1>2. [events |-> {e}, packets |-> 1] \in Content
  BY DEF Content
<1>3. hot[DayOf[e]] \in Content
  BY <1>1 DEF TypeOK
<1>4. Plus(hot[DayOf[e]], [events |-> {e}, packets |-> 1]) \in Content
  BY <1>2, <1>3, PlusType
<1> QED
  BY <1>1, <1>4 DEF Write, TypeOK

LEMMA WriteWellFormed ==
  ASSUME TypeOK, FilesInv, NEW e \in Events
  PROVE  WellFormed(Write(e))
<1> SUFFICES ASSUME NEW d \in Days, Write(e)[d].packets = 0
             PROVE  Write(e)[d] = Empty
  BY DEF WellFormed
<1>1. CASE d = DayOf[e]
  <2>1. Write(e)[d] = Plus(hot[d], [events |-> {e}, packets |-> 1])
    BY <1>1 DEF Write, TypeOK
  <2>2. hot[d] \in Content /\ [events |-> {e}, packets |-> 1] \in Content
    BY DEF TypeOK, Content
  <2>3. Write(e)[d].packets = hot[d].packets + 1 /\ hot[d].packets \in Nat
    BY <2>1, <2>2, PlusType DEF Content
  <2> QED
    BY <2>3
<1>2. CASE d # DayOf[e]
  BY <1>2 DEF Write, TypeOK, FilesInv, WellFormed
<1> QED
  BY <1>1, <1>2

(***************************************************************************)
(* Types.                                                                  *)
(***************************************************************************)
LEMMA TypeInit == Init => TypeOK
BY EmptyType, ConstantsAssumption
   DEF Init, TypeOK, AllIdle, Phases

LEMMA TypeNext == TypeOK /\ [Next]_vars => TypeOK'
<1> SUFFICES ASSUME TypeOK, [Next]_vars PROVE TypeOK'
  OBVIOUS
<1> USE ConstantsAssumption
<1>1. ASSUME NEW e \in Events, Append(e) PROVE TypeOK'
  BY <1>1, WriteType, EmptyType DEF Append, RotateTo, OnDisk, TypeOK
<1>2. CASE Rotate \/ RotateFails
  BY <1>2, EmptyType DEF Rotate, RotateFails, RotateTo, OnDisk, Fault, TypeOK
<1>3. CASE BeginMerge
  BY <1>3 DEF BeginMerge, TypeOK, disk, Phases
<1>4. ASSUME NEW d \in Days, TakeDay(d) \/ DayFails(d) PROVE TypeOK'
  BY <1>4 DEF TakeDay, DayFails, Busy, Fault, TypeOK, disk, Phases
<1>5. ASSUME NEW d \in Days, RenameEvents(d) PROVE TypeOK'
  <2>1. Plus(partition[d], compacting[job][d]) \in Content
    BY <1>5, PlusType DEF RenameEvents, TypeOK
  <2> QED
    BY <1>5, <2>1 DEF RenameEvents, TypeOK, Phases
<1>6. ASSUME NEW d \in Days, RenameSidecar(d) PROVE TypeOK'
  BY <1>6 DEF RenameSidecar, TypeOK, Phases
<1>7. ASSUME NEW d \in Days, MergeVisibility(d) PROVE TypeOK'
  BY <1>7 DEF MergeVisibility, TypeOK, Phases, Content
<1>8. CASE ReadFails \/ MergeSucceeds \/ MergeFails
  BY <1>8 DEF ReadFails, MergeSucceeds, MergeFails, Fault, TypeOK, disk, AllIdle, Phases
<1>9. CASE DropPath \/ RemoveFile \/ RemoveFileFails
  BY <1>9, EmptyType DEF DropPath, RemoveFile, RemoveFileFails, Fault, TypeOK, disk
<1>10. CASE Open \/ RemoveRecovered \/ RemoveRecoveredFails \/ FinishOpen
  BY <1>10, EmptyType
     DEF Open, RemoveRecovered, RemoveRecoveredFails, FinishOpen, Fault, TypeOK, disk
<1>11. ASSUME NEW f \in Files, Recover(f) PROVE TypeOK'
  BY <1>11 DEF Recover, TypeOK, disk
<1>12. CASE Crash
  BY <1>12 DEF Crash, Fault, TypeOK, disk, AllIdle, Phases
<1>13. ASSUME NEW d \in Days, Rebuild(d) \/ FindUnreadable(d) \/ RemoveSidecar(d)
       PROVE  TypeOK'
  BY <1>13 DEF Rebuild, FindUnreadable, RemoveSidecar, TypeOK, disk
<1>14. CASE FinishRebuild \/ RebuildFails
  BY <1>14 DEF FinishRebuild, RebuildFails, Fault, TypeOK, disk, Content
<1>15. CASE UNCHANGED vars
  BY <1>15 DEF vars, disk, memory, TypeOK
<1> QED
  BY <1>1, <1>2, <1>3, <1>4, <1>5, <1>6, <1>7, <1>8, <1>9, <1>10, <1>11, <1>12,
     <1>13, <1>14, <1>15
     DEF Next, MergeStep, OpenStep, RunStep, SidecarStep

\* Every reachable state of the store is well typed: a compaction has a file
\* exactly while it has a stage, and the guard is held by exactly the
\* compaction that merges or the rebuild that is under way.
THEOREM TypeCorrect == Spec => []TypeOK
<1>1. Init => TypeOK
  BY TypeInit
<1>2. TypeOK /\ [Next]_vars => TypeOK'
  BY TypeNext
<1> QED
  BY <1>1, <1>2, PTL DEF Spec

(***************************************************************************)
(* The inductive invariant, one conjunct at a time.                        *)
(***************************************************************************)

\* The only step that changes a file's content for something that is not empty
\* or another file's content is an append.
LEMMA FilesNext == TypeOK /\ FilesInv /\ [Next]_vars => FilesInv'
<1> SUFFICES ASSUME TypeOK, FilesInv, [Next]_vars PROVE FilesInv'
  OBVIOUS
<1>0. WellFormed(EmptyFile)
  BY DEF WellFormed, EmptyFile, Empty
<1>1. ASSUME NEW e \in Events, Append(e) PROVE FilesInv'
  <2>1. WellFormed(Write(e))
    BY WriteWellFormed
  <2>2. CASE hot' = Write(e) /\ UNCHANGED compacting
    BY <2>1, <2>2 DEF FilesInv, WellFormed
  <2>3. CASE \E f \in Files \ OnDisk : RotateTo(f, Write(e))
    BY <1>0, <2>1, <2>3 DEF RotateTo, FilesInv, WellFormed, TypeOK
  <2> QED
    BY <1>1, <2>2, <2>3 DEF Append
<1>2. CASE Rotate \/ RotateFails
  BY <1>0, <1>2 DEF Rotate, RotateFails, RotateTo, FilesInv, WellFormed, TypeOK
<1>3. CASE RemoveFile \/ RemoveRecovered
  BY <1>0, <1>3 DEF RemoveFile, RemoveRecovered, FilesInv, WellFormed, TypeOK
<1>4. CASE UNCHANGED <<hot, compacting>>
  BY <1>4 DEF FilesInv, WellFormed
<1> QED
  BY <1>1, <1>2, <1>3, <1>4
     DEF Next, MergeStep, OpenStep, RunStep, SidecarStep, BeginMerge, TakeDay,
         RenameEvents, RenameSidecar, MergeVisibility, DayFails, ReadFails,
         MergeSucceeds, MergeFails, DropPath, RemoveFileFails, Open, Recover,
         RemoveRecoveredFails, FinishOpen, Crash, Rebuild, FinishRebuild,
         RebuildFails, FindUnreadable, RemoveSidecar, vars, disk

\* Partitions and the LMDB only grow.
LEMMA Growth ==
  ASSUME TypeOK, [Next]_vars
  PROVE  /\ \A d \in Days : partition[d].events \subseteq partition'[d].events
         /\ summarized \subseteq summarized'
<1>1. ASSUME NEW d \in Days, RenameEvents(d)
      PROVE  /\ \A c \in Days : partition[c].events \subseteq partition'[c].events
             /\ summarized \subseteq summarized'
  BY <1>1, PlusType DEF RenameEvents, TypeOK
<1>2. CASE \/ FinishRebuild \/ \E d \in Days : MergeVisibility(d)
           \/ UNCHANGED <<partition, summarized>>
  BY <1>2 DEF FinishRebuild, MergeVisibility
<1> QED
  BY <1>1, <1>2
     DEF Next, MergeStep, OpenStep, RunStep, SidecarStep, BeginMerge, TakeDay,
         RenameSidecar, DayFails, ReadFails, MergeSucceeds, MergeFails, DropPath,
         RemoveFile, RemoveFileFails, Open, Recover, RemoveRecovered,
         RemoveRecoveredFails, FinishOpen, Crash, Rebuild, RebuildFails,
         FindUnreadable, RemoveSidecar, Append, Rotate, RotateFails, vars, disk

\* The phase of a day tells what has reached its partition and the LMDB.
LEMMA MergeNext ==
  TypeOK /\ MergeInv /\ [Next]_vars => MergeInv'
<1> SUFFICES ASSUME TypeOK, MergeInv, [Next]_vars PROVE MergeInv'
  OBVIOUS
<1>0. /\ \A d \in Days : partition[d].events \subseteq partition'[d].events
      /\ summarized \subseteq summarized'
  BY Growth
<1>1. CASE BeginMerge
  BY <1>1 DEF BeginMerge, MergeInv, TypeOK, disk
<1>2. ASSUME NEW d \in Days, RenameEvents(d) PROVE MergeInv'
  <2>1. job \in Files /\ stage = "merging" /\ stage' = "merging" /\ job' = job
        /\ compacting' = compacting
    BY <1>2 DEF RenameEvents, TypeOK
  <2>2. Merged(job, d)'
    <3>1. partition'[d].events = partition[d].events \cup compacting[job][d].events
      BY <1>2, <2>1, PlusType DEF RenameEvents, TypeOK
    <3> QED
      BY <2>1, <3>1 DEF Merged
  <2>3. \A c \in Days \ {d} : merge'[c] = merge[c]
    BY <1>2 DEF RenameEvents, TypeOK
  <2>4. merge'[d] = "renamed" /\ compacting[job][d] # Empty
    BY <1>2 DEF RenameEvents, TypeOK, MergeInv
  <2> QED
    BY <1>0, <2>1, <2>2, <2>3, <2>4 DEF MergeInv, Merged, Indexed
<1>3. ASSUME NEW d \in Days, MergeVisibility(d) PROVE MergeInv'
  BY <1>0, <1>3 DEF MergeVisibility, MergeInv, Merged, Indexed, TypeOK
<1>4. ASSUME NEW d \in Days, TakeDay(d) \/ DayFails(d) \/ RenameSidecar(d)
      PROVE  MergeInv'
  BY <1>4 DEF TakeDay, DayFails, RenameSidecar, Busy, MergeInv, Merged, Indexed, TypeOK, disk
<1>5. CASE MergeSucceeds
  <2>1. \A d \in Days : merge[d] \in {"idle", "done"}
    BY <1>5 DEF MergeSucceeds, Busy, Failed, Todo, TypeOK, Phases
  <2>2. \A d \in Days : Indexed(job, d)
    BY <1>5, <2>1 DEF MergeSucceeds, MergeInv, Indexed, Merged, Empty
  <2> QED
    BY <1>5, <2>2 DEF MergeSucceeds, MergeInv, Indexed, Merged, disk
<1>6. CASE \/ ReadFails \/ MergeFails \/ RemoveFile \/ RemoveFileFails \/ Crash
           \/ RemoveRecovered \/ RemoveRecoveredFails \/ \E f \in Files : Recover(f)
  BY <1>6 DEF ReadFails, MergeFails, RemoveFile, RemoveFileFails, Crash, Recover,
              RemoveRecovered, RemoveRecoveredFails, MergeInv
<1>7. CASE DropPath
  BY <1>7 DEF DropPath, MergeInv, Indexed, Merged, disk
<1>8. ASSUME NEW e \in Events, Append(e) PROVE MergeInv'
  BY <1>8 DEF Append, RotateTo, MergeInv, Indexed, Merged, TypeOK
<1>9. CASE Rotate
  BY <1>9 DEF Rotate, RotateTo, MergeInv
<1>10. CASE RotateFails
  BY <1>10 DEF RotateFails, MergeInv, TypeOK
<1>11. CASE FinishRebuild
  BY <1>0, <1>11 DEF FinishRebuild, MergeInv, Indexed, Merged
<1>12. CASE UNCHANGED <<compacting, partition, summarized, job, stage, merge>>
  BY <1>12 DEF MergeInv, Indexed, Merged
<1> QED
  BY <1>1, <1>2, <1>3, <1>4, <1>5, <1>6, <1>7, <1>8, <1>9, <1>10, <1>11, <1>12
     DEF Next, MergeStep, OpenStep, RunStep, SidecarStep, Open, FinishOpen, Rebuild,
         RebuildFails, FindUnreadable, RemoveSidecar, vars, disk, memory

\* A file a running store does not list is wholly in the partitions: it becomes
\* unlisted only after its merge, and open does not finish while one is left.
LEMMA PathNext ==
  TypeOK /\ MergeInv /\ PathInv /\ [Next]_vars => PathInv'
<1> SUFFICES ASSUME TypeOK, MergeInv, PathInv, [Next]_vars PROVE PathInv'
  OBVIOUS
<1>0. \A d \in Days : partition[d].events \subseteq partition'[d].events
  BY Growth
<1>e. \A d \in Days : EmptyFile[d].events = {}
  BY DEF EmptyFile, Empty
<1>1. ASSUME NEW content \in {hot, hot'}, NEW f \in Files, RotateTo(f, content),
             UNCHANGED <<partition, session, misplaced>>
      PROVE  PathInv'
  BY <1>1 DEF RotateTo, PathInv, Merged, TypeOK
<1>2. ASSUME NEW e \in Events, Append(e) PROVE PathInv'
  <2>1. ASSUME NEW f \in Files, RotateTo(f, Write(e)) PROVE PathInv'
    BY <1>2, <2>1 DEF Append, RotateTo, PathInv, Merged, TypeOK
  <2> QED
    BY <1>2, <2>1 DEF Append, PathInv, Merged
<1>3. CASE Rotate
  BY <1>1, <1>3 DEF Rotate
<1>4. CASE RotateFails
  BY <1>4 DEF RotateFails, PathInv, Merged, TypeOK
<1>5. ASSUME NEW d \in Days, RenameEvents(d) PROVE PathInv'
  BY <1>0, <1>5 DEF RenameEvents, PathInv, Merged
<1>6. CASE DropPath
  BY <1>6 DEF DropPath, PathInv, MergeInv, Indexed, Merged, TypeOK, disk
<1>7. CASE RemoveFile
  BY <1>e, <1>7 DEF RemoveFile, PathInv, Merged, TypeOK
<1>8. CASE RemoveRecovered \/ RemoveRecoveredFails \/ Open \/ Crash
  BY <1>8 DEF RemoveRecovered, RemoveRecoveredFails, Open, Crash, PathInv
<1>9. CASE FinishOpen
  BY <1>e, <1>9 DEF FinishOpen, OnDisk, PathInv, Merged, disk
<1>10. CASE MergeFails \/ ReadFails
  BY <1>10 DEF MergeFails, ReadFails, PathInv, Merged, TypeOK, disk
<1>11. CASE UNCHANGED <<compacting, partition, session, paths, misplaced>>
  BY <1>11 DEF PathInv, Merged
<1> QED
  BY <1>2, <1>3, <1>4, <1>5, <1>6, <1>7, <1>8, <1>9, <1>10, <1>11
     DEF Next, MergeStep, OpenStep, RunStep, SidecarStep, BeginMerge, TakeDay,
         RenameSidecar, MergeVisibility, DayFails, MergeSucceeds, RemoveFileFails,
         Recover, Rebuild, FinishRebuild, RebuildFails, FindUnreadable,
         RemoveSidecar, vars, disk, memory

\* A partition that is merged into gets longer, so a sidecar that was built
\* before is shorter from then on.
LEMMA SidecarNext ==
  TypeOK /\ FilesInv /\ MergeInv /\ SidecarInv /\ [Next]_vars => SidecarInv'
<1> SUFFICES ASSUME TypeOK, FilesInv, MergeInv, SidecarInv, [Next]_vars
             PROVE  SidecarInv'
  OBVIOUS
<1>1. ASSUME NEW d \in Days, RenameEvents(d) PROVE SidecarInv'
  <2>1. job \in Files /\ compacting[job][d] \in Content /\ partition[d] \in Content
    BY <1>1 DEF RenameEvents, TypeOK
  <2>2. compacting[job][d].packets \in Nat \ {0}
    BY <1>1, <2>1 DEF RenameEvents, MergeInv, FilesInv, WellFormed, Content
  <2>3. partition'[d].packets > partition[d].packets
    <3>1. partition'[d] = Plus(partition[d], compacting[job][d])
      BY <1>1 DEF RenameEvents, TypeOK
    <3>2. partition'[d].packets = partition[d].packets + compacting[job][d].packets
      BY <2>1, <3>1, PlusType
    <3> QED
      BY <2>1, <2>2, <3>2 DEF Content
  <2>4. ASSUME NEW c \in Days PROVE partition[c].packets \in Nat
    BY DEF TypeOK, Content
  <2>5. ASSUME NEW c \in Days, sidecar[c] # NoSidecar PROVE sidecar[c].packets \in Nat
    BY <2>5 DEF TypeOK, Content
  <2>6. \A c \in Days \ {d} : partition'[c] = partition[c]
    BY <1>1 DEF RenameEvents, TypeOK
  <2>7. partition'[d].packets \in Nat
    BY <1>1, <2>1, PlusType DEF RenameEvents, TypeOK, Content
  <2>8. sidecar' = sidecar
    BY <1>1 DEF RenameEvents
  <2> QED
    BY <2>3, <2>4, <2>5, <2>6, <2>7, <2>8 DEF SidecarInv, IsCurrent
<1>2. ASSUME NEW d \in Days, RenameSidecar(d) \/ Rebuild(d) PROVE SidecarInv'
  BY <1>2 DEF RenameSidecar, Rebuild, SidecarInv, IsCurrent, TypeOK, Content
<1>3. ASSUME NEW d \in Days, RemoveSidecar(d) PROVE SidecarInv'
  BY <1>3 DEF RemoveSidecar, SidecarInv, IsCurrent, TypeOK
<1>4. CASE UNCHANGED <<partition, sidecar>>
  BY <1>4 DEF SidecarInv, IsCurrent
<1> QED
  BY <1>1, <1>2, <1>3, <1>4
     DEF Next, MergeStep, OpenStep, RunStep, SidecarStep, BeginMerge, TakeDay,
         MergeVisibility, DayFails, ReadFails, MergeSucceeds, MergeFails, DropPath,
         RemoveFile, RemoveFileFails, Open, Recover, RemoveRecovered,
         RemoveRecoveredFails, FinishOpen, Crash, FinishRebuild, RebuildFails,
         FindUnreadable, Append, Rotate, RotateFails, vars, disk

\* A compacting file is removed only when the LMDB knows all its events.
LEMMA VisibilityNext ==
  TypeOK /\ MergeInv /\ VisibilityRecoverable /\ [Next]_vars => VisibilityRecoverable'
<1> SUFFICES ASSUME TypeOK, MergeInv, VisibilityRecoverable, [Next]_vars
             PROVE  VisibilityRecoverable'
  OBVIOUS
<1>0. summarized \subseteq summarized'
  BY Growth
<1>e. \A d \in Days : EmptyFile[d].events = {}
  BY DEF EmptyFile, Empty
<1>1. ASSUME NEW f \in Files \ OnDisk, NEW content,
             compacting' = [compacting EXCEPT ![f] = content],
             UNCHANGED <<partition, summarized>>
      PROVE  VisibilityRecoverable'
  BY <1>e, <1>1 DEF OnDisk, VisibilityRecoverable, TypeOK
<1>2. ASSUME NEW e \in Events, Append(e) PROVE VisibilityRecoverable'
  <2>1. CASE UNCHANGED compacting
    BY <1>2, <2>1 DEF Append, VisibilityRecoverable
  <2>2. CASE \E f \in Files \ OnDisk : RotateTo(f, Write(e))
    BY <1>1, <1>2, <2>2 DEF Append, RotateTo
  <2> QED
    BY <1>2, <2>1, <2>2 DEF Append
<1>3. CASE Rotate \/ RotateFails
  BY <1>1, <1>3 DEF Rotate, RotateFails, RotateTo
<1>4. ASSUME NEW d \in Days, RenameEvents(d) PROVE VisibilityRecoverable'
  <2>1. job \in Files /\ compacting[job][d] \in Content /\ partition[d] \in Content
    BY <1>4 DEF RenameEvents, TypeOK
  <2>2. partition'[d].events = partition[d].events \cup compacting[job][d].events
    BY <1>4, <2>1, PlusType DEF RenameEvents, TypeOK
  <2>3. \A c \in Days \ {d} : partition'[c] = partition[c]
    BY <1>4 DEF RenameEvents, TypeOK
  <2>4. compacting' = compacting /\ summarized' = summarized
    BY <1>4 DEF RenameEvents
  <2> QED
    BY <2>1, <2>2, <2>3, <2>4 DEF VisibilityRecoverable
<1>5. CASE RemoveFile \/ RemoveRecovered
  <2>1. job \in Files /\ \A d \in Days : compacting[job][d].events \subseteq summarized
    BY <1>5 DEF RemoveFile, RemoveRecovered, MergeInv, Indexed, TypeOK
  <2> QED
    BY <1>5, <2>1 DEF RemoveFile, RemoveRecovered, VisibilityRecoverable, TypeOK
<1>6. CASE FinishRebuild \/ \E d \in Days : MergeVisibility(d)
  BY <1>0, <1>6 DEF FinishRebuild, MergeVisibility, VisibilityRecoverable
<1>7. CASE UNCHANGED <<compacting, partition, summarized>>
  BY <1>7 DEF VisibilityRecoverable
<1> QED
  BY <1>2, <1>3, <1>4, <1>5, <1>6, <1>7
     DEF Next, MergeStep, OpenStep, RunStep, SidecarStep, BeginMerge, TakeDay,
         RenameSidecar, DayFails, ReadFails, MergeSucceeds, MergeFails, DropPath,
         RemoveFileFails, Open, Recover, RemoveRecoveredFails, FinishOpen, Crash,
         Rebuild, RebuildFails, FindUnreadable, RemoveSidecar, vars, disk

-----------------------------------------------------------------------------
LEMMA IndInit == Init => IndInv
<1> SUFFICES ASSUME Init PROVE IndInv
  OBVIOUS
<1>1. TypeOK
  BY TypeInit
<1>2. FilesInv /\ PathInv /\ SidecarInv /\ VisibilityRecoverable
  BY DEF Init, FilesInv, WellFormed, PathInv, SidecarInv, VisibilityRecoverable,
         EmptyFile, Empty
<1>3. MergeInv
  BY DEF Init, MergeInv
<1> QED
  BY <1>1, <1>2, <1>3 DEF IndInv

LEMMA IndNext == IndInv /\ [Next]_vars => IndInv'
BY TypeNext, FilesNext, MergeNext, PathNext, SidecarNext, VisibilityNext DEF IndInv

THEOREM Inductive == Spec => []IndInv
<1>1. Init => IndInv
  BY IndInit
<1>2. IndInv /\ [Next]_vars => IndInv'
  BY IndNext
<1> QED
  BY <1>1, <1>2, PTL DEF Spec

LEMMA IndHidesNothing == IndInv => NothingHidden
<1> SUFFICES ASSUME IndInv, session = "up", NEW e \in Durable
             PROVE  \/ e \in Readable
                    \/ \E f \in misplaced : Holds(compacting[f], e)
  BY DEF NothingHidden
<1>1. DayOf[e] \in Days /\ e \in Events
  BY ConstantsAssumption DEF Durable
<1>2. CASE Holds(hot, e) \/ Holds(partition, e)
  BY <1>1, <1>2 DEF Readable
<1>3. ASSUME NEW f \in Files, Holds(compacting[f], e), f \notin paths, f \notin misplaced
      PROVE  e \in Readable
  <2>1. compacting[f][DayOf[e]].events \subseteq partition[DayOf[e]].events
    BY <1>1, <1>3 DEF IndInv, PathInv, Merged
  <2> QED
    BY <1>1, <1>3, <2>1 DEF Readable, Holds
<1>4. ASSUME NEW f \in paths, Holds(compacting[f], e) PROVE e \in Readable
  BY <1>1, <1>4 DEF Readable
<1> QED
  BY <1>2, <1>3, <1>4 DEF Durable

\* Nothing on disk is hidden from the readers of a running store, however many
\* compactions failed before, except by a rotation that failed half way.
THEOREM HidesNothing == Spec => []NothingHidden
BY Inductive, IndHidesNothing, PTL

\* A sidecar that passes the length test of read_search_index_trusted describes
\* its partition, through any sequence of crashes and repeated merges.
THEOREM TrustsSidecars == Spec => []SidecarTrusted
<1>1. IndInv => SidecarTrusted
  BY DEF IndInv, SidecarInv, SidecarTrusted, IsCurrent
<1> QED
  BY Inductive, <1>1, PTL

\* What the visibility LMDB does not know of a partition is still in a file
\* that the next open merges again.
THEOREM RecoversVisibility == Spec => []VisibilityRecoverable
<1>1. IndInv => VisibilityRecoverable
  BY DEF IndInv
<1> QED
  BY Inductive, <1>1, PTL

(***************************************************************************)
(* Sums over the days.                                                     *)
(***************************************************************************)
\* Every set of numbers has a least one.
LEMMA Least ==
  ASSUME NEW T \in SUBSET Nat, T # {}
  PROVE  \E m \in T : \A k \in T : m <= k
<1>1. PICK m \in T : \A k \in T : <<k, m>> \notin OpToRel(<, Nat)
  BY NatLessThanWellFounded, WFMin
<1>2. ASSUME NEW k \in T, ~(m <= k) PROVE FALSE
  <2>1. k \in Nat /\ m \in Nat /\ k < m
    BY <1>2
  <2>2. <<k, m>> \in OpToRel(<, Nat)
    BY <2>1, Zenon DEF OpToRel
  <2> QED
    BY <1>1, <2>2
<1> QED
  BY <1>2

\* The fold takes the days of a set one by one.
Rest(S) == S \ {CHOOSE d \in S : TRUE}

LEMMA RestType ==
  ASSUME NEW S \in SUBSET Days
  PROVE  /\ Cardinality(S) \in Nat
         /\ S # {} => /\ (CHOOSE d \in S : TRUE) \in S
                      /\ Rest(S) \in SUBSET Days
                      /\ Cardinality(Rest(S)) = Cardinality(S) - 1
<1>1. IsFiniteSet(S) /\ Cardinality(S) \in Nat
  BY DaysAssumption, FS_Subset, FS_CardinalityType
<1>2. S # {} => (CHOOSE d \in S : TRUE) \in S
  OBVIOUS
<1> QED
  BY <1>1, <1>2, FS_RemoveElement DEF Rest

\* What holds of no days, and of a set if it holds of its rest, holds of all.
LEMMA DayByDay ==
  ASSUME NEW T, {} \in T,
         \A S \in SUBSET Days : S # {} /\ Rest(S) \in T => S \in T
  PROVE  SUBSET Days \subseteq T
<1> DEFINE Sizes == {Cardinality(S) : S \in (SUBSET Days) \ T}
<1>1. Sizes \in SUBSET Nat
  BY RestType
<1> SUFFICES ASSUME Sizes # {} PROVE FALSE
  OBVIOUS
<1>2. PICK m \in Sizes : \A k \in Sizes : m <= k
  <2> HIDE DEF Sizes
  <2> QED
    BY <1>1, Least
<1>3. PICK S \in (SUBSET Days) \ T : Cardinality(S) = m
  BY <1>2
<1>4. Rest(S) \in (SUBSET Days) \ T /\ Cardinality(Rest(S)) = m - 1 /\ m \in Nat
  BY <1>3, RestType
<1>5. m <= m - 1
  BY <1>2, <1>4
<1> QED
  BY <1>4, <1>5

Sums(s, file) ==
  s = [S \in SUBSET Days |->
         IF S = {} THEN 0 ELSE LET d == CHOOSE d \in S : TRUE IN file[d].packets + s[S \ {d}]]

LEMMA PacketsFold ==
  ASSUME NEW file \in [Days -> Content]
  PROVE  Packets(file) = (CHOOSE s : Sums(s, file))[Days]
BY DEF Packets, FoldFunction, FoldFunctionOnSet, MapThenFoldSet, Sums

LEMMA SumsAt ==
  ASSUME NEW file \in [Days -> Content], NEW s, Sums(s, file), NEW S \in SUBSET Days
  PROVE  s[S] = IF S = {} THEN 0 ELSE file[CHOOSE d \in S : TRUE].packets + s[Rest(S)]
BY DEF Sums, Rest

LEMMA SumsExist ==
  ASSUME NEW file \in [Days -> Content]
  PROVE  \E s : Sums(s, file)
<1> DEFINE Value(s, S) == IF S = {} THEN 0
                          ELSE file[CHOOSE d \in S : TRUE].packets + s[Rest(S)]
           UpTo(s, n) == \A S \in SUBSET Days : Cardinality(S) <= n => s[S] = Value(s, S)
           Missing == {n \in Nat : ~ \E s \in [SUBSET Days -> Nat] : UpTo(s, n)}
<1>1. \A S \in SUBSET Days : S # {} => file[CHOOSE d \in S : TRUE].packets \in Nat
  BY RestType DEF Content
<1>2. 0 \notin Missing
  <2> DEFINE s == [S \in SUBSET Days |-> 0]
  <2>1. ASSUME NEW S \in SUBSET Days, Cardinality(S) <= 0 PROVE S = {}
    BY <2>1, RestType, DaysAssumption, FS_Subset, FS_EmptySet
  <2>2. s \in [SUBSET Days -> Nat] /\ UpTo(s, 0)
    BY <2>1
  <2> QED
    BY <2>2
<1>3. ASSUME NEW n \in Nat, n \notin Missing PROVE n + 1 \notin Missing
  <2>1. PICK s \in [SUBSET Days -> Nat] : UpTo(s, n)
    BY <1>3
  <2> DEFINE t == [S \in SUBSET Days |-> Value(s, S)]
  <2>2. t \in [SUBSET Days -> Nat]
    <3> SUFFICES ASSUME NEW S \in SUBSET Days PROVE Value(s, S) \in Nat
      OBVIOUS
    <3>1. S # {} => s[Rest(S)] \in Nat
      BY RestType
    <3> QED
      BY <1>1, <3>1
  <2>3. ASSUME NEW S \in SUBSET Days, Cardinality(S) <= n + 1 PROVE t[S] = Value(t, S)
    <3>1. CASE S = {}
      BY <3>1
    <3>2. CASE S # {}
      <4>1. Rest(S) \in SUBSET Days /\ Cardinality(Rest(S)) <= n
        BY <2>3, <3>2, RestType
      <4>2. s[Rest(S)] = Value(s, Rest(S)) /\ t[Rest(S)] = Value(s, Rest(S))
        BY <2>1, <4>1
      <4>3. t[S] = Value(s, S)
        OBVIOUS
      <4> HIDE DEF t
      <4> QED
        BY <3>2, <4>2, <4>3
    <3> QED
      BY <3>1, <3>2
  <2> HIDE DEF t
  <2>4. UpTo(t, n + 1)
    BY <2>3
  <2> QED
    BY <2>2, <2>4
<1>4. Missing = {}
  <2> SUFFICES ASSUME Missing # {} PROVE FALSE
    OBVIOUS
  <2>1. PICK m \in Missing : \A k \in Missing : m <= k
    <3>1. Missing \in SUBSET Nat
      OBVIOUS
    <3> HIDE DEF Missing
    <3> QED
      BY <3>1, Least
  <2>2. m \in Nat
    OBVIOUS
  <2> HIDE DEF Missing
  <2>3. m # 0
    BY <1>2
  <2>4. m - 1 \in Nat /\ ~(m <= m - 1) /\ (m - 1) + 1 = m
    BY <2>2, <2>3
  <2> QED
    BY <1>3, <2>1, <2>4
<1>5. Cardinality(Days) \in Nat
  BY RestType
<1>6. PICK s \in [SUBSET Days -> Nat] : UpTo(s, Cardinality(Days))
  BY <1>4, <1>5
<1>7. \A S \in SUBSET Days : Cardinality(S) <= Cardinality(Days)
  BY DaysAssumption, FS_Subset
<1>8. s = [S \in SUBSET Days |-> s[S]]
  OBVIOUS
<1>9. \A S \in SUBSET Days : s[S] = Value(s, S)
  BY <1>6, <1>7
<1>10. Sums(s, file)
  BY <1>8, <1>9 DEF Sums, Rest
<1> QED
  BY <1>10

LEMMA PacketsSum ==
  ASSUME NEW file \in [Days -> Content]
  PROVE  \E s : Sums(s, file) /\ s \in [SUBSET Days -> Nat] /\ Packets(file) = s[Days]
<1>1. PICK s : Sums(s, file) /\ Packets(file) = s[Days]
  BY SumsExist, PacketsFold
<1> DEFINE T == {S \in SUBSET Days : s[S] \in Nat}
<1>3. {} \in T
  <2>1. s[{}] = 0
    BY <1>1, SumsAt
  <2> QED
    BY <2>1
<1>4. ASSUME NEW S \in SUBSET Days, S # {}, Rest(S) \in T PROVE S \in T
  BY <1>1, <1>4, SumsAt, RestType DEF Content
<1>5. SUBSET Days \subseteq T
  <2> HIDE DEF T
  <2> QED
    BY <1>3, <1>4, DayByDay
<1>6. s \in [SUBSET Days -> Nat]
  BY <1>1, <1>5 DEF Sums
<1> QED
  BY <1>1, <1>6

LEMMA PacketsType ==
  ASSUME NEW file \in [Days -> Content]
  PROVE  Packets(file) \in Nat
BY PacketsSum

\* No packets in an empty file.
LEMMA PacketsEmpty == Packets(EmptyFile) = 0
<1>1. EmptyFile \in [Days -> Content]
  BY EmptyType
<1>2. PICK s : Sums(s, EmptyFile) /\ s \in [SUBSET Days -> Nat] /\ Packets(EmptyFile) = s[Days]
  BY <1>1, PacketsSum
<1> DEFINE T == {S \in SUBSET Days : s[S] = 0}
<1>3. {} \in T
  <2>1. s[{}] = 0
    BY <1>1, <1>2, SumsAt
  <2> QED
    BY <2>1
<1>4. ASSUME NEW S \in SUBSET Days, S # {}, Rest(S) \in T PROVE S \in T
  <2>1. EmptyFile[CHOOSE d \in S : TRUE].packets = 0
    BY <1>4, RestType DEF EmptyFile, Empty
  <2> QED
    BY <1>1, <1>2, <1>4, <2>1, SumsAt
<1>5. SUBSET Days \subseteq T
  <2> HIDE DEF T
  <2> QED
    BY <1>3, <1>4, DayByDay
<1> QED
  BY <1>2, <1>5

\* Files that differ on one day have as many packets but for that day's.
LEMMA PacketsChange ==
  ASSUME NEW a \in [Days -> Content], NEW b \in [Days -> Content], NEW d \in Days,
         \A x \in Days \ {d} : a[x] = b[x]
  PROVE  /\ Packets(a) \in Nat /\ Packets(b) \in Nat
         /\ Packets(b) = Packets(a) - a[d].packets + b[d].packets
<1>1. PICK s : Sums(s, a) /\ s \in [SUBSET Days -> Nat] /\ Packets(a) = s[Days]
  BY PacketsSum
<1>2. PICK t : Sums(t, b) /\ t \in [SUBSET Days -> Nat] /\ Packets(b) = t[Days]
  BY PacketsSum
<1>3. \A x \in Days : a[x].packets \in Nat /\ b[x].packets \in Nat
  BY DEF Content
<1> DEFINE T == {S \in SUBSET Days :
                   t[S] = IF d \in S THEN s[S] - a[d].packets + b[d].packets ELSE s[S]}
<1>4. {} \in T
  BY <1>1, <1>2, SumsAt
<1>5. ASSUME NEW S \in SUBSET Days, S # {}, Rest(S) \in T PROVE S \in T
  <2> DEFINE x == CHOOSE x \in S : TRUE
  <2>1. x \in S /\ x \in Days /\ Rest(S) = S \ {x} /\ Rest(S) \in SUBSET Days
    BY <1>5, RestType DEF Rest
  <2>2. s[S] = a[x].packets + s[Rest(S)] /\ t[S] = b[x].packets + t[Rest(S)]
    BY <1>1, <1>2, <1>5, SumsAt
  <2>3. s[Rest(S)] \in Nat /\ t[Rest(S)] \in Nat
    BY <1>1, <1>2, <2>1
  <2> HIDE DEF x
  <2>4. CASE x = d
    <3>1. t[Rest(S)] = s[Rest(S)] /\ d \in S
      BY <1>5, <2>1, <2>4
    <3> QED
      BY <1>3, <2>1, <2>2, <2>3, <2>4, <3>1
  <2>5. CASE x # d
    <3>1. a[x] = b[x] /\ (d \in S <=> d \in Rest(S))
      BY <2>1, <2>5
    <3> QED
      BY <1>3, <1>5, <2>1, <2>2, <2>3, <3>1
  <2> QED
    BY <2>4, <2>5
<1>6. SUBSET Days \subseteq T
  <2> HIDE DEF T
  <2> QED
    BY <1>4, <1>5, DayByDay
<1> QED
  BY <1>1, <1>2, <1>6

(***************************************************************************)
(* Every append in exactly one place, as long as nothing fails.            *)
(***************************************************************************)
LEMMA OnceInit == Init => OnceInv
<1> SUFFICES ASSUME Init PROVE OnceInv
  OBVIOUS
<1>1. ToMerge = EmptyFile /\ hot = EmptyFile /\ partition = EmptyFile /\ inserts = 0
  BY DEF Init, ToMerge, Unmerged, EmptyFile
<1>2. Failed = {} /\ OnDisk = {}
  BY DEF Init, Failed, AllIdle, OnDisk
<1> QED
  BY <1>1, <1>2, PacketsEmpty DEF OnceInv, ExactlyOnce

\* Without a running compaction nothing is to be merged; while one runs, what
\* is still to be merged are parts of a file.
LEMMA ToMergeType ==
  ASSUME TypeOK
  PROVE  /\ ToMerge \in [Days -> Content]
         /\ stage \in {"none", "merged", "unlisted"} => ToMerge = EmptyFile
         /\ stage = "rotated" => ToMerge = compacting[job]
<1>1. stage \in {"rotated", "merging"} => job \in Files
  BY DEF TypeOK
<1>2. Empty \in Content
  BY EmptyType
<1>3. \A d \in Days : (IF Unmerged(d) THEN compacting[job][d] ELSE Empty) \in Content
  BY <1>1, <1>2 DEF Unmerged, TypeOK
<1>4. ToMerge \in [Days -> Content]
  BY <1>3 DEF ToMerge
<1>5. stage \in {"none", "merged", "unlisted"} => ToMerge = EmptyFile
  BY DEF ToMerge, Unmerged, EmptyFile
<1>6. ASSUME stage = "rotated" PROVE ToMerge = compacting[job]
  <2>1. compacting[job] = [d \in Days |-> compacting[job][d]]
    BY <1>1, <1>6 DEF TypeOK
  <2> QED
    BY <1>6, <2>1 DEF ToMerge, Unmerged
<1> QED
  BY <1>4, <1>5, <1>6

LEMMA WritePackets ==
  ASSUME TypeOK, NEW e \in Events
  PROVE  Packets(hot) \in Nat /\ Packets(Write(e)) = Packets(hot) + 1
<1> DEFINE one == [events |-> {e}, packets |-> 1]
<1>1. DayOf[e] \in Days /\ hot \in [Days -> Content] /\ Write(e) \in [Days -> Content]
  BY ConstantsAssumption, WriteType DEF TypeOK
<1>2. one \in Content /\ hot[DayOf[e]] \in Content /\ one.packets = 1
  BY <1>1 DEF Content
<1>3. Write(e)[DayOf[e]] = Plus(hot[DayOf[e]], one)
  BY <1>1 DEF Write
<1>4. \A x \in Days \ {DayOf[e]} : hot[x] = Write(e)[x]
  BY <1>1 DEF Write
<1>5. Write(e)[DayOf[e]].packets = hot[DayOf[e]].packets + 1 /\ hot[DayOf[e]].packets \in Nat
  <2> HIDE DEF one
  <2>1. Plus(hot[DayOf[e]], one).packets = hot[DayOf[e]].packets + 1
    BY <1>2, PlusType
  <2> QED
    BY <1>2, <1>3, <2>1 DEF Content
<1>6. /\ Packets(hot) \in Nat
      /\ Packets(Write(e)) = Packets(hot) - hot[DayOf[e]].packets + Write(e)[DayOf[e]].packets
  BY <1>1, <1>4, PacketsChange
<1> QED
  BY <1>5, <1>6

\* A rotation moves the packets of a content of the hot file, to be merged.
LEMMA RotationOnce ==
  ASSUME TypeOK, NEW content \in [Days -> Content], NEW f \in Files \ OnDisk,
         job = NoFile, RotateTo(f, content), OnDisk \subseteq {job}
  PROVE  /\ hot' = EmptyFile /\ ToMerge' = content
         /\ OnDisk' \subseteq {job'}
<1>1. job' = f /\ stage' = "rotated" /\ hot' = EmptyFile
  BY DEF RotateTo
<1>2. compacting' = [compacting EXCEPT ![f] = content] /\ compacting'[f] = content
  BY DEF RotateTo, TypeOK
<1>3. ToMerge' = content
  <2>1. content = [d \in Days |-> content[d]]
    OBVIOUS
  <2> QED
    BY <1>1, <1>2, <2>1 DEF ToMerge, Unmerged
<1>4. \A g \in Files \ {f} : compacting'[g] = compacting[g]
  BY <1>2 DEF TypeOK
<1>5. OnDisk = {}
  BY ConstantsAssumption DEF OnDisk
<1> QED
  BY <1>1, <1>3, <1>4, <1>5 DEF OnDisk

\* The rename of a day's events moves them from what is to be merged to the
\* partition.
LEMMA RenamePackets ==
  ASSUME TypeOK, NEW d \in Days, RenameEvents(d)
  PROVE  /\ ToMerge' \in [Days -> Content]
         /\ Packets(partition') + Packets(ToMerge') = Packets(partition) + Packets(ToMerge)
<1>1. job \in Files /\ stage = "merging" /\ merge[d] = "writing"
  BY DEF RenameEvents, TypeOK
<1>2. compacting[job] \in [Days -> Content] /\ compacting[job][d] \in Content
  BY <1>1 DEF TypeOK
<1>3. partition \in [Days -> Content] /\ partition[d] \in Content
  BY DEF TypeOK
<1>4. partition' = [partition EXCEPT ![d] = Plus(partition[d], compacting[job][d])]
  BY DEF RenameEvents
<1>5. /\ Plus(partition[d], compacting[job][d]) \in Content
      /\ Plus(partition[d], compacting[job][d]).packets
           = partition[d].packets + compacting[job][d].packets
  BY <1>2, <1>3, PlusType
<1>6. /\ partition' \in [Days -> Content]
      /\ \A x \in Days \ {d} : partition[x] = partition'[x]
      /\ partition'[d].packets = partition[d].packets + compacting[job][d].packets
  BY <1>3, <1>4, <1>5
<1>7. /\ ToMerge \in [Days -> Content] /\ ToMerge' \in [Days -> Content]
      /\ \A x \in Days \ {d} : ToMerge[x] = ToMerge'[x]
      /\ ToMerge[d] = compacting[job][d] /\ ToMerge'[d] = Empty
  <2>1. /\ stage' = stage /\ job' = job /\ compacting' = compacting
        /\ merge' = [merge EXCEPT ![d] = "renamed"] /\ merge \in [Days -> Phases]
    BY DEF RenameEvents, TypeOK
  <2>2. merge'[d] = "renamed" /\ \A x \in Days \ {d} : merge'[x] = merge[x]
    BY <2>1
  <2>3. Unmerged(d) /\ ~Unmerged(d)' /\ \A x \in Days \ {d} : Unmerged(x)' = Unmerged(x)
    BY <1>1, <2>1, <2>2 DEF Unmerged
  <2>4. ToMerge \in [Days -> Content]
    BY ToMergeType
  <2>5. ToMerge' = [ToMerge EXCEPT ![d] = Empty]
    BY <2>1, <2>3 DEF ToMerge
  <2>6. ToMerge[d] = compacting[job][d]
    BY <2>3 DEF ToMerge
  <2> QED
    BY <2>4, <2>5, <2>6, EmptyType
<1>8. /\ Packets(partition) \in Nat
      /\ Packets(partition') = Packets(partition) - partition[d].packets + partition'[d].packets
  BY <1>3, <1>6, PacketsChange
<1>9. /\ Packets(ToMerge) \in Nat
      /\ Packets(ToMerge') = Packets(ToMerge) - ToMerge[d].packets + ToMerge'[d].packets
  BY <1>7, PacketsChange
<1>10. partition[d].packets \in Nat /\ compacting[job][d].packets \in Nat /\ Empty.packets = 0
  BY <1>2, <1>3 DEF Content, Empty
<1> QED
  BY <1>6, <1>7, <1>8, <1>9, <1>10

LEMMA OnceNext == IndInv /\ OnceInv /\ [Next]_vars => OnceInv'
<1> DEFINE Sum == Packets(hot) + Packets(partition) + Packets(ToMerge)
           Goal == inserts' = Sum' /\ Failed' = {} /\ OnDisk' \subseteq {job'}
<1> SUFFICES ASSUME IndInv, OnceInv, [Next]_vars, faults' = 0 PROVE Goal
  BY DEF OnceInv, ExactlyOnce
<1>1. TypeOK /\ TypeOK'
  BY TypeNext DEF IndInv
<1>2. ToMerge \in [Days -> Content] /\ EmptyFile \in [Days -> Content]
  BY <1>1, ToMergeType, EmptyType
<1>3. Packets(hot) \in Nat /\ Packets(partition) \in Nat /\ Packets(ToMerge) \in Nat
  BY <1>1, <1>2, PacketsType DEF TypeOK
<1>4. faults # 0 => faults' # 0
  BY <1>1 DEF TypeOK, Next, MergeStep, OpenStep, RunStep, SidecarStep, Fault, vars,
     Append, Rotate, RotateFails, BeginMerge, TakeDay, RenameEvents,
     RenameSidecar, MergeVisibility, DayFails, ReadFails, MergeSucceeds, MergeFails, DropPath,
     RemoveFile, RemoveFileFails, Open, Recover, RemoveRecovered, RemoveRecoveredFails,
     FinishOpen, Crash, Rebuild, FinishRebuild, RebuildFails, FindUnreadable, RemoveSidecar
<1>5. faults = 0 /\ inserts = Sum /\ Failed = {} /\ OnDisk \subseteq {job}
  BY <1>4 DEF OnceInv, ExactlyOnce
<1>6. \A x \in Days : merge[x] # "failed"
  BY <1>5 DEF Failed
<1>7. ~Fault
  BY <1>5 DEF Fault
<1>8. ASSUME UNCHANGED <<hot, partition, compacting, job, stage, merge, inserts>> PROVE Goal
  BY <1>5, <1>8 DEF ToMerge, Unmerged, Failed, OnDisk
\* What leaves the files alone, and the kind of every day: merged or not.
<1>9. ASSUME UNCHANGED <<hot, partition, compacting, job, inserts>>,
             \A x \in Days : Unmerged(x)' <=> Unmerged(x), \A x \in Days : merge'[x] # "failed"
      PROVE  Goal
  <2>1. ToMerge' = ToMerge
    BY <1>9 DEF ToMerge
  <2> QED
    BY <1>5, <1>9, <2>1 DEF Failed, OnDisk
<1>10. ASSUME NEW e \in Events, Append(e) PROVE Goal
  <2>1. Packets(Write(e)) = Packets(hot) + 1 /\ Write(e) \in [Days -> Content]
    BY <1>1, WritePackets, WriteType
  <2>2. UNCHANGED <<partition, merge, faults>> /\ inserts' = inserts + 1
    BY <1>10 DEF Append
  <2>3. CASE hot' = Write(e) /\ UNCHANGED <<compacting, paths, job, stage>>
    <3>1. ToMerge' = ToMerge
      BY <2>2, <2>3 DEF ToMerge, Unmerged
    <3> QED
      BY <1>3, <1>5, <2>1, <2>2, <2>3, <3>1 DEF Failed, OnDisk
  <2>4. ASSUME job = NoFile, NEW f \in Files \ OnDisk, RotateTo(f, Write(e)) PROVE Goal
    <3>1. hot' = EmptyFile /\ ToMerge' = Write(e) /\ OnDisk' \subseteq {job'}
      BY <1>1, <1>5, <2>1, <2>4, RotationOnce
    <3>2. ToMerge = EmptyFile
      BY <1>1, <2>4, ToMergeType DEF TypeOK
    <3> QED
      BY <1>3, <1>5, <2>1, <2>2, <3>1, <3>2, PacketsEmpty DEF Failed
  <2> QED
    BY <1>10, <2>3, <2>4 DEF Append
<1>11. CASE Rotate
  <2>1. PICK f \in Files \ OnDisk : RotateTo(f, hot)
    BY <1>11 DEF Rotate
  <2>2. job = NoFile /\ UNCHANGED <<partition, merge, inserts>> /\ hot \in [Days -> Content]
    BY <1>1, <1>11 DEF Rotate, TypeOK
  <2>3. hot' = EmptyFile /\ ToMerge' = hot /\ OnDisk' \subseteq {job'}
    BY <1>1, <1>5, <2>1, <2>2, RotationOnce
  <2>4. ToMerge = EmptyFile
    BY <1>1, <2>2, ToMergeType DEF TypeOK
  <2> QED
    BY <1>3, <1>5, <2>2, <2>3, <2>4, PacketsEmpty DEF Failed
<1>12. CASE BeginMerge
  <2>1. UNCHANGED <<hot, partition, compacting, job, inserts>> /\ stage = "rotated"
        /\ stage' = "merging"
        /\ merge' = [d \in Days |-> IF compacting[job][d] = Empty THEN "idle" ELSE "todo"]
    BY <1>12 DEF BeginMerge, disk
  <2>2. \A x \in Days : /\ Unmerged(x)
                        /\ Unmerged(x)' <=> compacting[job][x] # Empty
    BY <2>1 DEF Unmerged
  <2>3. ToMerge' = ToMerge
    BY <2>1, <2>2 DEF ToMerge
  <2>4. Failed' = {}
    BY <2>1 DEF Failed
  <2> QED
    BY <1>5, <2>1, <2>3, <2>4 DEF OnDisk
<1>13. ASSUME NEW d \in Days, TakeDay(d) \/ RenameSidecar(d) \/ MergeVisibility(d) PROVE Goal
  <2>1. /\ UNCHANGED <<hot, partition, compacting, job, stage, inserts>> /\ stage = "merging"
        /\ merge \in [Days -> Phases]
        /\ \/ merge[d] = "todo" /\ merge' = [merge EXCEPT ![d] = "writing"]
           \/ merge[d] = "renamed" /\ merge' = [merge EXCEPT ![d] = "indexed"]
           \/ merge[d] = "indexed" /\ merge' = [merge EXCEPT ![d] = "done"]
    BY <1>1, <1>13 DEF TakeDay, RenameSidecar, MergeVisibility, disk, TypeOK
  <2>2. \A x \in Days : Unmerged(x)' <=> Unmerged(x)
    BY <2>1 DEF Unmerged
  <2>3. \A x \in Days : merge'[x] # "failed"
    BY <1>6, <2>1
  <2> QED
    BY <1>9, <2>1, <2>2, <2>3
<1>14. ASSUME NEW d \in Days, RenameEvents(d) PROVE Goal
  <2>1. /\ UNCHANGED <<hot, compacting, job, inserts>>
        /\ merge' = [merge EXCEPT ![d] = "renamed"] /\ merge \in [Days -> Phases]
    BY <1>1, <1>14 DEF RenameEvents, TypeOK
  <2>2. Packets(partition') + Packets(ToMerge') = Packets(partition) + Packets(ToMerge)
    BY <1>1, <1>14, RenamePackets
  <2>3. Failed' = {}
    BY <1>6, <2>1 DEF Failed
  <2>4. Packets(partition') \in Nat /\ Packets(ToMerge') \in Nat
    <3>1. ToMerge' \in [Days -> Content]
      BY <1>1, <1>14, RenamePackets
    <3>2. partition' \in [Days -> Content]
      BY <1>1 DEF TypeOK
    <3> QED
      BY <3>1, <3>2, PacketsType
  <2>5. Sum' = Packets(hot) + Packets(partition') + Packets(ToMerge')
    BY <2>1
  <2>6. Sum' = Sum
    <3> HIDE DEF Sum
    <3>1. Sum = Packets(hot) + Packets(partition) + Packets(ToMerge)
      BY DEF Sum
    <3> QED
      BY <1>3, <2>2, <2>4, <2>5, <3>1
  <2>7. OnDisk' \subseteq {job'}
    BY <1>5, <2>1 DEF OnDisk
  <2> QED
    BY <1>5, <2>1, <2>3, <2>6, <2>7
<1>15. CASE MergeSucceeds
  <2>1. /\ UNCHANGED <<hot, partition, compacting, job, inserts>>
        /\ stage = "merging" /\ stage' = "merged" /\ merge' = AllIdle
        /\ Busy = {} /\ Todo = {}
    BY <1>15 DEF MergeSucceeds, disk
  <2>2. \A x \in Days : ~Unmerged(x) /\ ~Unmerged(x)'
    BY <2>1 DEF Unmerged, Busy, Todo
  <2>3. \A x \in Days : merge'[x] # "failed"
    BY <2>1 DEF AllIdle
  <2> QED
    BY <1>9, <2>1, <2>2, <2>3
<1>16. CASE DropPath
  <2>1. /\ UNCHANGED <<hot, partition, compacting, job, merge, inserts>>
        /\ stage = "merged" /\ stage' = "unlisted"
    BY <1>16 DEF DropPath, disk
  <2>2. \A x \in Days : ~Unmerged(x) /\ ~Unmerged(x)'
    BY <2>1 DEF Unmerged
  <2> QED
    BY <1>6, <1>9, <2>1, <2>2
<1>17. CASE RemoveFile \/ RemoveRecovered
  <2>1. /\ UNCHANGED <<hot, partition, merge, inserts>>
        /\ stage \in {"merged", "unlisted"} /\ job \in Files
        /\ stage' = "none" /\ job' = NoFile
        /\ compacting' = [compacting EXCEPT ![job] = EmptyFile]
    BY <1>1, <1>17 DEF RemoveFile, RemoveRecovered, TypeOK
  <2>2. ToMerge' = ToMerge
    BY <2>1 DEF ToMerge, Unmerged
  <2>3. OnDisk' = {}
    BY <1>1, <1>5, <2>1 DEF OnDisk, TypeOK
  <2> QED
    BY <1>5, <2>1, <2>2, <2>3 DEF Failed
<1>18. ASSUME NEW f \in Files, Recover(f) PROVE Goal
  BY <1>5, <1>18, ConstantsAssumption DEF Recover
<1>19. ASSUME MergeFails PROVE Goal
  BY <1>5, <1>19 DEF MergeFails
<1>20. CASE Open \/ FinishOpen \/ FinishRebuild
  BY <1>8, <1>20 DEF Open, FinishOpen, FinishRebuild, disk
<1>21. ASSUME NEW d \in Days, Rebuild(d) \/ FindUnreadable(d) \/ RemoveSidecar(d) PROVE Goal
  BY <1>8, <1>21 DEF Rebuild, FindUnreadable, RemoveSidecar, disk
<1>22. CASE UNCHANGED vars
  BY <1>8, <1>22 DEF vars, disk, memory
<1>23. ~RotateFails /\ ~ReadFails /\ ~RemoveFileFails /\ ~RemoveRecoveredFails /\ ~RebuildFails
       /\ ~Crash /\ \A d \in Days : ~DayFails(d)
  BY <1>7 DEF RotateFails, ReadFails, RemoveFileFails, RemoveRecoveredFails, RebuildFails,
             Crash, DayFails
<1> HIDE DEF Goal
<1> QED
  BY <1>10, <1>11, <1>12, <1>13, <1>14, <1>15, <1>16, <1>17, <1>18, <1>19, <1>20, <1>21,
     <1>22, <1>23 DEF Next, MergeStep, OpenStep, RunStep, SidecarStep

\* Without faults every append is in exactly one place, in hot.events, in the
\* part of the compacting file that is still to be merged, or in a partition,
\* at every step of append_packet, rotate_hot_for_compaction and
\* merge_packets_into_partition: none is lost and none is copied.
THEOREM StoresExactlyOnce == Spec => []ExactlyOnce
<1>1. Init => IndInv /\ OnceInv
  BY IndInit, OnceInit
<1>2. (IndInv /\ OnceInv) /\ [Next]_vars => (IndInv /\ OnceInv)'
  BY IndNext, OnceNext
<1>3. IndInv /\ OnceInv => ExactlyOnce
  BY DEF OnceInv
<1> QED
  BY <1>1, <1>2, <1>3, PTL DEF Spec

(***************************************************************************)
(* EventStore implements DurableLog.                                       *)
(***************************************************************************)

\* An append adds its event to the events on disk and takes none away.
LEMMA AppendStores ==
  ASSUME IndInv, NEW e \in Events, Append(e)
  PROVE  Durable' = Durable \cup {e}
<1>0. TypeOK /\ DayOf \in [Events -> Days]
  BY ConstantsAssumption DEF IndInv
<1>1. \A a \in Events : Holds(Write(e), a) <=> Holds(hot, a) \/ a = e
  <2> SUFFICES ASSUME NEW a \in Events
               PROVE  Holds(Write(e), a) <=> Holds(hot, a) \/ a = e
    OBVIOUS
  <2>0. DayOf[a] \in Days /\ DayOf[e] \in Days
    BY <1>0
  <2>1. CASE DayOf[a] = DayOf[e]
    <3>1. Write(e)[DayOf[a]] = Plus(hot[DayOf[e]], [events |-> {e}, packets |-> 1])
      BY <1>0, <2>0, <2>1 DEF Write, TypeOK
    <3>2. Write(e)[DayOf[a]].events = hot[DayOf[a]].events \cup {e}
      BY <2>1, <3>1 DEF Plus
    <3> QED
      BY <3>2 DEF Holds
  <2>2. CASE DayOf[a] # DayOf[e]
    BY <1>0, <2>0, <2>2 DEF Write, Holds, TypeOK
  <2> QED
    BY <2>1, <2>2
<1>2. partition' = partition
  BY DEF Append
<1>3. CASE hot' = Write(e) /\ compacting' = compacting
  BY <1>1, <1>2, <1>3 DEF Durable, Holds
<1>4. ASSUME NEW f \in Files \ OnDisk, RotateTo(f, Write(e))
      PROVE  Durable' = Durable \cup {e}
  <2>1. \A a \in Events : ~Holds(compacting[f], a) /\ ~Holds(hot', a)
    BY <1>0, <1>4 DEF OnDisk, RotateTo, Holds, EmptyFile, Empty
  <2>2. \A a \in Events : \A g \in Files :
           Holds(compacting'[g], a) <=> \/ g = f /\ Holds(Write(e), a)
                                        \/ g # f /\ Holds(compacting[g], a)
    BY <1>0, <1>4 DEF RotateTo, Holds, TypeOK
  <2> QED
    BY <1>1, <1>2, <2>1, <2>2 DEF Durable, Holds
<1> QED
  BY <1>3, <1>4 DEF Append

\* A rotation moves the events of the hot file to a name that was free.
LEMMA RotationKeeps ==
  ASSUME TypeOK, NEW f \in Files \ OnDisk, UNCHANGED partition,
         compacting' = [compacting EXCEPT ![f] = hot], hot' = EmptyFile
  PROVE  Durable' = Durable
<1>0. DayOf \in [Events -> Days]
  BY ConstantsAssumption
<1>1. \A a \in Events : ~Holds(compacting[f], a) /\ ~Holds(hot', a)
  BY <1>0 DEF OnDisk, Holds, EmptyFile, Empty
<1>2. \A a \in Events : \A g \in Files :
         Holds(compacting'[g], a) <=> \/ g = f /\ Holds(hot, a)
                                      \/ g # f /\ Holds(compacting[g], a)
  BY <1>0 DEF Holds, TypeOK
<1> QED
  BY <1>1, <1>2 DEF Durable, Holds

\* A merge copies to the partition what its file still holds.
LEMMA MergeKeeps ==
  ASSUME TypeOK, NEW d \in Days, RenameEvents(d)
  PROVE  Durable' = Durable
<1>0. DayOf \in [Events -> Days] /\ job \in Files
  BY ConstantsAssumption DEF RenameEvents, TypeOK
<1>1. partition[d] \in Content /\ compacting[job][d] \in Content
  BY <1>0 DEF TypeOK
<1>2. partition'[d].events = partition[d].events \cup compacting[job][d].events
  BY <1>1, PlusType DEF RenameEvents, TypeOK
<1>3. \A c \in Days \ {d} : partition'[c] = partition[c]
  BY DEF RenameEvents, TypeOK
<1>4. hot' = hot /\ compacting' = compacting
  BY DEF RenameEvents
<1>5. \A a \in Events : Holds(partition', a) => Holds(partition, a) \/ Holds(compacting[job], a)
  BY <1>0, <1>2, <1>3 DEF Holds
<1>6. \A a \in Events : Holds(partition, a) => Holds(partition', a)
  BY <1>0, <1>2, <1>3 DEF Holds
<1> QED
  BY <1>0, <1>4, <1>5, <1>6 DEF Durable, Holds

\* A compacting file is removed when its events are in the partitions.
LEMMA RemovalKeeps ==
  ASSUME IndInv, RemoveFile \/ RemoveRecovered
  PROVE  Durable' = Durable
<1>0. DayOf \in [Events -> Days] /\ job \in Files
  BY ConstantsAssumption DEF RemoveFile, RemoveRecovered, IndInv, TypeOK
<1>1. \A a \in Events : Holds(compacting[job], a) => Holds(partition, a)
  BY <1>0 DEF RemoveFile, RemoveRecovered, IndInv, MergeInv, Indexed, Merged, Holds
<1>2. \A a \in Events : \A g \in Files :
         Holds(compacting'[g], a) <=> g # job /\ Holds(compacting[g], a)
  BY <1>0 DEF RemoveFile, RemoveRecovered, IndInv, TypeOK, Holds, EmptyFile, Empty
<1>3. hot' = hot /\ partition' = partition
  BY DEF RemoveFile, RemoveRecovered
<1> QED
  BY <1>1, <1>2, <1>3 DEF Durable, Holds

LEMMA StepImplements ==
  ASSUME IndInv, [Next]_vars
  PROVE  [DL!Next]_(DL!vars)
<1> USE DEF DL!vars
<1>1. ASSUME NEW e \in Events, Append(e) PROVE DL!Next
  <2>1. session = "up" /\ session' = "up"
    BY <1>1 DEF Append
  <2> QED
    BY <1>1, <2>1, AppendStores DEF DL!Next, DL!Store
<1>2. CASE Rotate \/ RotateFails
  <2>1. Durable' = Durable
    BY <1>2, RotationKeeps DEF Rotate, RotateFails, RotateTo, IndInv
  <2> QED
    BY <1>2, <2>1 DEF Rotate, RotateFails
<1>3. ASSUME NEW d \in Days, RenameEvents(d) PROVE UNCHANGED DL!vars
  BY <1>3, MergeKeeps DEF RenameEvents, IndInv
<1>4. CASE RemoveFile \/ RemoveRecovered
  BY <1>4, RemovalKeeps DEF RemoveFile, RemoveRecovered
<1>5. ASSUME UNCHANGED <<hot, compacting, partition>> PROVE Durable' = Durable
  BY <1>5 DEF Durable, Holds
<1>6. CASE FinishOpen
  BY <1>5, <1>6 DEF FinishOpen, disk, DL!Next, DL!Resume
<1>7. CASE Crash
  BY <1>5, <1>7 DEF Crash, disk, DL!Next, DL!Stop
<1>8. CASE Open \/ RemoveRecoveredFails \/ ReadFails \/ MergeFails
  BY <1>5, <1>8 DEF Open, RemoveRecoveredFails, ReadFails, MergeFails, disk, IndInv, TypeOK
<1>9. CASE UNCHANGED <<hot, compacting, partition, session>>
  BY <1>5, <1>9
<1> QED
  BY <1>1, <1>2, <1>3, <1>4, <1>6, <1>7, <1>8, <1>9
     DEF Next, MergeStep, OpenStep, RunStep, SidecarStep, BeginMerge, TakeDay,
         RenameSidecar, MergeVisibility, DayFails, MergeSucceeds, DropPath,
         RemoveFileFails, Recover, Rebuild, FinishRebuild, RebuildFails,
         FindUnreadable, RemoveSidecar, vars, disk, memory

\* The files and the steps of the store implement the durable log: no
\* rotation, compaction, failure, crash or reopening loses or invents an event.
THEOREM Implements == Spec => ImplementsDurableLog
<1>1. Init => DL!Init
  <2>1. ASSUME Init PROVE Durable = {}
    BY <2>1, ConstantsAssumption DEF Init, Durable, Holds, EmptyFile, Empty
  <2> QED
    BY <2>1 DEF Init, DL!Init
<1>2. IndInv /\ [Next]_vars => [DL!Next]_(DL!vars)
  BY StepImplements
<1> QED
  BY <1>1, <1>2, Inductive, PTL DEF Spec, ImplementsDurableLog, DL!Spec
=============================================================================
