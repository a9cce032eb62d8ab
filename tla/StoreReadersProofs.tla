-------------------------- MODULE StoreReadersProofs --------------------------
(***************************************************************************)
(* What a reader finds, for any number of events, days and compacting      *)
(* files, and any number of inserts, compactions, faults and repairs while *)
(* it reads.                                                               *)
(***************************************************************************)
EXTENDS StoreReaders, EventStoreProofs

(***************************************************************************)
(* The store beside the reader.                                            *)
(***************************************************************************)

\* The reader's own removal of a sidecar is the only thing it does to the
\* store that the store does not do by itself.
StoreStep == Next \/ UNCHANGED vars \/ \E d \in Days : Remove(d)

LEMMA StepsOfStore == NextR => StoreStep
  BY DEF NextR, Begin, SnapshotStep, ScanFirst, ReadHot, ClonePaths, ReadCompacting,
         FinishSnapshot, ListDays, DayStep, AllDays, ScanDay, Probe, Bloom, BloomAgain,
         ReadIndex, ReadIndexAgain, OpenAndSearch, RepairStep, BeginRepair, FinishRepair,
         RepairFails, RepairRefused, Beside, CrashR, StoreStep, Next, SidecarStep

LEMMA RemoveKeepsStore ==
  ASSUME IndInv, NEW d \in Days, Remove(d)
  PROVE  IndInv'
  <1>1. /\ sidecar' = [sidecar EXCEPT ![d] = NoSidecar]
        /\ UNCHANGED <<hot, compacting, partition, summarized, memory, inserts, faults>>
    BY DEF Remove
  <1>2. TypeOK'
    BY <1>1 DEF IndInv, TypeOK, memory
  <1>3. SidecarInv'
    BY <1>1 DEF IndInv, TypeOK, SidecarInv, IsCurrent
  <1>4. FilesInv' /\ MergeInv' /\ PathInv' /\ VisibilityRecoverable'
    BY <1>1 DEF IndInv, FilesInv, WellFormed, MergeInv, Indexed, Merged, PathInv,
                VisibilityRecoverable, memory
  <1> QED BY <1>2, <1>3, <1>4 DEF IndInv

LEMMA StoreInductive == IndInv /\ [NextR]_<<vars, rvars>> => IndInv'
  <1> SUFFICES ASSUME IndInv, [NextR]_<<vars, rvars>> PROVE IndInv'
    OBVIOUS
  <1>1. CASE [Next]_vars
    BY <1>1, IndNext
  <1>2. CASE \E d \in Days : Remove(d)
    BY <1>2, RemoveKeepsStore
  <1> QED BY <1>1, <1>2, StepsOfStore DEF StoreStep

\* What is on disk stays there, and what is in a partition stays in it.
LEMMA NothingGoes ==
  ASSUME IndInv, StoreStep
  PROVE  /\ Durable \subseteq Durable'
         /\ \A e \in Events : Holds(partition, e) => Holds(partition', e)
  <1>1. CASE [Next]_vars
    <2>1. Durable \subseteq Durable'
      BY <1>1, StepImplements DEF DL!Next, DL!vars, DL!Store, DL!Resume, DL!Stop
    <2>2. \A d \in Days : partition[d].events \subseteq partition'[d].events
      BY <1>1, Growth DEF IndInv
    <2> QED BY <2>1, <2>2, ConstantsAssumption DEF Holds
  <1>2. ASSUME NEW d \in Days, Remove(d)
        PROVE  UNCHANGED <<hot, compacting, partition>>
    BY <1>2 DEF Remove
  <1>3. CASE \E d \in Days : Remove(d)
    BY <1>2, <1>3 DEF Durable, Holds
  <1> QED BY <1>1, <1>3 DEF StoreStep

LEMMA MisplacedNext ==
  ASSUME IndInv, MisplacedInv, StoreStep
  PROVE  /\ MisplacedInv'
         /\ session = "up" /\ session' = "up" =>
              \A e \in Events : Misplaced(e) => Misplaced(e)'
  <1> DEFINE Stays == /\ misplaced \subseteq misplaced'
                      /\ \A f \in misplaced : compacting'[f] = compacting[f]
  <1>t. TypeOK
    BY DEF IndInv
  <1>0. ASSUME Stays PROVE \A e \in Events : Misplaced(e) => Misplaced(e)'
    BY <1>0 DEF Misplaced, Holds
  <1>1. ASSUME NEW f \in Files \ OnDisk, NEW content, RotateTo(f, content),
               job = NoFile, UNCHANGED <<session, misplaced>>
        PROVE  MisplacedInv' /\ Stays
    BY <1>t, <1>1 DEF RotateTo, MisplacedInv, OnDisk, TypeOK
  <1>2. ASSUME NEW e \in Events, Append(e) PROVE MisplacedInv' /\ Stays
    <2>1. CASE UNCHANGED <<compacting, paths, job, stage>>
      BY <1>2, <2>1 DEF Append, MisplacedInv, OnDisk
    <2>2. CASE job = NoFile /\ \E f \in Files \ OnDisk : RotateTo(f, Write(e))
      BY <1>1, <1>2, <2>2 DEF Append
    <2> QED BY <1>2, <2>1, <2>2 DEF Append
  <1>3. ASSUME Rotate PROVE MisplacedInv' /\ Stays
    BY <1>1, <1>3 DEF Rotate
  <1>4. ASSUME RotateFails PROVE MisplacedInv' /\ Stays
    BY <1>t, <1>4, ConstantsAssumption DEF RotateFails, MisplacedInv, OnDisk, TypeOK
  <1>5. ASSUME RemoveFile \/ RemoveRecovered PROVE MisplacedInv' /\ Stays
    BY <1>t, <1>5, ConstantsAssumption
       DEF RemoveFile, RemoveRecovered, MisplacedInv, OnDisk, TypeOK
  <1>6. ASSUME UNCHANGED <<compacting, misplaced, job, session>> PROVE MisplacedInv' /\ Stays
    BY <1>6 DEF MisplacedInv, OnDisk
  <1>7. ASSUME ReadFails \/ MergeFails \/ RemoveFileFails \/ RemoveRecoveredFails PROVE MisplacedInv' /\ Stays
    BY <1>t, <1>7, ConstantsAssumption
       DEF ReadFails, MergeFails, RemoveFileFails, RemoveRecoveredFails, MisplacedInv,
           OnDisk, TypeOK, disk
  <1>8. ASSUME Open \/ FinishOpen \/ \E f \in Files : Recover(f) PROVE MisplacedInv' /\ Stays
    BY <1>8 DEF Open, FinishOpen, Recover, MisplacedInv, OnDisk, disk
  <1>9. ASSUME Crash PROVE MisplacedInv' /\ session' = "down"
    BY <1>t, <1>9, ConstantsAssumption DEF Crash, MisplacedInv, TypeOK, OnDisk, disk
  <1> QED
    BY <1>0, <1>2, <1>3, <1>4, <1>5, <1>6, <1>7, <1>8, <1>9
       DEF StoreStep, Remove, Next, MergeStep, OpenStep, RunStep, SidecarStep, BeginMerge,
           TakeDay, RenameEvents, RenameSidecar, MergeVisibility, DayFails, MergeSucceeds,
           DropPath, Rebuild, FinishRebuild, RebuildFails, FindUnreadable, RemoveSidecar,
           Crash, vars, disk, memory

\* A file that is listed goes away only when what it holds is in the partitions.
LEMMA FilesGoToPartitions ==
  ASSUME IndInv, StoreStep, session = "up"
  PROVE  \A f \in Files : \A e \in Events :
           Holds(compacting[f], e) => Holds(compacting'[f], e) \/ Holds(partition', e)
  <1>t. TypeOK /\ DayOf \in [Events -> Days]
    BY ConstantsAssumption DEF IndInv
  <1>0. \A e \in Events : Holds(partition, e) => Holds(partition', e)
    BY NothingGoes
  <1> DEFINE Stays == \A f \in Files : \A e \in Events :
                        Holds(compacting[f], e) => Holds(compacting'[f], e)
  <1>1. ASSUME NEW f \in Files \ OnDisk, NEW content,
               compacting' = [compacting EXCEPT ![f] = content]
        PROVE  Stays
    BY <1>t, <1>1 DEF OnDisk, EmptyFile, Empty, Holds, TypeOK
  <1>2. ASSUME NEW e \in Events, Append(e) PROVE Stays
    BY <1>1, <1>2 DEF Append, RotateTo
  <1>3. ASSUME Rotate \/ RotateFails PROVE Stays
    BY <1>1, <1>3 DEF Rotate, RotateFails, RotateTo
  <1>4. CASE RemoveFile
    <2>1. job \in Files /\ \A d \in Days : compacting[job][d].events \subseteq partition[d].events
      BY <1>t, <1>4 DEF RemoveFile, IndInv, MergeInv, Indexed, Merged, TypeOK
    <2>2. \A e \in Events : Holds(compacting[job], e) => Holds(partition, e)
      BY <1>t, <2>1 DEF Holds
    <2>3. \A f \in Files \ {job} : compacting'[f] = compacting[f]
      BY <1>t, <1>4 DEF RemoveFile, TypeOK
    <2> QED BY <1>0, <2>2, <2>3
  <1>5. ASSUME RemoveRecovered PROVE FALSE
    BY <1>5 DEF RemoveRecovered
  <1>6. CASE UNCHANGED compacting
    BY <1>6
  <1> QED
    BY <1>2, <1>3, <1>4, <1>5, <1>6
       DEF StoreStep, Remove, Next, MergeStep, OpenStep, RunStep, SidecarStep, BeginMerge,
           TakeDay, RenameEvents, RenameSidecar, MergeVisibility, DayFails, ReadFails,
           MergeSucceeds, MergeFails, DropPath, RemoveFileFails, Open, Recover,
           RemoveRecoveredFails, FinishOpen, Crash, Rebuild, FinishRebuild, RebuildFails,
           FindUnreadable, RemoveSidecar, vars, disk

\* Beside a reader the store stays up, and nothing is written to hot.events
\* while the reader holds the state lock.
LEMMA BesideKeepsUp ==
  ASSUME Beside, session = "up"
  PROVE  session' = "up" /\ (HoldsLock => hot' = hot)
  BY DEF Beside, MergeStep, OpenStep, RunStep, SidecarStep, Append, Rotate, RotateFails,
         DropPath, RemoveFile, RemoveFileFails, BeginMerge, TakeDay, RenameEvents,
         RenameSidecar, MergeVisibility, DayFails, ReadFails, MergeSucceeds, MergeFails,
         Open, Recover, RemoveRecovered, RemoveRecoveredFails, FinishOpen, Rebuild,
         FinishRebuild, RebuildFails, FindUnreadable, RemoveSidecar, disk

(***************************************************************************)
(* The reader.                                                             *)
(***************************************************************************)
LEMMA TodayUnique ==
  ASSUME NEW d \in Days, toScan \subseteq Days, Today(d), NextDay
  PROVE  toScan' = toScan \ {d}
  <1>1. \A c \in toScan : Today(c) => c = d
    BY DaysAreNumbers DEF Today
  <1>2. (CHOOSE c \in toScan : Today(c)) = d
    BY <1>1 DEF Today
  <1> QED BY <1>2 DEF NextDay

LEMMA ReaderInit == InitR => ReaderInv
  BY DEF InitR, Init, ReaderInv, MisplacedInv, SnapshotInv, ScanInv, HoldsLock, DaySteps,
         OnDisk

\* What the reader has been promised stays where it is, or goes on to the
\* partition of its day.
LEMMA PromisedStays ==
  ASSUME IndInv, ReaderInv, StoreStep, session = "up", session' = "up"
  PROVE  /\ promised \subseteq Durable' /\ MisplacedInv'
         /\ \A e \in promised :
              /\ Misplaced(e) => Misplaced(e)'
              /\ Holds(partition, e) => Holds(partition', e)
              /\ \A f \in toRead : Holds(compacting[f], e) =>
                    Holds(compacting'[f], e) \/ Holds(partition', e)
  <1>1. promised \subseteq Events
    BY DEF ReaderInv, Durable
  <1> QED BY <1>1, NothingGoes, MisplacedNext, FilesGoToPartitions DEF ReaderInv

\* A step between two partitions: the days still to be read lose at most the
\* one that has just been read, or the search has an excuse.
LEMMA ScanGoesOn ==
  ASSUME IndInv, ReaderInv, StoreStep, session' = session,
         step \in DaySteps, step' \in DaySteps,
         promised' = promised, toRead' = toRead, kind' = kind,
         seen \subseteq seen', excuse \subseteq excuse',
         \/ toScan' = toScan
         \/ \E d \in Days : toScan' = toScan \ {d} /\ partition[d].events \subseteq seen'
         \/ toScan' \subseteq toScan /\ Excused'
  PROVE  ReaderInv'
  <1>1. session = "up" /\ session' = "up"
    BY DEF ReaderInv, DaySteps
  <1>2. /\ promised' \subseteq Durable' /\ MisplacedInv'
        /\ \A e \in promised : /\ Misplaced(e) => Misplaced(e)'
                               /\ Holds(partition, e) => Holds(partition', e)
    BY <1>1, PromisedStays
  <1>3. toRead' \subseteq Files /\ toScan' \subseteq Days
    BY DEF ReaderInv
  <1>4. SnapshotInv'
    BY DEF SnapshotInv, HoldsLock, DaySteps
  <1>5. ScanInv'
    <2> SUFFICES ASSUME kind' # "negentropy", ~Excused', NEW e \in promised \ seen'
                 PROVE  Misplaced(e)' \/ (DayOf[e] \in toScan' /\ Holds(partition', e))
      BY DEF ScanInv, DaySteps
    <2>1. ~Excused
      BY DEF Excused
    <2>2. Misplaced(e) \/ (DayOf[e] \in toScan /\ Holds(partition, e))
      BY <2>1 DEF ReaderInv, ScanInv
    <2>3. CASE toScan' = toScan
      BY <1>2, <2>2, <2>3
    <2>4. ASSUME NEW d \in Days, toScan' = toScan \ {d}, partition[d].events \subseteq seen'
          PROVE  Misplaced(e)' \/ (DayOf[e] \in toScan' /\ Holds(partition', e))
      BY <1>2, <2>2, <2>4 DEF Holds
    <2> QED BY <2>3, <2>4
  <1> QED BY <1>1, <1>2, <1>3, <1>4, <1>5 DEF ReaderInv

\* The snapshot: hot.events first, then the files it was rotated to, then the
\* partitions they were merged into.
LEMMA SnapshotNext ==
  ASSUME IndInv, ReaderInv, SnapshotStep
  PROVE  ReaderInv'
  <1>0. UNCHANGED vars /\ IndInv' /\ StoreStep
    BY StoreInductive, StepsOfStore
       DEF SnapshotStep, NextR, StoreStep, ReadHot, ClonePaths, FinishSnapshot, ListDays,
           ReadCompacting, ScanFirst
  <1>1. /\ session = "up" /\ session' = "up"
        /\ partition' = partition /\ compacting' = compacting /\ hot' = hot
        /\ promised' = promised /\ kind' = kind /\ excuse' = excuse
    BY <1>0 DEF SnapshotStep, ReadHot, ClonePaths, FinishSnapshot, ListDays, ReadCompacting,
                ScanFirst, ReaderInv, vars, disk, memory
  <1>2. /\ promised' \subseteq Durable' /\ MisplacedInv'
        /\ \A e \in promised : Misplaced(e) => Misplaced(e)'
    BY <1>0, <1>1, PromisedStays
  <1>d. promised \subseteq Events /\ DayOf \in [Events -> Days]
    BY ConstantsAssumption DEF ReaderInv, Durable
  <1>3. CASE ReadHot \/ \E d \in Days : ScanFirst(d)
    BY <1>1, <1>2, <1>3
       DEF ReadHot, ScanFirst, Goto, Sees, ReaderInv, SnapshotInv, ScanInv, HoldsLock, DaySteps
  <1>4. CASE ClonePaths
    <2>1. toRead' = paths /\ step' = "read compacting" /\ UNCHANGED <<seen, toScan>>
      BY <1>4 DEF ClonePaths, Goto
    <2>2. HotEvents(hot) \subseteq seen /\ paths \subseteq Files
      BY <1>4 DEF ClonePaths, ReaderInv, SnapshotInv, HoldsLock, IndInv, TypeOK
    <2>3. ASSUME NEW e \in promised \ seen
          PROVE  Misplaced(e) \/ Holds(partition, e) \/ \E f \in paths : Holds(compacting[f], e)
      <3>1. e \in Readable \/ Misplaced(e)
        BY <1>1, IndHidesNothing DEF NothingHidden, Misplaced, ReaderInv
      <3>2. ~Holds(hot, e)
        BY <1>d, <2>2 DEF Holds, HotEvents
      <3> QED BY <3>1, <3>2 DEF Readable
    <2>4. SnapshotInv'
      BY <1>1, <1>2, <2>1, <2>2, <2>3 DEF SnapshotInv, HotEvents, Holds
    <2> QED BY <1>1, <1>2, <2>1, <2>2, <2>4 DEF ReaderInv, ScanInv, DaySteps
  <1>5. ASSUME NEW f \in Files, ReadCompacting(f) PROVE ReaderInv'
    <2>1. /\ step = "read compacting" /\ step' = step /\ toScan' = toScan
          /\ toRead' = toRead \ {f} /\ seen' = seen \cup HotEvents(compacting[f])
      BY <1>5 DEF ReadCompacting, Sees
    <2>2. \A e \in promised \ seen' : ~Holds(compacting[f], e)
      BY <1>d, <2>1 DEF Holds, HotEvents
    <2>3. SnapshotInv'
      BY <1>1, <1>2, <2>1, <2>2 DEF ReaderInv, SnapshotInv, HoldsLock, HotEvents, Holds
    <2> QED BY <1>1, <1>2, <2>1, <2>3 DEF ReaderInv, ScanInv, DaySteps
  <1>6. CASE FinishSnapshot
    <2>1. SnapshotInv'
      BY <1>1, <1>2, <1>6 DEF FinishSnapshot, Goto, ReaderInv, SnapshotInv, HoldsLock, Holds
    <2> QED BY <1>1, <1>2, <1>6, <2>1 DEF FinishSnapshot, Goto, ReaderInv, ScanInv, DaySteps
  <1>7. CASE ListDays
    <2>1. kind # "negentropy" =>
            \A e \in promised \ seen :
              Misplaced(e) \/ (Holds(partition, e) /\ DayOf[e] \in toScan')
      <3>1. \A d \in Days : partition[d].events # {} => d \in toScan'
        <4>1. Empty.events = {}
          BY DEF Empty
        <4>2. \A d \in Days : partition[d].events # {} => partition[d] # Empty
          BY <4>1
        <4> QED BY <1>7, <4>2 DEF ListDays
      <3>2. \A e \in Events : Holds(partition, e) => DayOf[e] \in toScan'
        BY <1>d, <3>1 DEF Holds
      <3> QED BY <1>d, <1>7, <3>2 DEF ListDays, ReaderInv, SnapshotInv
    <2> QED BY <1>1, <1>2, <1>7, <2>1
         DEF ListDays, Goto, ReaderInv, SnapshotInv, ScanInv, HoldsLock, DaySteps, Holds
  <1> QED BY <1>3, <1>4, <1>5, <1>6, <1>7 DEF SnapshotStep

\* One partition after the other: scanned, searched, left out with an excuse, or
\* still to be read.
LEMMA DayNext ==
  ASSUME IndInv, ReaderInv, DayStep
  PROVE  ReaderInv'
  <1>0. UNCHANGED vars /\ IndInv' /\ StoreStep
    BY StoreInductive, StepsOfStore
       DEF DayStep, NextR, StoreStep, AllDays, ScanDay, Probe, Bloom, BloomAgain, ReadIndex,
           ReadIndexAgain, OpenAndSearch
  <1>1. /\ session = "up" /\ session' = session
        /\ partition' = partition /\ compacting' = compacting /\ hot' = hot
        /\ promised' = promised /\ toRead' = toRead /\ kind' = kind
    BY <1>0 DEF DayStep, AllDays, ScanDay, Probe, Bloom, BloomAgain, ReadIndex,
                ReadIndexAgain, OpenAndSearch, ReaderInv, vars, disk, memory
  <1>2. /\ promised' \subseteq Durable' /\ MisplacedInv'
        /\ \A e \in promised : Misplaced(e) => Misplaced(e)'
    BY <1>0, <1>1, PromisedStays
  <1>n. ASSUME NEW d \in Days, Today(d), NextDay
        PROVE  step' = "next day" /\ toScan' = toScan \ {d}
    BY <1>n, TodayUnique DEF NextDay, Goto, ReaderInv
  <1>3. CASE AllDays
    <2>1. kind' # "negentropy" /\ ~Excused' => Complete'
      BY <1>1, <1>2, <1>3 DEF AllDays, ReaderInv, ScanInv, Excused, DaySteps, Complete
    <2> QED BY <1>1, <1>2, <1>3, <2>1
         DEF AllDays, Goto, ReaderInv, SnapshotInv, ScanInv, HoldsLock, DaySteps
  <1>4. ASSUME NEW d \in Days, ScanDay(d) PROVE ReaderInv'
    <2>1. toScan' = toScan \ {d} /\ seen' = seen \cup partition[d].events /\ excuse' = excuse
      BY <1>n, <1>4 DEF ScanDay, Sees
    <2>2. step \in DaySteps /\ step' \in DaySteps
      BY <1>n, <1>4 DEF ScanDay, DaySteps
    <2> QED BY <1>0, <1>1, <2>1, <2>2, ScanGoesOn
  <1>5. ASSUME NEW d \in Days, Probe(d) \/ Bloom(d) \/ ReadIndex(d) PROVE ReaderInv'
    <2>1. UNCHANGED <<toScan, seen, excuse>>
      BY <1>5 DEF Probe, Bloom, ReadIndex
    <2>2. step \in DaySteps /\ step' \in DaySteps
      BY <1>5 DEF Probe, Bloom, ReadIndex, Goto, DaySteps
    <2> QED BY <1>0, <1>1, <2>1, <2>2, ScanGoesOn
  <1>6. ASSUME NEW d \in Days, BloomAgain(d) \/ ReadIndexAgain(d) PROVE ReaderInv'
    <2>1. seen' = seen /\ excuse \subseteq excuse' /\ Today(d) /\ step \in DaySteps
      BY <1>6 DEF BloomAgain, ReadIndexAgain, DaySteps
    <2>2. CASE toScan' = toScan /\ step' \in DaySteps
      BY <1>0, <1>1, <2>1, <2>2, ScanGoesOn
    <2>3. CASE kind = "search" /\ NextDay /\ excuse' # {}
      <3>1. toScan' \subseteq toScan /\ Excused' /\ step' \in DaySteps
        BY <1>1, <1>n, <2>1, <2>3 DEF Excused, DaySteps
      <3> QED BY <1>0, <1>1, <2>1, <3>1, ScanGoesOn
    <2> QED BY <1>6, <2>2, <2>3 DEF BloomAgain, ReadIndexAgain, Skip, Goto, DaySteps
  <1>7. ASSUME NEW d \in Days, OpenAndSearch(d) PROVE ReaderInv'
    <2>1. /\ Today(d) /\ step \in DaySteps /\ excuse \subseteq excuse' /\ seen \subseteq seen'
      BY <1>7 DEF OpenAndSearch, DaySteps, Sees
    <2>2. CASE Sees(partition[d].events) /\ NextDay
      <3>1. toScan' = toScan \ {d} /\ partition[d].events \subseteq seen' /\ step' \in DaySteps
        BY <1>n, <2>1, <2>2 DEF Sees, DaySteps
      <3> QED BY <1>0, <1>1, <2>1, <3>1, ScanGoesOn
    <2>3. CASE excuse' = excuse \cup {"index of another file"} /\ NextDay
      <3>1. toScan' \subseteq toScan /\ Excused' /\ step' \in DaySteps
        BY <1>n, <2>1, <2>3 DEF Excused, DaySteps
      <3> QED BY <1>0, <1>1, <2>1, <3>1, ScanGoesOn
    <2>4. CASE Goto("idle") /\ UNCHANGED <<seen, toScan>>
      BY <1>1, <1>2, <2>4 DEF Goto, ReaderInv, SnapshotInv, ScanInv, HoldsLock, DaySteps
    <2> QED BY <1>7, <2>2, <2>3, <2>4 DEF OpenAndSearch
  <1> QED BY <1>3, <1>4, <1>5, <1>6, <1>7 DEF DayStep

LEMMA RepairNext ==
  ASSUME IndInv, ReaderInv, RepairStep
  PROVE  ReaderInv'
  <1>0. StoreStep
    BY StepsOfStore DEF NextR
  <1>1. CASE FinishRepair \/ \E d \in Days : Remove(d) \/ BeginRepair(d)
    <2>1. UNCHANGED <<toScan, seen, excuse, promised, toRead, kind>>
      BY <1>1 DEF Remove, BeginRepair, FinishRepair
    <2>2. session' = session
      BY <1>1 DEF Remove, BeginRepair, FinishRepair, Rebuild, FinishRebuild, memory
    <2>3. step \in DaySteps /\ step' \in DaySteps
      BY <1>1 DEF Remove, BeginRepair, FinishRepair, Goto, DaySteps
    <2> QED BY <1>0, <2>1, <2>2, <2>3, ScanGoesOn
  <1>2. CASE RepairFails \/ \E d \in Days : RepairRefused(d)
    <2>1. /\ UNCHANGED <<seen, promised, toRead, kind>> /\ excuse' = excuse \cup {"repair failed"}
          /\ session' = session /\ step \in DaySteps /\ Skip
      <3>1. CASE RepairFails
        BY <3>1 DEF RepairFails, RebuildFails, HoldsGuard, DaySteps
      <3>2. CASE \E d \in Days : RepairRefused(d)
        BY <3>2 DEF RepairRefused, DaySteps, vars, memory
      <3> QED BY <1>2, <3>1, <3>2
    <2>2. CASE kind = "search" /\ NextDay
      <3>1. toScan' \subseteq toScan /\ Excused' /\ step' \in DaySteps
        BY <2>1, <2>2 DEF NextDay, Goto, Excused, DaySteps
      <3> QED BY <1>0, <2>1, <3>1, ScanGoesOn
    <2>3. CASE Goto("scan") /\ UNCHANGED toScan
      <3>1. step' \in DaySteps
        BY <2>3 DEF Goto, DaySteps
      <3> QED BY <1>0, <2>1, <2>3, <3>1, ScanGoesOn
    <2> QED BY <2>1, <2>2, <2>3 DEF Skip
  <1> QED BY <1>1, <1>2 DEF RepairStep

\* Appends, rotations, merges, removals, other repairs and failures, between any
\* two reads.
LEMMA BesideNext ==
  ASSUME IndInv, ReaderInv, Beside
  PROVE  ReaderInv'
  <1>0. StoreStep /\ IndInv
    BY StepsOfStore DEF NextR
  <1>1. UNCHANGED <<step, kind, promised, seen, toRead, toScan, excuse>>
    BY DEF Beside, rvars
  <1>2. CASE step = "idle"
    <2>1. promised' \subseteq Durable' /\ MisplacedInv'
      BY <1>0, <1>1, NothingGoes, MisplacedNext DEF ReaderInv
    <2> QED BY <1>1, <1>2, <2>1 DEF ReaderInv, SnapshotInv, ScanInv, HoldsLock, DaySteps
  <1>3. CASE step # "idle"
    <2>1. session = "up" /\ session' = "up" /\ (HoldsLock => hot' = hot)
      BY <1>3, BesideKeepsUp DEF ReaderInv
    <2>2. /\ promised' \subseteq Durable' /\ MisplacedInv'
          /\ \A e \in promised :
               /\ Misplaced(e) => Misplaced(e)'
               /\ Holds(partition, e) => Holds(partition', e)
               /\ \A f \in toRead : Holds(compacting[f], e) =>
                     Holds(compacting'[f], e) \/ Holds(partition', e)
      BY <1>0, <1>1, <2>1, PromisedStays
    <2>3. SnapshotInv'
      BY <1>1, <2>1, <2>2 DEF ReaderInv, SnapshotInv, HoldsLock, HotEvents
    <2>4. ScanInv'
      BY <1>1, <2>2 DEF ReaderInv, ScanInv, Excused, Complete
    <2> QED BY <1>1, <2>1, <2>2, <2>3, <2>4 DEF ReaderInv
  <1> QED BY <1>2, <1>3

LEMMA ReaderNext == IndInv /\ ReaderInv /\ [NextR]_<<vars, rvars>> => ReaderInv'
  <1> SUFFICES ASSUME IndInv, ReaderInv, [NextR]_<<vars, rvars>> PROVE ReaderInv'
    OBVIOUS
  <1>1. ASSUME NEW k \in Kinds, NEW d \in Days, Begin(k, d) PROVE ReaderInv'
    <2>1. /\ session = "up" /\ UNCHANGED vars /\ step' \in {"scan first", "read hot"}
          /\ promised' \subseteq Readable /\ toRead' = {} /\ toScan' \subseteq Days
      BY <1>1 DEF Begin, Goto
    <2>2. promised' \subseteq Durable'
      BY <2>1 DEF Readable, Durable, IndInv, TypeOK, vars, disk, Holds
    <2>3. MisplacedInv' /\ session' = "up"
      BY <2>1 DEF ReaderInv, MisplacedInv, OnDisk, vars, disk, memory
    <2> QED BY <2>1, <2>2, <2>3 DEF ReaderInv, SnapshotInv, ScanInv, HoldsLock, DaySteps
  <1>2. CASE CrashR
    <2>1. promised' \subseteq Durable' /\ MisplacedInv'
      BY <1>2, StepsOfStore, NothingGoes, MisplacedNext DEF ReaderInv, NextR, CrashR
    <2> QED BY <1>2, <2>1
         DEF CrashR, Goto, ReaderInv, SnapshotInv, ScanInv, HoldsLock, DaySteps
  <1>3. CASE UNCHANGED <<vars, rvars>>
    BY <1>3 DEF ReaderInv, MisplacedInv, SnapshotInv, ScanInv, HoldsLock, HotEvents, Misplaced,
                Holds, Complete, Excused, Durable, OnDisk, vars, rvars, disk, memory
  <1> QED BY <1>1, <1>2, <1>3, SnapshotNext, DayNext, RepairNext, BesideNext DEF NextR

\* The invariants of the store hold beside any reader, and the reader's on top.
THEOREM ReaderInductive == SpecR => [](IndInv /\ ReaderInv)
  <1>1. InitR => IndInv /\ ReaderInv
    BY IndInit, ReaderInit DEF InitR
  <1>2. IndInv /\ ReaderInv /\ [NextR]_<<vars, rvars>> => IndInv' /\ ReaderInv'
    BY StoreInductive, ReaderNext
  <1> QED BY <1>1, <1>2, PTL DEF SpecR

\* However the files of the hot store are rotated, merged and removed while a
\* query reads them, it finds what was readable when it was called; only a
\* rotation that failed half way can keep an event from it, and in a batch with
\* a search a partition replaced between its index and its opening.
THEOREM QueriesComplete == SpecR => []QueryComplete
  <1>1. ReaderInv => QueryComplete
    BY DEF ReaderInv, ScanInv, Excused, QueryComplete
  <1> QED BY ReaderInductive, <1>1, PTL

\* A search that has nothing to be excused for finds as much as a query does.
THEOREM SearchesAccounted == SpecR => []SearchAccounted
  <1>1. ReaderInv => SearchAccounted
    BY DEF ReaderInv, ScanInv, Excused, SearchAccounted
  <1> QED BY ReaderInductive, <1>1, PTL

\* Beside readers that remove and rebuild sidecars the store is the same durable
\* log: nothing a reader does stores an event or loses one.
THEOREM ReadersImplement == SpecR => ImplementsDurableLog
  <1>1. InitR => DL!Init
    <2>1. ASSUME Init PROVE Durable = {}
      BY <2>1, ConstantsAssumption DEF Init, Durable, Holds, EmptyFile, Empty
    <2> QED BY <2>1 DEF InitR, Init, DL!Init
  <1>2. IndInv /\ [NextR]_<<vars, rvars>> => [DL!Next]_(DL!vars)
    <2> SUFFICES ASSUME IndInv, StoreStep PROVE [DL!Next]_(DL!vars)
      BY StepsOfStore DEF StoreStep
    <2>1. CASE [Next]_vars
      BY <2>1, StepImplements
    <2>2. ASSUME NEW d \in Days, Remove(d) PROVE UNCHANGED DL!vars
      BY <2>2 DEF Remove, Durable, Holds, memory, DL!vars
    <2> QED BY <2>1, <2>2 DEF StoreStep
  <1> QED BY <1>1, <1>2, ReaderInductive, PTL DEF SpecR, ImplementsDurableLog, DL!Spec
=============================================================================
