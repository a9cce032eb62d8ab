SPECIFICATION FairSpec
CONSTANTS
  e1 = e1
  e2 = e2
  e3 = e3
  Events = {e1, e2, e3}
  Days = {1, 2}
  DayOf <- MCDayOf
  Files = {f1, f2}
  NoFile = NoFile
  NoSidecar = NoSidecar
  NoDay = NoDay
  MaxPackets = 1
  Workers = 2
  MaxInserts = 3
  MaxFaults = 2
INVARIANTS TypeOK IndInv NothingHidden SidecarTrusted VisibilityRecoverable ExactlyOnce
PROPERTIES ImplementsDurableLog OrphansAreMerged CompactionEnds
CHECK_DEADLOCK FALSE
