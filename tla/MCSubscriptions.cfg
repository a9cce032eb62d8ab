SPECIFICATION MCSpec
CONSTANTS
  Events = {e1, e2}
  s1 = s1
  s2 = s2
  s3 = s3
  s4 = s4
  Subs = {s1, s2, s3, s4}
  Eose = Eose
  NWorkers = 2
  Capacity = 1
SYMMETRY SubSymmetry
INVARIANTS TypeOK DeliveryInv QueueInv SnapshotBeforeEose NoGap NobodyForgotten ShutdownSettles WorkersAccounted
CHECK_DEADLOCK FALSE
