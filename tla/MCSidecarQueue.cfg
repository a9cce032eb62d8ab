SPECIFICATION FairSpec
CONSTANTS
  Compactions = {c1}
  Reindexers = {r1, r2, r3}
INVARIANTS TypeOK MutualExclusion NoLostWakeup
PROPERTIES CompactionFirst CompactionServed
