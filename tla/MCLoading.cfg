SPECIFICATION LoadSpec
CONSTANTS
  Order <- MCOrder
  KindSets = {"all", "some"}
  TextOf <- MCTextOf
  Queries <- MCQueries
  NoSidecar = NoSidecar
  MaxPieces = 2
  MaxCuts = 1
  Dumps <- MCDumps
  Bad = "bad"
  LoadBatch = 2
  MaxLoads = 2
INVARIANTS TypeOK NoSilentLoss IndexMatchesFile HotSearchAccounted PartitionSearchExact LoadAccounted AnnouncedIsStored
CHECK_DEADLOCK FALSE
