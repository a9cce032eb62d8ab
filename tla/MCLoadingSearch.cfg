SPECIFICATION LoadSpec
CONSTANTS
  Order <- MCOrder
  KindSets = {"all", "some"}
  TextOf <- MCTextOf
  Queries <- MCQueries
  NoSidecar = NoSidecar
  MaxPieces = 2
  MaxCuts = 1
  Dumps <- MCDumps
  Bad = "bad"
  LoadBatch = 2
  MaxLoads = 2
INVARIANT BatchSearchesAlike
CHECK_DEADLOCK FALSE
