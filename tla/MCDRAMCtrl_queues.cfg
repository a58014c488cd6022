SPECIFICATION Spec
CONSTANTS
  Reads = {r1, r2}
  NumRanks = 1
  Ranks <- MCRanks
  RankOf <- MCRankOf
  BurstSize = 2
  ReadPkts <- SplitReads
  WritePkts <- SplitWrites
  RowOpDests = {0}
  RowOpBursts = 1
  ReadBufferSize = 3
  WriteBufferSize = 3
  WriteHighThreshold = 2
  WriteLowThreshold = 1
  MinWritesPerSwitch = 1
  MemSchedPolicy = "frfcfs"
SYMMETRY ReadSymmetry
INVARIANTS
  RowOpCount
  WritesToServe
  QueueBounds
  RegisteredIsQueued
PROPERTIES
  ServiceSpec
