SPECIFICATION FairSpec
CONSTANTS
  Reads = {r1}
  NumRanks = 2
  Ranks <- MCRanks
  RankOf <- MCRankOf
  BurstSize = 2
  ReadPkts <- OneBurstReads
  WritePkts <- OneBurstWrites
  RowOpDests = {0}
  RowOpBursts = 1
  ReadBufferSize = 1
  WriteBufferSize = 2
  WriteHighThreshold = 1
  WriteLowThreshold = 1
  MinWritesPerSwitch = 1
  MemSchedPolicy = "fcfs"
INVARIANTS
  NoLostWakeup
PROPERTIES
  DrainedMeansEmpty
  RetryComes
  ReadsAnswered
  DrainCompletes
