SPECIFICATION SentinelSpec
CONSTANTS
  Sentinels = {1, 2, 3}
  NoOne = 0
  Quorum = 1
  MaxStarts = 2
  MaxRestarts = 1
  MaxInFlight = 1
  Monitors = {m1, m2}
  Servers = {a, b, c, d}
  FirstMaster = a
  Leading = m1
  Preferred = b
  Spare = d
  Nobody = Nobody
  KnownSlaves <- MCKnownSlaves
  slave_priority <- MCPriority
  parallel_syncs = 1
  MaxEpoch = 2
  MaxExtras = 1
  MaxSlaveOf = 1
CHECK_DEADLOCK FALSE
INVARIANTS
  VotesOncePerEpoch OneLeaderPerEpoch PromotionSound ConfigsAgree
