SPECIFICATION ClusterSpec
CONSTANTS
  Machines = {"replication", "migrate", "failover", "quicklist", "skiplist"}
  Servers = {1, 2}
  Hosts <- MCHosts
  ReplDbs = {0, 1}
  BacklogSize = 3
  ReplBudgets <- MCReplBudgets
  MigKeys = {1, 2}
  MigOrders <- MCOrders
  MigDbs = {0, 1}
  MigDbids <- MCDbids
  MigBudgets <- MCMigBudgets
  CNodes = {1, 2, 3, 4, 5}
  CSlots = {1, 2, 3}
  FirstOwner <- MCOwner
  FirstMaster <- MCMaster
  FirstFailed = {1}
  Failing = {4, 5}
  Budgets <- MCBudgets
  QValues = {1, 2}
  Fills <- MCFills
  Depths = {1, 2}
  MinCompress = 2
  SIZE_SAFETY_LIMIT = 3
  OptimizationLevel <- MCOptimization
  MaxLength = 4
  Members = {1, 2, 3}
  Scores = {1, 2}
  ZSKIPLIST_MAXLEVEL = 3
CHECK_DEADLOCK FALSE
INVARIANTS
  ReplicationSound MigrateSound EpochsUniqueUnlessForgot EpochsSound SlotsConverge 
