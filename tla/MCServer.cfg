SPECIFICATION ServerSpec
CONSTANTS
  Machines = {"clients"}
  Dbs <- MCDbs
  Names <- MCNames
  LLONG_MAX = 1
  MaxString = 2
  IntMembers = {1, 2}
  SetMaxIntsetEntries = 1
  LongFields = {"long"}
  HashMaxZiplistEntries = 1
  HashMaxZiplistValue = 1
  Inf = 3
  LongMembers = {3}
  ZsetMaxZiplistEntries = 2
  Words = {3}
  PatternKey <- MCPatternKey
  ClientGroups <- MCClientGroups
  Channels <- MCChannels
  Matches <- MCMatches
  Conns = {1, 2, 3}
  Modes <- MCModes
  MaxQueue = 2
  MaxElements = 2
CHECK_DEADLOCK FALSE
INVARIANTS
  BlockedServed  ReplicaOfClients PublishReaches
