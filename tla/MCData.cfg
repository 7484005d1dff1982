SPECIFICATION DataSpec
CONSTANTS
  Dbs <- MCDbs
  Names <- MCNames
  LLONG_MAX = 1
  MaxString = 2
  IntMembers = {1, 2}
  SetMaxIntsetEntries = 1
  LongFields = {"long"}
  HashMaxZiplistEntries = 1
  HashMaxZiplistValue = 1
  Inf = 3
  LongMembers = {3}
  ZsetMaxZiplistEntries = 2
  Words = {3}
  PatternKey <- MCPatternKey
  Groups <- MCGroups
  MaxList = 3
  DictKeys = {1, 2, 3}
  DictVals <- MCDictVals
  HashOf <- MCHashOf
  DICT_HT_INITIAL_SIZE = 2
  dict_force_resize_ratio = 1
  HASHTABLE_MIN_FILL = 60
  RehashBatch = 1
  WordBits = 4
  Base = 4
  IntsetValues <- MCIntsetValues
  ZipElements <- MCZipElements
  ZIP_BIGLEN = 8
  Str06 = 3
  Str14 = 15
  UINT16_MAX = 3
  MaxEntries = 4
  HLL_REGISTERS = 8
  HLL_BITS = 6
  HLL_SPARSE_VAL_MAX_VALUE = 2
  HLL_SPARSE_VAL_MAX_LEN = 2
  HLL_SPARSE_ZERO_MAX_LEN = 2
  HLL_SPARSE_XZERO_MAX_LEN = 8
  hll_sparse_max_bytes = 5
  HllKeys <- MCHllKeys
  HllElements <- MCHllElements
  HllMerges <- MCHllMerges
CHECK_DEADLOCK FALSE
INVARIANTS
  ReplicaAgrees AofRebuildsDataset ValuesSound WatchersTold  
