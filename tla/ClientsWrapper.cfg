SPECIFICATION FairSpec
CONSTANTS
  Byte = {1, 2}
  junk = 0
  size_inc_value = 1
  HistoryMax = 7
  Client = {1, 2}
  StructSize <- StructSizes
  max_capacity = 4
  max_clients = 2
  MaxRead = 2
INVARIANTS
  MemoryBounded
PROPERTIES
  ImplementsBroadcast
  Delivers
