SPECIFICATION Spec
CONSTANTS
  Methods <- MCMethods
  MaxStart = 4
  MaxChanges = 3
  CHUNK_QUERY = 2
  POSITION_TICKS_LIMIT = 2
  LIQUIDITY_TICKS_LIMIT = 2
  Multicall = 2
INVARIANTS TypeOK NoneMissed NoDuplicates FailsOnlyWhenRemoved
PROPERTIES Returns
CHECK_DEADLOCK FALSE
