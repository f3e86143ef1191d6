CONSTANTS
  Base = 4
  AddressLimit = 64
  PoolSize = 16
  BigBlockSize = 6
  BlockSize = 2
  Request = {2, 3, 6, 60}
  ChunksPerBlock = 2
  AreasPerBlock = 2
  NULL = NULL
  INVALID = INVALID
  t1 = t1
  Thread = {t1, t2}
  MaxLive = 1
SPECIFICATION FairSpec
INVARIANTS MemorySafe PoolConserved MailIsComplete
PROPERTIES LossIsBounded CallsReturn
CHECK_DEADLOCK FALSE
