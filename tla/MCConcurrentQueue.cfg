SPECIFICATION FairSpec
CONSTANTS
  t1 = t1
  t2 = t2
  t3 = t3
  Threads = {t1, t2, t3}
  None = None
  Blocks = 3
  BLOCK_SIZE = 2
  IMPLICIT_INITIAL_INDEX_SIZE = 2
  EXPLICIT_CONSUMER_CONSUMPTION_QUOTA_BEFORE_ROTATE = 2
  HashOf <- MCHashOf
  MaxCapacity = 8
  Workloads <- MCWorkloads
INVARIANTS BlocksAccounted TakesWhatIsThere OwnProducer
PROPERTIES Implements CallsReturn
