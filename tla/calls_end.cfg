SPECIFICATION SpecEither
CONSTANTS
  Callers = {owner, other}
  Owner = owner
  None = None
  Capacity = 2
  PipeSize = 1
  StdinSize = 1
  MaxStarts = 2
  MaxCalls = 2
  MaxNoise = 1
  Threads = {t1, t2}
  Temporary = {b1}
  Foreign = {b2}
  MaxTouches = 3
  MaxOps = 2
  Nobody = Nobody
INVARIANTS TypeOK OwnAnswer ReceiptHolds
PROPERTIES CallsReturn LockReleased
CHECK_DEADLOCK FALSE
