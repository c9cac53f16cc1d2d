\* One caller: is everything it enqueued posted when close returns?
\* The items are finitely many: when all are handed over and no worker runs, nothing is left to do.
CONSTANTS
  Threads = {t1}
  Workers = {w1}
  Items = {i1, i2}
  QueueMaxSize = 2
  PQueueMaxSize = 2
  BatchMinSize = 2
  BatchMaxSize = 2
  Delays = {0}
  MaxClock = 0
  Calls = {"enqueue", "close"}
  Faults = {}
  NoThread = NoThread
  NoWorker = NoWorker
  NoItem = NoItem
SPECIFICATION Spec
CHECK_DEADLOCK FALSE
INVARIANTS
  CloseFlushes
