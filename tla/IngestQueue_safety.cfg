\* Two callers, delayed rows, joins that time out, queues of two and one places.
\* The items are finitely many: when all are handed over and no worker runs, nothing is left to do.
CONSTANTS
  Threads = {t1, t2}
  Workers = {w1, w2}
  Items = {i1, i2}
  QueueMaxSize = 2
  PQueueMaxSize = 1
  BatchMinSize = 2
  BatchMaxSize = 1
  Delays = {0, 1}
  MaxClock = 1
  Calls = {"enqueue", "after", "close"}
  Faults = {"start", "encode", "join_timeout"}
  NoThread = NoThread
  NoWorker = NoWorker
  NoItem = NoItem
SPECIFICATION Spec
SYMMETRY Symmetry
CHECK_DEADLOCK FALSE
INVARIANTS
  SingleWorker
  StopIsOwned
  NoLostWakeup
  OrderPreserved
  Accounted
PROPERTIES
  ImplementsDelivery
