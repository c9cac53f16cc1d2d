\* Two callers and one worker identity, _pqueue with room for every item: liveness.
\* The items are finitely many: when all are handed over and no worker runs, nothing is left to do.
CONSTANTS
  Threads = {t1, t2}
  Workers = {w1}
  Items = {i1, i2}
  QueueMaxSize = 2
  PQueueMaxSize = 2
  BatchMinSize = 2
  BatchMaxSize = 1
  Delays = {1}
  MaxClock = 1
  Calls = {"enqueue", "after", "close"}
  Faults = {}
  NoThread = NoThread
  NoWorker = NoWorker
  NoItem = NoItem
SPECIFICATION FairSpec
CHECK_DEADLOCK FALSE
PROPERTIES
  CallReturns
  CloseEndsRun
  CloseStopsWorker
  EventuallySettled
