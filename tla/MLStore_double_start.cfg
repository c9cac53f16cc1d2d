\* Two callers of connected: is the stream started once?
CONSTANTS
  Threads = {t1, t2}
  Tasks = {k1, k2}
  MaxRetries = 1
  MaxEvents = 0
  Calls = {"connected"}
  Faults = {}
  NoTask = NoTask
SPECIFICATION Spec
INVARIANTS
  SingleStream
