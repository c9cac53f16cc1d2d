\* One caller, a server that breaks and resumes.
CONSTANTS
  Threads = {t1}
  Tasks = {k1, k2}
  MaxRetries = 3
  MaxEvents = 3
  Calls = {"connected", "close"}
  Faults = {"submit", "transport", "bad_event"}
  NoTask = NoTask
SPECIFICATION FairSpec
INVARIANTS
  ResumesWhereItLeft
  ConnectedMeansOpen
PROPERTIES
  RepairedOrDead
  CloseIsFinal
  
