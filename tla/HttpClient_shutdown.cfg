\* Two requests, two loops of the async worker in turn, and the closing of the container.
\* Once the container is closed and the requests have ended, nothing is left to do.
CONSTANTS
  Threads = {t1, t2}
  Closer = closer
  Loops = {l1, l2}
  Coros = {r1, r2, aclose}
  AClose = aclose
  Clients = {h1, h2}
  MaxExpiries = 1
  Faults = {"start"}
  NoLoop = NoLoop
  NoThread = NoThread
  NoCoro = NoCoro
  NoClient = NoClient
  Stop = Stop
SPECIFICATION FairSpec
CHECK_DEADLOCK FALSE
INVARIANTS
  
  
  WaitsAreAnswered
  OnlyLateAreStranded
  RefreshedOncePerExpiry
PROPERTIES
  SubmittedSettles
  CloseReturns
