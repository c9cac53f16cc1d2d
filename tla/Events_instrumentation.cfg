\* Two installing threads and an event, two domains that share a member, and Ingest.
\* The bound on the installations ends every behaviour.
CONSTANTS
  Threads = {t1, t2}
  Apps = {a1}
  relations = relations
  other = other
  Ingest = ingest
  render = render
  execute = execute
  Domains = {ingest, relations, other}
  Order <- MCOrder
  Members = {render, execute}
  Inherited = {render}
  Wraps <- MCWraps
  MaxInstalls = 2
  MaxQueues = 2
  Faults = {"import", "wrap", "register"}
  NoThread = NoThread
  Absent = Absent
SPECIFICATION Spec
SYMMETRY Symmetry
CHECK_DEADLOCK FALSE
INVARIANTS
  EnabledMeansInstalled
  UninstallRestores
  QueueEndsWithDomain
PROPERTIES
  DisabledStaysQuiet
