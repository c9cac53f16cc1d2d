\* Two strands, two contexts, two queries, and tasks with a tracked and an ignored id.
CONSTANTS
  Strands = {s1, s2}
  Contexts = {c1, c2}
  Queries = {q1, q2}
  TaskIds = {kept, ignored}
  IgnoredIds = {ignored}
  MaxNesting = 3
  NoContext = NoContext
  NoQuery = NoQuery
  NoTask = NoTask
  NoStrand = NoStrand
SPECIFICATION Spec
SYMMETRY Symmetry
INVARIANTS
  CurrentIsInnermost
  
  MarkedWhileRendering
