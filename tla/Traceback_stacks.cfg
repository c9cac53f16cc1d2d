\* Two threads whose calls go through application and library, and caches too small for them.
CONSTANTS
  Threads = {t1, t2}
  Views = Views
  Models = Models
  Lib = Lib
  Files = {Views, Models, Lib}
  Lines = {1, 2}
  IgnoredFiles = {Lib}
  Chains <- MCChains
  NumEntries = 2
  EntriesSize = 3
  FilesSize = 2
SPECIFICATION Spec
SYMMETRY Symmetry
INVARIANTS
  StackIsChain
  KeepsMostRecent
