\* Two threads, a model and one that inherits from it and has more columns than a bit set.
CONSTANTS
  Threads = {t1, t2}
  Film = Film
  Serial = Serial
  Models = {Film, Serial}
  Base = Film
  Size <- Sizes
  Unknown = {}
  Deferrable = {2}
  Join = 2
  Width = 3
  MaxIterating = 1
  MaxEarlyReads = 1
  MaxInstalls = 1
  NoThread = NoThread
  NoModel = NoModel
SPECIFICATION Spec
SYMMETRY Symmetry
INVARIANTS
  BitSetsAgree
  
  
  
