\* Every history of three updates of two samples, one stream that repeats itself.
CONSTANTS
  Hashes = {h1, h2}
  Confs = {c1, c2}
  LastUpdate = 3
  Streams = {s1}
  NoModel = NoModel
SPECIFICATION ModelsSpec
SYMMETRY Symmetry
INVARIANTS
  MatchesServer
PROPERTIES
  NeverOlder
