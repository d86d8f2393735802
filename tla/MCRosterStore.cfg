SPECIFICATION Spec
CONSTANTS
  Rev = {1, 2, 3, 4}
  Node = {n}
  Edges <- MCEdges
  Histories <- MCHistories
  CacheSize = 2
  MaxLevel = 1
INVARIANTS RostersExact ExtractExact
PROPERTIES KeepsPromise
