SPECIFICATION Spec
CONSTANTS
  a = a
  b = b
  c = c
  d = d
  e = e
  Id <- FiveIds
  NoId = NoId
  Capacity = 4
INVARIANTS
  TableIsSound
  CompactionEnds
PROPERTY ImplementsIdIndex
SYMMETRY Symmetry
