SPECIFICATION NodesSpec
CONSTANTS
  PoolCapacity = 4
  Level = {low, high}
  NoLevel = NoLevel
  MaxQuantity = 2
INVARIANTS
  LinksSpellQueues
  SlotsHaveOnePlace
  TotalsAreSums
