SPECIFICATION Spec
CONSTANTS
  o1 = o1
  o2 = o2
  o3 = o3
  p1 = p1
  anon = anon
  InvalidId = InvalidId
  NoPrice = NoPrice
  OrderId <- ThreeIds
  Price = {1, 2}
  Participant <- Owners
  Anonymous = anon
  MaxQuantity = 3
  MaxSequence = 2
  MaxMarketSequence = 8
  PriceInput = {0, 1, 2}
  QuantityInput = {0, 1, 2}
  Configs <- StpConfigs
INVARIANTS
  RejectionsAreSilent
SYMMETRY Symmetry3
