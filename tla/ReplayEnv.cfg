SPECIFICATION Spec
CONSTANTS
  Price = {1, 2, 3}
  OwnPrice = {1, 2, 3}
  NoPrice = NoPrice
  Depth <- Books
  Time = {1, 2}
  TradeSize = {1, 2}
  Quantity = {1, 2}
  Distance = {0, 1}
  Latencies = {0, 2}
  EventsPerAction = 1
  InventoryLimit = 2
  FirstInventory = {0}
  NoOrder = NoOrder
INVARIANTS
  FillsAreEarned
  InventoryIsBounded
  NoOrderOutlivesTheFeed
  QuotesArePassive
CHECK_DEADLOCK FALSE
