SPECIFICATION FairSpec
CONSTANTS
  o1 = o1
  o2 = o2
  o3 = o3
  p1 = p1
  anon = anon
  InvalidId = InvalidId
  NoPrice = NoPrice
  OrderId <- TwoIds
  Price = {1, 2}
  Participant <- Owners
  Anonymous = anon
  MaxQuantity = 3
  MaxSequence = 1
  MaxMarketSequence = 0
  PriceInput = {1, 2}
  QuantityInput = {1, 2}
  Configs <- LiveConfigs
PROPERTY CommandsEnd
