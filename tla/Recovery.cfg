SPECIFICATION Spec
CONSTANTS
  o1 = o1
  o2 = o2
  anon = anon
  InvalidId = InvalidId
  NoPrice = NoPrice
  NoRecord = NoRecord
  OrderId <- Ids
  Price = {1, 2}
  Participant <- Owners
  Anonymous = anon
  MaxQuantity = 3
  MaxSequence = 2
  Instrument = {1, 2, 3}
  InvalidInstrument = 0
  Hash <- SameCell
  LookupCapacity = 4
  Configured <- Order21
  Lists <- ListsOfTwo
  MaxOrders <- Pools
  LevelKey <- Keys
  Digits <- Bits
  Script <- Commands
  MaxEvents = 7
  MaxCrashes = 1
INVARIANTS
  BooksStayBooks
  RoutesAreExact
  RecoveryIsExact
  ReplayVouches
PROPERTY RestoreIsAllOrNothing
CHECK_DEADLOCK FALSE
