SPECIFICATION Spec
CONSTANTS
  MinPrice = 0
  MaxPrice = 4
  TickSize = 2
  NoPrice = NoPrice
  Owner <- MCOwner
  Anonymous = Anonymous
  MaxQuantity = 2
  WordBits = 2
  MaxOrders = 3
  MapCapacity = 8
  Hash <- MCHash
  TriedPrice <- MCTriedPrice
  Entry <- MCEntry
  Taker <- MCTaker
INVARIANTS
  StructuresAreExact
  AnswersAgree
  AdmittedIsStored
PROPERTIES
  ImplementsPriceQueues
