SPECIFICATION LogSpec
CONSTANTS
  Capacities = {0, 1, 2, 3}
  MaxSequence = 5
INVARIANTS
  LogTypeOK
  SpanIsOperation
  ReservationFits
  NumbersAreConsecutive
