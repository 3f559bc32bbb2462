SPECIFICATION FeedSpec
CONSTANTS
  MaxNumber = 4
  Starts = {0, 1, 2}
INVARIANTS
  AppliedHasNoHole
  NoneAppliedTwice
