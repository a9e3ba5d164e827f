SPECIFICATION FairSpec
CONSTANTS
  Consumers = {c1, c2}
  MaxEntries = 2
  Batch = 2
  Strikes = 2
  MaxFaults = 1
INVARIANTS
  LostOnlyToARace
PROPERTIES
  EventuallyIngested
CHECK_DEADLOCK FALSE
