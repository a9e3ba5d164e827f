SPECIFICATION Spec
CONSTANTS
  Captors = {c1, c2}
  Erasers = {e1, e2}
  MaxMeetings = 2
  MaxFaults = 1
INVARIANTS
  TypeOK
  OneBotPerOperation
  ReceiptCountsWhatWasErased
PROPERTIES
  BoundInTheEnd
\* a subject that is erased, every request answered, stays so
CHECK_DEADLOCK FALSE
