SPECIFICATION Spec
CONSTANTS
  Captors = {c1, c2}
  Erasers = {e1, e2}
  MaxMeetings = 2
  MaxFaults = 1
INVARIANTS
  NothingSlipsIn
CHECK_DEADLOCK FALSE
