SPECIFICATION FairSpec
CONSTANTS
  Segments = {s1}
  Collectors = {c1, c2}
  MaxRevision = 2
  Blank = {1}
  Tombstones = {"capture_stopped", "consent_withdrawn"}
  MaxFaults = 1
INVARIANTS
  ErasedForGood
  KeptUnlessClobbered
PROPERTIES
  EventuallyStored
  EventuallyPurged
CHECK_DEADLOCK FALSE
