SPECIFICATION FairSpec
CONSTANTS
  Threads = 1
  MaxEvents = 3
PROPERTIES
  TrackedIsReaped
\* the requests are answered, and the workload may be gone
CHECK_DEADLOCK FALSE
