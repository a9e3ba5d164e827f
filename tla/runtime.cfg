SPECIFICATION FairSpec
CONSTANTS
  Threads = 2
  MaxEvents = 3
INVARIANTS
  
  KeepAliveReplacesNothing
  
PROPERTIES
  ReapedInTheEnd
\* the requests are answered, and the workload may be gone
CHECK_DEADLOCK FALSE
