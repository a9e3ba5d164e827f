SPECIFICATION LiveSpec
CONSTANTS
  Sids = {s1}
  NoSid = NoSid
  Replicas = {r1}
  Stops = {d1}
  Stages = {"joining", "active"}
  MaxCalls = 1
  MaxAttempts = 1
  MaxRestarts = 1
  MaxForgets = 1
  MaxDbFaults = 1
  MaxRuntimeFaults = 1
  MaxWithdrawals = 0
  MaxFailures = 3
  MaxLoad = 4
PROPERTIES
  KeepsPromise
  GoneSessionEnds
  StopsTakeEffect
\* a meeting that has ended, its requests answered, stops for good
CHECK_DEADLOCK FALSE
