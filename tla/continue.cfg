SPECIFICATION SequentialSpec
CONSTANTS
  Sids = {s1, s2}
  NoSid = NoSid
  Replicas = {r1}
  Stops = {}
  Stages = {"joining", "active"}
  MaxCalls = 1
  MaxAttempts = 2
  MaxRestarts = 0
  MaxForgets = 0
  MaxDbFaults = 1
  MaxRuntimeFaults = 0
  MaxWithdrawals = 0
  MaxFailures = 1
  MaxLoad = 2
INVARIANTS
  EvidenceNamesItsRun
  OneBotPerMeeting
\* a meeting that has ended, its requests answered, stops for good
CHECK_DEADLOCK FALSE
