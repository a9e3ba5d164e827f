SPECIFICATION Spec
CONSTANTS
  Sids = {s1}
  NoSid = NoSid
  Replicas = {r1}
  Stops = {d1}
  Stages = {"joining", "active"}
  MaxCalls = 2
  MaxAttempts = 1
  MaxRestarts = 1
  MaxForgets = 1
  MaxDbFaults = 1
  MaxRuntimeFaults = 1
  MaxWithdrawals = 1
  MaxFailures = 1
  MaxLoad = 2
INVARIANTS
  TypeOK
  StopIsNotAFailure
  WithdrawnNeverLive
  AnnouncedOnce
  SweepNeverEndsALiveBot
  NoLiveBotBehindEnd
PROPERTIES
  TerminalRecordIsFinal
\* a meeting that has ended, its requests answered, stops for good
CHECK_DEADLOCK FALSE
