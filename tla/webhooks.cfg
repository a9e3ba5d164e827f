SPECIFICATION FairSpec
CONSTANTS
  Envelopes = {e1, e2}
  Workers = {w1,w2}
  Tries = 2
  DeadLetterMax = 1
  MaxCrashes = 1
INVARIANTS
  TypeOK
  NoEnvelopeLost
  PostsAsScheduled
PROPERTIES
  EventuallySettled
CHECK_DEADLOCK FALSE
