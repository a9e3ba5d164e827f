SPECIFICATION PersistentHub
CONSTANTS
  Tasks = {t1}
  Drains = {p1}
  Stages = {"joining", "active"}
  MaxFaults = 1
INVARIANTS
  TypeOK
  SettledBeforeErased
  NothingAfterErasure
PROPERTIES
  EverySettles
  ErasureCompletes
CHECK_DEADLOCK FALSE
