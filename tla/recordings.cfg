SPECIFICATION Spec
CONSTANTS
  Chunks = {k1, k2}
  Uploaders = {u1, u2}
  Finalizers = {f1}
  Erasers = {e1, e2}
  MaxFaults = 2
INVARIANTS
  TypeOK
  NoObjectOutlives
  ReceiptCountsTheBarrier
  FoldedIsStored
  MasterNotFrozen
CHECK_DEADLOCK FALSE
