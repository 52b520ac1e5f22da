SPECIFICATION MCSpec
CONSTANTS
  NPayments = 2
  NOrders = 2
  Workers = {w1, w2}
  Sessions = {"cart"}
  Session <- OneSession
  Expected <- GrowingAmount
  Stored <- GrowingAmount
  Charges = {1, 2}
  HasProducts <- Complete
  MaxFaults = 2
  MaxAsks = 1
INVARIANTS
  NoneStranded
  NoticesAreKept
PROPERTIES
  KeepsSettlementPromise
SYMMETRY AnyWorker
CHECK_DEADLOCK FALSE
