CONSTANTS
  NPayments = 1
  NOrders = 2
  Workers = {w1, w2}
  Sessions = {"cart"}
  Session <- OneSession
  Expected <- SameAmount
  Stored <- SameAmount
  Charges = {2}
  HasProducts <- Complete
  MaxFaults = 1
  MaxAsks = 1
  Goods = {g1}
  Turns = {}
  NoRow = NoRow
  MaxChanges = 2
  StaleDays = 2
  ReadableDays = 1
  LastDay = 0
  Pollers = {p1, p2}
  Others = {o1}
  PageLimit = 2
  MaxRefresh = 1
  MaxMishaps = 1
CHECK_DEADLOCK FALSE
SPECIFICATION SyncSpec
PROPERTIES
  PaidIsNoticed
  Settles
  StreamMoves
