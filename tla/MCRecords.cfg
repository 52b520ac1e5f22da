CONSTANTS
  Wares = {w1, w2}
  MaxTokens = 3
  MaxPieces = 2
  MaxDeals = 2
  MaxSlips = 2
  MaxSales = 4
  MaxEdits = 1
  MaxShocks = 2
  Checkers = {k1, k2}
  Idle = 1
  Slack = 0
  Stale = 2
  MaxActs = 2
  MaxOutages = 1
  Messages = {m1, m2}
  Workspaces = {s1}
  Batches = {b1, b2}
  RowLimit = 1
  MaxReplies = 2
  MaxFailures = 1
  Limits = {1, 3}
  ComplexCap = 4
  MaxRetries = 2
CHECK_DEADLOCK FALSE
SYMMETRY Alike
SPECIFICATION PartsSpec
INVARIANTS
  OthersStay
  OneCart
  AsManyAsAsked
  SecondOrderNeedsCause
  AttendantIsHeard
  SilenceHasCause
  NoneLeftBehind
  CountedOnce
  ReplyIsFunded
  RepairIsReviewed
PROPERTIES
  OrderAsReviewed
