CONSTANTS
  Rows = {r1}
  Inbounds = {i1}
  Photos = {i1}
  Dispatchers = {d1}
  CronWorkers = {c1}
  None = None
  NParts = 2
  NRoutes = 2
  MaxAttempts = 2
  BatchLimit = 2
  Analysts = {a1}
  Readers = {q1}
  MaxTries = 2
  MaxGeneration = 2
  NMessages = 2
  Conversations = {A}
  ConvOf <- OneConversation
  Drainers = {w1}
  MaxTurns = 2
  InboxLimit = 2
CHECK_DEADLOCK FALSE
SPECIFICATION DispatchSpec
PROPERTIES
  Settles
  WaitersResume
  MessagesSettle
