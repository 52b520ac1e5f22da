CONSTANTS
  Checkers = {k1}
  Idle = 1
  Slack = 0
  Stale = 2
  MaxActs = 3
  MaxOutages = 0
CHECK_DEADLOCK FALSE
SPECIFICATION TakeoverSpec
INVARIANT EvidenceSilences
