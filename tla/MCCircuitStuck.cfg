CONSTANTS
  Requests = {r1, r2, r3}
  Threshold = 2
CHECK_DEADLOCK FALSE
SPECIFICATION CircuitSpec
INVARIANT
  ProbeIsOutstanding
