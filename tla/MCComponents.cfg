CONSTANTS
  Tasks = {1, 2, 3}
  Processes = {1, 2}
  ProcessOf <- LastApart
  FallsBack = {1, 3}
  Entries = {1, 2, 3}
  Requests = {r1, r2, r3}
  Threshold = 2
  MaxMessage = 2
  MaxProposal = 2
  Runners = {u1, u2}
  Facts = {f1, f2}
  Analysts = {a1, a2}
  Readers = {q1}
  MaxTries = 2
  MaxGeneration = 2
  Goods = {g1}
  Turns = {t1}
  NoRow = NoRow
  MaxChanges = 3
  StaleDays = 2
  ReadableDays = 1
  LastDay = 0
  Pollers = {p1, p2}
  Others = {o1}
  PageLimit = 2
  MaxRefresh = 1
  MaxMishaps = 1
CHECK_DEADLOCK FALSE
SYMMETRY Alike
SPECIFICATION PartsSpec
INVARIANTS
  SerialUnlessUncovered
  OneProbe
  RefusesForAProbe
  OnlyWithConsent
  ReceiptsAreTrue
  WaitersAreServed
  IndexFollowsCursor
PROPERTIES
  KeepsPurchasePromise
  KeepsEvidencePromise
