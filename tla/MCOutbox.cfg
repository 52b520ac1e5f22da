CONSTANTS
  Rows = {r1, r2}
  Inbounds = {i1, i2, i3}
  Photos = {i1}
  Dispatchers = {d1, d2}
  CronWorkers = {c1}
  None = None
  NParts = 2
  NRoutes = 2
  MaxAttempts = 2
  BatchLimit = 2
  MaxUnclear = 1
SPECIFICATION MCSpec
SYMMETRY Symmetry
INVARIANTS
  NoReplyForgotten
  AnswerWasDelivered
  CopiesBounded
  ResumePointCurrent
  DuplicateNeedsCause
  TwoHoldersNeedLapse
PROPERTY
  KeepsPromise
