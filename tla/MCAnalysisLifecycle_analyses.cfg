SPECIFICATION Spec
CONSTANTS
  k1 = k1
  u1 = u1
  Analyses = {1, 2}
  Batches = {9}
  Chapters = {1, 2}
  Consumers = {k1}
  Requests = {u1}
  Rewrites <- BackAndForth
  FirstText = 1
  MaxAttempts = 2
  MaxFaults = 1
  MaxActs = 1
INVARIANTS
  CancelledHasNoEffect
  ReadyIsOfItsSource
  EndedBookIsSettled
  SuccessIsReady
CHECK_DEADLOCK FALSE
