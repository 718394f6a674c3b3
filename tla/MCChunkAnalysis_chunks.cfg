SPECIFICATION Spec
CONSTANTS
  w1 = w1
  w2 = w2
  Workers = {w1, w2}
  Texts = {1, 2}
  FirstText = 1
  Recorded = {2}
  MaxRequests = 6
  Retries = 2
  Probes = {"supported"}
  MaxClaims = 2
  MaxEdits = 1
  MaxCleanups = 1
SYMMETRY Symmetry
INVARIANTS
  ResultIsOfItsInput
  SucceededHasItsFile
CHECK_DEADLOCK FALSE
