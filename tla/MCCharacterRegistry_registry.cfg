SPECIFICATION RegistrySpec
CONSTANTS
  t1 = t1
  t2 = t2
  Threads = {t1, t2}
  Ids = {"an", "bo", "cy"}
  Titles = {"teacher"}
  Artifact <- Cast
  Confirmed = {"cy"}
  Legacy = {"bo"}
  FirstVoice <- Tones
  Assigned <- Aliases
  Pairs <- Merges
  MaxRevision = 4
  MaxProposals = 1
  MaxSnapshots = 1
SYMMETRY Symmetry
INVARIANTS
  MergesEnd
PROPERTIES
  UnforcedMergeIsSafe
  RevisionCoversIdentity
CHECK_DEADLOCK FALSE
