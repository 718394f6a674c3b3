SPECIFICATION Spec
CHECK_DEADLOCK FALSE
SYMMETRY RowSymmetry
CONSTANTS
  w1 = w1  w2 = w2  author = author  reviewer = reviewer  admin = admin
  Reached <- Paths
  Ids = {i1, i2}
  Instances = {w1, w2}
  Owner = author
  Reviewers = {reviewer}
  Admins = {admin}
  Metas = {m1}
  Texts = {t1, t2}
  MaxRestores = 1
  NoBody = NoBody
INVARIANTS
  NothingPublicUnreviewed
PROPERTIES
  ApprovedAsSubmitted
  ClaimIsExclusive
  PublicBooksAreOnlyRemoved
