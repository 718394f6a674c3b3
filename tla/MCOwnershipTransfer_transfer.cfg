SPECIFICATION Spec
SYMMETRY RevisionSymmetry
CONSTANTS
  Books = {book}
  Users = {author, reviewer, boss}
  FirstOwner = author
  Managers = {author, boss}
  Reviewers = {reviewer, boss}
  Supers = {boss}
  Revisions = {r1, r2}
  MaxRequests = 3
  None = None
INVARIANTS
  HistoryReplays
  TransfersAreAgreed
PROPERTIES
  MovesAreSafe
  ImplementsAgreement
