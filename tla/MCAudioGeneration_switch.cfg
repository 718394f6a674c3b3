SPECIFICATION Spec
CONSTANTS
  c1 = c1  c2 = c2  r1 = r1  r2 = r2
  Gens = {1}
  Requests = {r1}
  Batch = {}
  Consumers = {c1, c2}
  Texts = {t1, t2}
  Nobody = Nobody
  Revisions = {0, 1}
  Versions = {1, 2}
  MaxClaims = 2
INVARIANT PlayedIsCurrent
SYMMETRY Symmetric
