SPECIFICATION Spec
CONSTANTS
  Chapters = {1, 2, 3}
  Uploaded = 2
  Texts = {t1, t2, t3}
  Sessions = {s1, s2}
  Languages = {zh, en}
  Free = Free
  NoText = NoText
  Kept = 2
  MaxEdits = 3
  MaxCrashes = 1
SYMMETRY Symmetric
INVARIANT ChaptersAreNumbered
PROPERTIES EditIsOfWhatWasSeen OldVersionIsSaved
