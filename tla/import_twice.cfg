\* A member who imports twice at once, or plays meanwhile.
CONSTANTS
  m1 = m1  m2 = m2  w1 = w1  w2 = w2
  Worker = {w1, w2}
  NoWorker = NoWorker
  Member = {m1, m2}
  NoMember = NoMember
  ContentId = {11, 12, 13}
  MaxChar = 2
  SaveMayFail = FALSE
  Pool <- TwoPools
  Overlap = TRUE
  Faults = {}
SPECIFICATION Spec
INVARIANTS UniqueContentId
CHECK_DEADLOCK FALSE
