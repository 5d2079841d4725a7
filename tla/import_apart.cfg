\* Each member does one thing at a time; anything may fail.
CONSTANTS
  m1 = m1  m2 = m2  w1 = w1  w2 = w2
  Worker = {w1, w2}
  NoWorker = NoWorker
  Member = {m1, m2}
  NoMember = NoMember
  ContentId = {11, 12, 13}
  MaxChar = 2
  SaveMayFail = FALSE
  Pool <- TwoPools
  Overlap = FALSE
  Faults = {"restart", "dump", "db", "statement", "lost", "refused delete"}
SPECIFICATION Spec
INVARIANTS ImportTypeOK UniqueContentId MintedIsNext PairedWithinPool
PROPERTIES ReplyIsTrue ImportAnswered
CHECK_DEADLOCK FALSE
