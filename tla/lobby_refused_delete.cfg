\* One member on one connection; LSB may refuse a delete.
CONSTANTS
  m1 = m1  m2 = m2  c1 = c1  c2 = c2  c3 = c3
  Conn = {c1}
  Member = {m1}
  NoMember = NoMember
  ContentId = {11, 12}
  MaxChar = 2
  SaveMayFail = FALSE
  Slots = 2
  MaxInFlight = 1
  Ambiguous = {}
  Commands = {"list", "check", "commit", "delete"}
  Faults = {"refused delete"}
  MemberOf <- OnlyM1
  SignedIn <- OnlyM1
  Pool <- M1Pool
SPECIFICATION Spec
PROPERTIES RefusedDeleteKeepsId
CHECK_DEADLOCK FALSE
