\* One member on one connection; everything that may fail, fails.
CONSTANTS
  m1 = m1  m2 = m2  c1 = c1  c2 = c2  c3 = c3
  Conn = {c1}
  Member = {m1}
  NoMember = NoMember
  ContentId = {11, 12}
  MaxChar = 2
  SaveMayFail = TRUE
  Slots = 2
  MaxInFlight = 2
  Ambiguous = {}
  Commands = {"list", "check", "commit", "select", "delete"}
  Faults = {"hang up", "restart", "db", "companion", "refused create", "refused delete", "expiry", "unoffered id"}
  MemberOf <- OnlyM1
  SignedIn <- OnlyM1
  Pool <- M1Pool
SPECIFICATION Spec
INVARIANTS TypeOK UniqueContentId
CHECK_DEADLOCK FALSE
