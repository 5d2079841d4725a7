\* One member on one connection; nobody refuses a delete, the bridge stays up.
CONSTANTS
  m1 = m1  m2 = m2  c1 = c1  c2 = c2  c3 = c3
  Conn = {c1}
  Member = {m1}
  NoMember = NoMember
  ContentId = {11, 12, 13}
  MaxChar = 4
  SaveMayFail = FALSE
  Slots = 3
  MaxInFlight = 2
  Ambiguous = {}
  Commands = {"list", "check", "commit", "select", "delete"}
  Faults = {"hang up", "companion"}
  MemberOf <- OnlyM1
  SignedIn <- OnlyM1
  Pool <- M1Pool
SPECIFICATION FairSpec
INVARIANTS CommandReachesPicked OfferedIsNotShown SpentOnTheLiving
PROPERTIES CreateGetsNamedId DeliveredIsPersisted NoUnsolicitedList ListAnswered EarlyPairing
CHECK_DEADLOCK FALSE
