\* Two members playing at once, each on a launch of its own.
CONSTANTS
  m1 = m1  m2 = m2  c1 = c1  c2 = c2  c3 = c3
  Conn = {c1, c3}
  Member = {m1, m2}
  NoMember = NoMember
  ContentId = {11, 12, 13}
  MaxChar = 2
  SaveMayFail = FALSE
  Slots = 2
  MaxInFlight = 2
  Ambiguous = {}
  Commands = {"list", "check", "commit", "select", "delete"}
  Faults = {"expiry"}
  MemberOf <- TwoAttributed
  SignedIn <- TwoSignedIn
  Pool <- TwoPools
SPECIFICATION Spec
INVARIANTS CommandReachesPicked MemberIsolation
PROPERTIES CreateGetsNamedId
CHECK_DEADLOCK FALSE
