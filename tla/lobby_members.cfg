\* Two members; the launch c2 is m2's, was attributed to m1 and flagged, and its
\* client, when it is offered no id, may name one of m2's pool.
CONSTANTS
  m1 = m1  m2 = m2  c1 = c1  c2 = c2  c3 = c3
  Conn = {c1, c2}
  Member = {m1, m2}
  NoMember = NoMember
  ContentId = {11, 12, 13}
  MaxChar = 2
  SaveMayFail = FALSE
  Slots = 2
  MaxInFlight = 1
  Ambiguous = {c2}
  Commands = {"list", "commit", "delete"}
  Faults = {"restart", "refused delete", "unoffered id"}
  MemberOf <- TwoAttributed
  SignedIn <- TwoSignedIn
  Pool <- TwoPools
SPECIFICATION Spec
INVARIANTS MemberIsolation
PROPERTIES BoundIdNeverMoves ImplementsEntitlement
CHECK_DEADLOCK FALSE
