\* Launches over time, at once, in two worlds and under faults, a scene each.
CONSTANTS
  alice = alice  bob = bob  nat = nat  home = home
  primary = primary  alt = alt  c1 = c1  c2 = c2
  Conn = {c1, c2}
  Session = {1, 2, 3}
  NoSession <- Nobody
  Member = {alice, bob}
  NoMember = NoMember
  MemberOf <- Owners
  Address = {nat, home}
  AddressOf <- Addresses
  World = {primary, alt}
  POL_SESSION_MAX_AGE = 1
  CLAIM_TTL = 1
  AMBIGUOUS_WINDOW = 1
  Scenes <- AllScenes
SPECIFICATION Spec
INVARIANTS LaunchTypeOK MapIsTrue DataSessionHeld
PROPERTIES AloneIsServedItsOwn PairIsFlagged SilentTakesNothing HealConverges
CHECK_DEADLOCK FALSE
