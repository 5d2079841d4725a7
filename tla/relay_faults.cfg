\* Two clients whose flows die, are dropped and are rebuilt.
CONSTANTS
  c1 = c1  c2 = c2
  Client = {c1, c2}
  Named = {c1}
  Fragile = {c1}
  Answered = {c1}
  NoClient = NoClient
  MaxFlow = 3
  WORLD_CAP_KEEP = 1
  DiskFails = {3}
  DbFails = TRUE
SPECIFICATION Spec
INVARIANTS RelayTypeOK NoWedge FilesBounded NoCaptureLeak
PROPERTIES ReturnPathServes WatchIsBounded
CHECK_DEADLOCK FALSE
