\* One client whose flow dies and is rebuilt.
CONSTANTS
  c1 = c1  c2 = c2
  Client = {c1}
  Named = {}
  Fragile = {c1}
  Answered = {c1}
  NoClient = NoClient
  MaxFlow = 3
  WORLD_CAP_KEEP = 1
  DiskFails = {}
  DbFails = FALSE
SPECIFICATION Spec
INVARIANTS SuccessorRecords
CHECK_DEADLOCK FALSE
