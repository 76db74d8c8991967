SPECIFICATION Spec
CHECK_DEADLOCK FALSE
CONSTANTS
  Requests = {r1}
  Kinds = {"sync"}
  LinearProjects = {p1}
  BatchSize = 1
  TaskLimit = 2
  MaxRounds = 2
  MaxEdits = 2
  MaxLinks = 1
  MaxFaults = 1
INVARIANT QuietSyncConverges
