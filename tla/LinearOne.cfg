SPECIFICATION Spec
CHECK_DEADLOCK FALSE
CONSTANTS
  Requests = {r1}
  Kinds = {"import", "export", "sync"}
  LinearProjects = {p1, p2}
  BatchSize = 1
  TaskLimit = 2
  MaxRounds = 2
  MaxEdits = 2
  MaxLinks = 2
  MaxFaults = 1
INVARIANTS TypeOK  OneCounterpart FullImportCatchesUp
