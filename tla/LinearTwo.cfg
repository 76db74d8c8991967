SPECIFICATION FairSpec
CHECK_DEADLOCK FALSE
CONSTANTS
  Requests = {r1, r2}
  Kinds = {"import", "export", "sync"}
  LinearProjects = {p1}
  BatchSize = 1
  TaskLimit = 2
  MaxRounds = 2
  MaxEdits = 1
  MaxLinks = 2
  MaxFaults = 0
INVARIANTS IInv SyncRunsClosed
PROPERTY SyncEnds
