SPECIFICATION Spec
CHECK_DEADLOCK FALSE
CONSTANTS
  Workers = {w1}
  NumJobs = 1
  Kinds = {"planner", "qa_intelligence"}
  Sessions <- SessionsUnderWay
  Drafts <- SomeDrafts
  MaxRetries = 0
  MaxQuota = 0
  MaxRepeats = 0
  MaxFaults = 0
INVARIANT FeatureIdsCarried
