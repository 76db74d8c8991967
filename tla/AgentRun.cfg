SPECIFICATION FairSpec
CHECK_DEADLOCK FALSE
CONSTANTS
  Workers = {w1, w2}
  NumJobs = 1
  Kinds = {"requirements", "developer_intelligence", "planner", "qa_intelligence", "arch_doc", "ragnarock_chat"}
  Sessions <- SessionsUnderWay
  Drafts <- SomeDrafts
  MaxRetries = 1
  MaxQuota = 1
  MaxRepeats = 1
  MaxFaults = 1
INVARIANTS TypeOK SrsRepeatsNeedReruns AnswersRemembered CallsBounded FailedForAReason
PROPERTY EveryJobDecided
