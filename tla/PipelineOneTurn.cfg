SPECIFICATION FairSpec
CONSTANTS
  Jobs = {turn}
  ChatTurns = {turn}
  Plans = {}
  Malformed = {}
  Workers = {w1}
  Consumers = {c1}
  MaxRetries = 1
  BatchSize = 1
  MaxFaults = 2
  MaxQuota = 1
INVARIANTS TypeOK DuplicatesNeedFaults VerdictsAgree AttemptsBounded FailedJobsAreShelved
PROPERTY EveryJobSettled
