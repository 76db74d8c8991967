SPECIFICATION FairSpec
CONSTANTS
  Mails = {welcome, reset}
  Consumers = {api}
  MaxRetries = 1
  BatchSize = 2
  MaxFaults = 1
INVARIANTS TypeOK NoMailLost RepeatsNeedFaults ShelvedAfterAllTries
PROPERTY EveryMailSettled
