SPECIFICATION Spec
CONSTANTS
  Jobs = {plan, bad}
  ChatTurns = {bad}
  Plans = {plan}
  Malformed = {bad}
  Workers = {w1, w2}
  Consumers = {c1}
  MaxRetries = 0
  BatchSize = 2
  MaxFaults = 1
  MaxQuota = 0
INVARIANTS IInv NoJobLost
PROPERTY DeliverySafety
SYMMETRY Symmetry
