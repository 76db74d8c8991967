SPECIFICATION Spec
CONSTANTS
  Jobs = {turn, bad}
  ChatTurns = {turn, bad}
  Plans = {}
  Malformed = {bad}
  Workers = {w1}
  Consumers = {c1}
  MaxRetries = 0
  BatchSize = 2
  MaxFaults = 1
  MaxQuota = 0
INVARIANT InvalidPayloadReported
