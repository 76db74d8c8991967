SPECIFICATION Spec
CHECK_DEADLOCK FALSE
CONSTANTS
  Turns = {t1, t2}
  Plans = {}
  Suites = {}
  Bare = {}
  Archs = {"sad", "web", "web2", "api", "webLow"}
  Layers = {"web", "api"}
  Wanted <- Designs
  Consumers = {api}
  MaxRequests = 2
  Together = {}
  MaxFaults = 0
  MaxRemovals = 0
INVARIANT TurnsKept
