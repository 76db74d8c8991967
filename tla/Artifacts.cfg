SPECIFICATION Spec
CHECK_DEADLOCK FALSE
CONSTANTS
  Turns = {t1, t2}
  Plans = {p1}
  Suites = {q1, q2}
  Bare = {q2}
  Archs = {"sad", "web", "web2", "api", "webLow"}
  Layers = {"web", "api"}
  Wanted <- Designs
  Consumers = {api}
  MaxRequests = 3
  Together = {t1, "sad", "web", "web2", "api", "webLow"}
  MaxFaults = 1
  MaxRemovals = 1
INVARIANTS TypeOK ArtifactsAgree OneOfEach LayersApart PlanRepeatsNeedFaults SequentialTurnsKept CasesOfTestPlan
