SPECIFICATION Spec
CHECK_DEADLOCK FALSE
CONSTANTS
  ann = ann
  bob = bob
  Users = {ann, bob}
  Requests = {r1, r2, r3}
  None = None
  Teams <- SomeTeams
  RequestsOf <- RequestsByArea
  GivenRoles = {"owner", "member"}
  Tokens = {t1, t2}
  OrgAdmins = {ann}
  GithubRepos = {g1, g2}
  GithubUsers = {ann}
  Ttl = 1
  MaxTime = 2
  HistoryLimit = 1
  MaxDeliveries = 2
INVARIANTS TypeOK OutsidersNeverIn AnswersFollowQuestions
PROPERTIES OwnersKept SerialWhenAlone
SYMMETRY Symmetry
