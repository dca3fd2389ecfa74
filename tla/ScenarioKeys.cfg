SPECIFICATION FairSpec
CONSTANTS
  s1 = s1
  s2 = s2
  s3 = s3
  admin = admin
  operator = operator
  owner = owner
  reviewer = reviewer
  NoKey = NoKey
  NoResult = NoResult
  NoOne = NoOne
  Scenario = {s1, s2}
  Request = {r1, r2}
  User = {operator, owner}
  RoleOf <- AllRoles
  Key = {kSeed, k1}
  Input = {i1, i2}
  Outcome <- Evidence
  SeedScenario = s1
  SeedInput = i1
  SeedKey = kSeed
  SeedUser = operator
  MaxTrail <- TwoEach
INVARIANTS SimulateAnswerFits ResultReproducible
PROPERTIES EveryRequestAnswered
CHECK_DEADLOCK FALSE
