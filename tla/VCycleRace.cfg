SPECIFICATION Spec
CONSTANTS
  edge = edge  api = api  worker = worker
  operator = operator  owner = owner
  payments = payments  platform = platform
  Service = {edge, api}
  Team = {payments}
  NoTeam = NoTeam
  User = {owner}
  RoleOf <- Roles2
  TeamOf <- AllPayments
  Request = {r1, r2}
  Fresh = Fresh
  SeedTeam <- OneTeam
  SeedEdges <- SeededEdges
  ReadsFail = FALSE
SYMMETRY Symmetry
INVARIANTS GraphAcyclic
