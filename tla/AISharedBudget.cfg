\* Two companies and both services spend from the same budgets in one month.
SPECIFICATION AISpec
CONSTANTS
  A = A
  B = B
  Uma = Uma
  Vic = Vic
  NoCost = NoCost
  NoOne = NoOne
  Ceiling = 2
  Services = {"director", "marketing"}
  Orgs = {A, B}
  Users = {Uma, Vic}
  Team <- TwoOwners
  RolesOffered = {}
  Terms <- TwoCalls
  Budget = 4
  UserBudget = 4
  Costs = {3}
  MidnightInside = FALSE
  MaxCalls = 3
  MaxMonth = 1
  MaxVersion = 1
INVARIANTS
  CountersMatch
PROPERTIES
  AdmissionWithinLimits
SYMMETRY Interchangeable
CHECK_DEADLOCK FALSE
