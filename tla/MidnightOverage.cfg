\* A reservation made while the month turns, and its overage.
SPECIFICATION AISpec
CONSTANTS
  A = A
  B = B
  Uma = Uma
  Vic = Vic
  NoCost = NoCost
  NoOne = NoOne
  Ceiling = 2
  Services = {"director"}
  Orgs = {A}
  Users = {Uma}
  Team <- OwnerAndMarketer
  RolesOffered = {}
  Terms <- TwoCalls
  Budget = 6
  UserBudget = 4
  Costs = {3}
  MidnightInside = TRUE
  MaxCalls = 1
  MaxMonth = 2
  MaxVersion = 1
INVARIANTS
  CountersMatch
CHECK_DEADLOCK FALSE
