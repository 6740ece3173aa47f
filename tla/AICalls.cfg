\* One company with an owner and a member of the marketing team, both services, two calls over
\* two months, while access and consent are given and taken, and a provider that need not answer.
SPECIFICATION AISpec
CONSTANTS
  A = A
  B = B
  Uma = Uma
  Vic = Vic
  NoCost = NoCost
  NoOne = NoOne
  Ceiling = 2
  Services = {"director", "marketing"}
  Orgs = {A}
  Users = {Uma, Vic}
  Team <- OwnerAndMarketer
  RolesOffered = {"none"}
  Terms <- TwoCalls
  Budget = 4
  UserBudget = 4
  Costs = {3}
  MidnightInside = FALSE
  MaxCalls = 2
  MaxMonth = 2
  MaxVersion = 2
PROPERTIES
  OneConsentThroughout
  EveryCallEnds
CHECK_DEADLOCK FALSE
