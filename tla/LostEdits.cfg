\* Two people edit one objective.
SPECIFICATION DirectorSpec
CONSTANTS
  Parts = {"approvals"}
  Ona = Ona
  Dan = Dan
  Fay = Fay
  Users = {Ona, Dan}
  RoleOf <- Roles
  Contents = {small, large}
  Kinds = {"objective"}
  NoOne = NoOne
  NoContent = NoContent
  MaxVersion = 3
  Ads = Ads
  Events = Events
  Budgets = {Ads, Events}
  Authorized <- Three
  Sums = {1, 3}
  k1 = k1
  Keys = {k1, k2, k3}
  MaxEntries = 3
  MaxDay = 5
  Weeks = 2
  WeekDays = 2
  LineSums = {2}
  Openings <- Assumed
  Reserve = 1
  MaxLines = 3
  Spring = Spring
  Autumn = Autumn
  Web = Web
  Fair = Fair
  Course = Course
  FirstOrder = FirstOrder
  SecondOrder = SecondOrder
  Campaigns = {Spring, Autumn}
  ChannelOf <- CampaignChannel
  ProductOf <- CampaignProduct
  Channels = {Web, Fair}
  Products = {Course}
  Members = {Mia}
  AdNames = {Poster}
  Orders = {FirstOrder, SecondOrder}
  OrderProduct <- CourseOrders
  OrderDay <- OrderDays
  OrderTotal <- OrderTotals
  LeadNames = {L1, L2}
  LeadStages = {"won", "lost"}
  FollowUps = {0, 1}
  AdSpends = {Unknown, 1}
  Scopes <- LookedAt
  Pages <- Advised
  LastAdDay = 2
  MaxRecords = 3
  MaxTasks = 1
  Unknown = Unknown
  AllRows = AllRows
  Years = {1, 2}
  YearOf <- YearOfBudget
  Dashboards <- ToldFigures
  Spendings = {2}
  Simulated <- SimulatedPrices
  Formulas <- TwoReleases
  Questions = {"overview", "more", "other"}
  Replies <- Sent
  Settings <- Set
  LargestFigure = 8
  MaxSimulations = 2
  MaxMessages = 4
  MaxChanges = 3
  Missing = Missing
  Nobody = Nobody
PROPERTY
  NoEditIsLost
CHECK_DEADLOCK FALSE
