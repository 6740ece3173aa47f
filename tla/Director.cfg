\* Three people and one proposal; two budgets of three units and three entries; a cash plan
\* whose cut-off moves over four days, with three lines, over two weeks of two days; nine
\* scopes over three days of marketing with three records.
SPECIFICATION DirectorSpec
CONSTANTS
  Parts = {"approvals", "budgets", "briefing", "cash", "figures", "advice"}
  Ona = Ona
  Dan = Dan
  Fay = Fay
  Users = {Ona, Dan, Fay}
  RoleOf <- Roles
  Contents = {small, large}
  Kinds = {"objective", "decision", "budget"}
  NoOne = NoOne
  NoContent = NoContent
  MaxVersion = 2
  Ads = Ads
  Events = Events
  Budgets = {Ads, Events}
  Authorized <- Three
  Sums = {1, 3}
  k1 = k1
  Keys = {k1, k2, k3}
  MaxEntries = 3
  MaxDay = 4
  Weeks = 2
  WeekDays = 2
  LineSums = {2}
  Openings <- Assumed
  Reserve = 1
  MaxLines = 3
  Spring = Spring
  Autumn = Autumn
  Web = Web
  Fair = Fair
  Course = Course
  FirstOrder = FirstOrder
  SecondOrder = SecondOrder
  Campaigns = {Spring, Autumn}
  ChannelOf <- CampaignChannel
  ProductOf <- CampaignProduct
  Channels = {Web, Fair}
  Products = {Course}
  Members = {Mia}
  AdNames = {Poster}
  Orders = {FirstOrder, SecondOrder}
  OrderProduct <- CourseOrders
  OrderDay <- OrderDays
  OrderTotal <- OrderTotals
  LeadNames = {L1, L2}
  LeadStages = {"won", "lost"}
  FollowUps = {0, 1}
  AdSpends = {Unknown, 1}
  Scopes <- LookedAt
  Pages <- Advised
  LastAdDay = 2
  MaxRecords = 3
  MaxTasks = 1
  Unknown = Unknown
  AllRows = AllRows
  Years = {1, 2}
  YearOf <- YearOfBudget
  Dashboards <- ToldFigures
  Spendings = {2}
  Simulated <- SimulatedPrices
  Formulas <- TwoReleases
  Questions = {"overview", "more", "other"}
  Replies <- Sent
  Settings <- Set
  LargestFigure = 8
  MaxSimulations = 2
  MaxMessages = 4
  MaxChanges = 3
  Missing = Missing
  Nobody = Nobody
INVARIANTS
  ApprovedByAnother
  BudgetsKept
  BriefingsTellOneMoment
  ForecastTellsThePlan
  FiguresCompareLikeWithLike
PROPERTIES
  SignedAsShown
SYMMETRY Interchangeable
CHECK_DEADLOCK FALSE
