\* A tax year with two versions of its package; five years around a reform; three files of each
\* kind of report; prices over two months of two days; recaps of two years of two months.
SPECIFICATION ReportsSpec
CONSTANTS
  Parts = {"annual", "facility", "ads", "observations", "prices", "recaps", "knowledge"}
  Year = 2
  Sums = {1}
  MaxProfit = 1
  MaxObligations = 1
  MaxDecisions = 1
  MaxPapers = 2
  FirstYear = 1
  LastYear = 5
  Earliest = 2
  Reform = 7
  MaxProfiles = 3
  Dimensions = {"ad_name", "region"}
  Names = {"a", "x"}
  All = "all"
  Places = {"monday", "tuesday"}
  References = {"r1", "r2", "r3"}
  Spends = {1, 2}
  Files <- SomeFiles
  MaxReports = 3
  Keys = {"may", "june"}
  Figures = {1, 2}
  Imports <- SomeImports
  MaxRows = 4
  partner = partner
  Parties <- SomeParties
  Amounts = {1, 2}
  MaxDay = 4
  MonthDays = 2
  Transcripts <- SomeTranscripts
  RecapYears = {1, 2}
  LastMonth = 2
  TopicsOf <- SomeTopics
  Catalogs <- SomeCatalogs
  LegacyHeads <- SomeHeads
  ReviewDays = 1
  Askers <- SomeAskers
  RequiredSources <- SomeRequired
  ReviewTopics = {"final"}
  PublicTopics = {"workflow"}
  QuotaLimit <- SomeQuotas
  MaxPairs = 2
  MinutesOfDay = 2
  DaysOfMonth = 2
  LastMinute = 4
  MaxEditions = 3
INVARIANTS
  ApprovedBooksStand
  TheFacilityNeverRestarts
  SpendCountedOnce
  FilesReviveNothing
  OnePricePerDay
  YearsTellTheArchive
  AnswersStandOnReviews
PROPERTIES
  FiledAsEvidenced
  PricesStand
CHECK_DEADLOCK FALSE
