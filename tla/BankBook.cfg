\* Two accounts over two months of two days; two overlapping files of four movements.
SPECIFICATION BankPartsSpec
CONSTANTS
  DigitValue <- ZeroAndOne
  MaxAmount = 7
  MaxStamp = 6
  MaxLines = 7
  MaxRows = 3
  HeaderLines = 2
  Parts = {"book", "intake", "reading", "matching", "numbering", "attaching"}
  A = A
  B = B
  BankAccounts = {A, B}
  MaxDay = 5
  MonthEnds = {2, 4}
  References = {r1, r2}
  Amounts = {1, 2}
  Statements <- TwoAccountStatements
  NoReference = "none"
  MaxPreviews = 2
  History <- LookAlikes
  Exports <- Overlapping
  Modes = {"bank_reference", "balance_fingerprint"}
  Deposit = Deposit
  Withdrawal = Withdrawal
  Olga = Olga
  Fitri = Fitri
  p1 = p1
  p2 = p2
  FormLines = {Deposit, Withdrawal}
  LineAmountOf <- LineAmounts
  PagesDrawn = {p1, p2}
  FormAmounts = {0, 1, 2, 3}
  FormUsers = {Olga, Fitri}
  FormRole <- FormRoles
  OrderData <- FilledIn
  ClosedYears = {2}
  Creations = {p1, p2}
  MaxDrafts = 4
  order = order
  bill = bill
  s1 = s1
  s2 = s2
  Attachers = {s1, s2}
  Sources = {order, bill}
  Documents <- Uploaded
  MaxUpload = 3
INVARIANTS
  SnapshotsHold
  BankTiesOut
  ToldOnceRecordedOnce
  FilesAreReadOneWay
CHECK_DEADLOCK FALSE
