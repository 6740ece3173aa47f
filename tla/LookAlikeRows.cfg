\* Two adjacent files of a day on which the balance returns to what it was.
SPECIFICATION BankPartsSpec
CONSTANTS
  DigitValue <- ZeroAndOne
  MaxAmount = 6
  MaxStamp = 6
  MaxLines = 7
  MaxRows = 3
  HeaderLines = 2
  Parts = {"intake"}
  A = A
  B = B
  BankAccounts = {A, B}
  MaxDay = 5
  MonthEnds = {2, 4}
  References = {r1, r2}
  Amounts = {1, 2}
  Statements <- TwoAccountStatements
  NoReference = "none"
  MaxPreviews = 2
  History <- ThereAndBack
  Exports <- Adjacent
  Modes = {"balance_fingerprint"}
  Deposit = Deposit
  Withdrawal = Withdrawal
  Olga = Olga
  Fitri = Fitri
  p1 = p1
  p2 = p2
  FormLines = {Deposit, Withdrawal}
  LineAmountOf <- LineAmounts
  PagesDrawn = {p1, p2}
  FormAmounts = {0, 1, 2, 3}
  FormUsers = {Olga, Fitri}
  FormRole <- FormRoles
  OrderData <- FilledIn
  ClosedYears = {2}
  Creations = {p1, p2}
  MaxDrafts = 4
  order = order
  bill = bill
  s1 = s1
  s2 = s2
  Attachers = {s1, s2}
  Sources = {order, bill}
  Documents <- Uploaded
  MaxUpload = 3
INVARIANT
  BooksMatchStatements
CHECK_DEADLOCK FALSE
