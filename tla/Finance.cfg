\* One bill paid gross or net of tax over two months; one order and one bill before one bank
\* statement, a closed day and an open one.
SPECIFICATION PartsSpec
CONSTANTS
  Parts = {"purchases", "all"}
  BankAccounts = {"A"}
  MaxDay = 3
  MonthEnds = {1, 3}
  References = {r1}
  Applications = {p1}
  q1 = q1
  q2 = q2
  Releases = {q1, q2}
  Amounts = {1, 2}
  Invoices = {v1}
  Parties = {customer}
  Resellers = {}
  InvoiceTotals = {1}
  Bills = {b1}
  BillTotals = {2, 3}
  Withholdings = {0, 1}
  Statements <- SomeStatements
INVARIANTS
  PayablesTieOut
  CostFollowsService
  RemittancesFollowWithholding
  NoLineOverclaimed
  ResultTiesOut
  ClosedMonthsStayComplete
PROPERTIES
  ImplementsGeneralLedger
CHECK_DEADLOCK FALSE
