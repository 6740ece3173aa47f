\* One order of a customer or a reseller, over a month of two days and a third day; over two
\* days, two orders or one with two leads.
SPECIFICATION PartsSpec
CONSTANTS
  Parts = {"order", "rivals", "leads"}
  BankAccounts = {"A"}
  MaxDay = 3
  MonthEnds = {2}
  References = {r1, r2}
  Applications = {p1}
  Amounts = {1, 2}
  v1 = v1
  v2 = v2
  Invoices = {v1, v2}
  Parties = {customer, reseller}
  Resellers = {reseller}
  InvoiceTotals = {2}
  Statements <- SomeStatements
  Leads = {l1, l2}
  Channels = {c1, c2}
  Stages = {"new", "won"}
  Unknown = Unknown
INVARIANTS
  SubledgersTieOut
  NoPartyOverrefunded
  ResellerPaidByDelivery
  CohortsWithinReceipts
SYMMETRY Interchangeable
CHECK_DEADLOCK FALSE
