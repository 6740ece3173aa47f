------------------------------ MODULE Payables ------------------------------
(***************************************************************************)
(* Supplier bills: approval, the tax decision, payment in full or net of   *)
(* withheld tax, the remittance of that tax and the release of prepaid     *)
(* cost (finance/services.py, finance/models.py Bill, BillPayment,         *)
(* WithholdingSettlement, TaxRemittance, PrepaymentRelease;                *)
(* taxes/workflow.py review_bill_tax).                                     *)
(***************************************************************************)
EXTENDS BankBook

CONSTANTS
  Bills,           \* bill identities
  BillTotals,      \* gross totals a supplier may bill
  Withholdings,    \* withheld amounts a professional review may conclude, 0 for none
  Releases         \* references a user types for a prepayment release

ASSUME PayablesAssumption ==
  /\ BillTotals \subseteq Nat \ {0}
  /\ Withholdings \subseteq Nat

VARIABLES
  bills,           \* Bill rows: the columns approval freezes
  approved,        \* the bills of status "approved"; the others are drafts
  decisions,       \* BillTaxDecision rows, each with its TaxObligation if it withholds
  releases         \* PrepaymentRelease rows

billVars == <<bills, approved, decisions, releases>>

Bill == [id : Bills, date : Days, service : Days, category : {"expense", "prepayment"},
         amount : Nat \ {0}]

-----------------------------------------------------------------------------
(* Reading the payable subledger *)

\* Faulty Prepaid: only the bills the user filed as prepayments.
PrepaidByCategory(b) == b.category = "prepayment"

\* approve_bill, Bill.prepaid_remaining and _close_blockers: cost of a later service.
Prepaid(b) == b.category = "prepayment" \/ b.service > b.date

ApprovedBills == {b \in bills : b.id \in approved}
DecisionsOn(b) == {d \in decisions : d.bill = b.id}

PaymentsOf(b) == {c \in claims : c.kind = "bill_payment" /\ c.doc = <<"bill", b.id>>}
SettlementsOf(b) == {c \in claims : c.kind = "withheld_supplier" /\ c.doc = <<"bill", b.id>>}

\* Bill.outstanding_amount; a settlement extinguishes the gross amount.
BillOutstanding(b) ==
  b.amount - Total(PaymentsOf(b)) - (IF SettlementsOf(b) = {} THEN 0 ELSE b.amount)

Released(b, day) == Total({r \in releases : r.bill = b.id /\ r.date <= day})

\* Bill.prepaid_remaining
PrepaidRemaining(b) ==
  IF b.id \in approved /\ Prepaid(b) THEN b.amount - Total({r \in releases : r.bill = b.id}) ELSE 0

\* A month, known by its last day, contains a day.
InMonth(day, month) ==
  month \in MonthEnds /\ day <= month /\ ~ \E e \in MonthEnds : day <= e /\ e < month

-----------------------------------------------------------------------------
(* Services *)

BillCreated(b) ==
  /\ ~ \E other \in bills : other.id = b.id
  /\ bills' = bills \cup {b}
  /\ UNCHANGED <<ledgerVars, bankVars, approved, decisions, releases>>

\* create_bill: a draft in an open period; the service may lie before or after.
CreateBill(b) == OpenPeriod(b.date) /\ BillCreated(b)

BillApproved(b, account) ==
  /\ b.id \notin approved
  /\ Post(<<"bill", b.id>>, b.date, {Dr(account, b.amount), Cr("AP", b.amount)})
  /\ approved' = approved \cup {b.id}
  /\ UNCHANGED <<today, closings, bankVars, bills, decisions, releases>>

\* approve_bill: the gross amount is owed; the cost is an expense, or prepaid.
ApproveBill(b) == BillApproved(b, IF Prepaid(b) THEN "PREPAID" ELSE "EXPENSE")

\* A rate of a base within the bill, for a month up to the current one; never overwritten.
BillTaxDecided(b, month, withheld) ==
  /\ DecisionsOn(b) = {}
  /\ \A e \in MonthEnds : today <= e => month <= e
  /\ withheld < b.amount
  /\ decisions' = decisions \cup {[bill |-> b.id, month |-> month, amount |-> withheld]}
  /\ UNCHANGED <<ledgerVars, bankVars, bills, approved, releases>>

\* review_bill_tax: one decision per approved bill.
ReviewBillTax(b, month, withheld) == b.id \in approved /\ BillTaxDecided(b, month, withheld)

\* The BillPayment of an outgoing line for a bill reviewed as free of withholding, and
\* its journal; one per pair of line and bill.
PaymentPosted(b, line, amount) ==
  LET key == <<"bill-payment", b.id, line.account, line.reference>> IN
  /\ line \in bank /\ line.date <= today /\ line.direction = "out"
  /\ key \notin ClaimKeys
  /\ b.id \in approved
  /\ \E d \in DecisionsOn(b) : d.amount = 0
  /\ Post(key, line.date, {Dr("AP", amount), Cr("BANK", amount)})
  /\ claims' = claims \cup {Claim("bill_payment", key, <<"bill", b.id>>, line, amount)}
  /\ UNCHANGED <<today, closings, bank, openings, billVars>>

\* Faulty ReconcileBillPayment: the bill's remainder is not asked for.
ReconcileBillPaymentOverBill(b, line, amount) ==
  line.date >= b.date /\ amount <= Unallocated(line) /\ PaymentPosted(b, line, amount)

\* reconcile_bill_payment: within what is left of line and bill, not before the bill.
ReconcileBillPayment(b, line, amount) ==
  /\ line.date >= b.date
  /\ amount <= Unallocated(line)
  /\ amount <= BillOutstanding(b)
  /\ PaymentPosted(b, line, amount)

\* reconcile_withheld_bill_payment: the whole net amount from one bank line of the
\* decided month; the bill is extinguished and the tax becomes payable.
ReconcileWithheldBillPayment(b, line) ==
  \E d \in DecisionsOn(b) :
    LET net == b.amount - d.amount
        key == <<"bank-event", "withheld-bill", b.id>>
    IN
    /\ b.id \in approved
    /\ d.amount > 0
    /\ PaymentsOf(b) = {} /\ BillOutstanding(b) = b.amount
    /\ line \in bank
    /\ line.date <= today
    /\ line.date >= b.date /\ InMonth(line.date, d.month)
    /\ key \notin ClaimKeys
    /\ line.direction = "out"
    /\ net <= Unallocated(line)
    /\ Post(key, line.date, {Dr("AP", b.amount), Cr("BANK", net), Cr("TAX_PAYABLE", d.amount)})
    /\ claims' = claims \cup {Claim("withheld_supplier", key, <<"bill", b.id>>, line, net)}
    /\ UNCHANGED <<today, closings, bank, openings, billVars>>

\* Tax of a bill paid to the state, within what was withheld and not remitted yet.
TaxRemitted(d, line, amount, reference) ==
  /\ amount <= d.amount - Total({c \in claims : c.doc = <<"obligation", d.bill>>})
  /\ BankPost(line, "out", amount, "tax_remittance", reference, <<"obligation", d.bill>>,
              {Dr("TAX_PAYABLE", amount), Cr("BANK", amount)})
  /\ UNCHANGED <<today, closings, bank, openings, billVars>>

\* Faulty ReconcileTaxRemittance: the settlement's date is not asked for.
ReconcileTaxRemittanceAnyDay(d, line, amount, reference) ==
  /\ \E c \in claims : c.kind = "withheld_supplier" /\ c.doc = <<"bill", d.bill>>
  /\ TaxRemitted(d, line, amount, reference)

\* reconcile_tax_remittance: not before the settlement that withheld it.
ReconcileTaxRemittance(d, line, amount, reference) ==
  /\ \E c \in claims : /\ c.kind = "withheld_supplier" /\ c.doc = <<"bill", d.bill>>
                       /\ line.date >= c.line.date
  /\ TaxRemitted(d, line, amount, reference)

\* Prepaid cost of a bill becomes an expense, with its journal.
PrepaymentReleased(b, date, amount, reference) ==
  /\ ~ \E r \in releases : r.reference = reference
  /\ amount <= PrepaidRemaining(b)
  /\ Post(<<"prepayment", reference>>, date, {Dr("EXPENSE", amount), Cr("PREPAID", amount)})
  /\ releases' = releases \cup
       {[reference |-> reference, bill |-> b.id, date |-> date, amount |-> amount]}
  /\ UNCHANGED <<today, closings, bankVars, bills, approved, decisions>>

\* release_prepayment: once the service has been had and the bill is dated.
ReleasePrepayment(b, date, amount, reference) ==
  /\ date <= today
  /\ date >= b.date /\ date >= b.service
  /\ PrepaymentReleased(b, date, amount, reference)

-----------------------------------------------------------------------------
(* Closing *)

\* The settled bills up to a day, with the amount owed and the amount withheld.
SettledGross(day) ==
  Total({b \in bills : \E c \in SettlementsOf(b) : c.line.date <= day})
SettledTax(day) ==
  Total({d \in decisions : \E b \in bills : /\ b.id = d.bill
                                            /\ \E c \in SettlementsOf(b) : c.line.date <= day})

\* The three comparisons _close_blockers makes between the ledger and the bills.
PayableTieOut(account, day) ==
  LET owed == Upto(ApprovedBills, day)
      prepaid == {b \in owed : Prepaid(b)}
      released == {r \in releases : r.date <= day /\ \E b \in prepaid : r.bill = b.id}
  IN CASE account = "PREPAID" -> Total(prepaid) - Total(released)
       [] account = "AP" -> - (Total(owed) - ClaimsOf("bill_payment", day) - SettledGross(day))
       [] account = "TAX_PAYABLE" -> - (SettledTax(day) - ClaimsOf("tax_remittance", day))

PayableAccounts == {"PREPAID", "AP", "TAX_PAYABLE"}

\* What a bill dated in a month still lacks at the end of it: approval, a tax decision,
\* the release of a service that has been had, the settlement of tax due that month.
BillUnfinished(b, end) ==
  \/ b.id \notin approved
  \/ DecisionsOn(b) = {}
  \/ Prepaid(b) /\ b.service <= end /\ Released(b, end) < b.amount
  \/ /\ \E d \in DecisionsOn(b) : d.amount > 0 /\ d.month <= end
     /\ ~ \E c \in SettlementsOf(b) : c.line.date <= end

\* The part of _close_blockers that concerns bills, for a month ending on day end.
PayablesBlocked(end) ==
  \/ \E b \in bills : b.date <= end /\ BillUnfinished(b, end)
  \/ \E account \in PayableAccounts : Balance(account, end) # PayableTieOut(account, end)

-----------------------------------------------------------------------------
PayablesInit ==
  /\ BankInit
  /\ bills = {} /\ approved = {} /\ decisions = {} /\ releases = {}

\* The services on bills, each with the inputs a user may choose.
BillStep ==
  \/ \E i \in Bills, date, service \in Days, category \in {"expense", "prepayment"},
        total \in BillTotals :
       CreateBill([id |-> i, date |-> date, service |-> service, category |-> category,
                   amount |-> total])
  \/ \E b \in bills : ApproveBill(b)
  \/ \E b \in bills, month \in MonthEnds, withheld \in Withholdings :
       ReviewBillTax(b, month, withheld)
  \/ \E b \in bills, date \in Days, amount \in Amounts, reference \in Releases :
       ReleasePrepayment(b, date, amount, reference)

PaymentStep ==
  \/ \E b \in bills, line \in bank, amount \in Amounts : ReconcileBillPayment(b, line, amount)
  \/ \E b \in bills, line \in bank : ReconcileWithheldBillPayment(b, line)
  \/ \E d \in decisions, line \in bank, amount \in Amounts, reference \in References :
       ReconcileTaxRemittance(d, line, amount, reference)

PayablesNext ==
  \/ NextDay /\ UNCHANGED <<bankVars, billVars>>
  \/ \E end \in MonthEnds :
       Close(end, BankBlocked(end) \/ PayablesBlocked(end)) /\ UNCHANGED <<bankVars, billVars>>
  \/ \E file \in Statements : ImportBankCsv(file) /\ UNCHANGED billVars
  \/ BillStep
  \/ PaymentStep

payablesVars == <<ledgerVars, bankVars, billVars>>

PayablesSpec == PayablesInit /\ [][PayablesNext]_payablesVars
-----------------------------------------------------------------------------
(* Properties *)

\* The type invariant; a decision is about an approved bill and a release about a
\* prepaid one.
PayablesTypeOK ==
  /\ BankTypeOK
  /\ bills \subseteq Bill
  /\ approved \subseteq {b.id : b \in bills}
  /\ decisions \subseteq [bill : approved, month : MonthEnds, amount : Nat]
  /\ releases \subseteq [reference : Releases, bill : {b.id : b \in {x \in bills : Prepaid(x)}},
                         date : Days, amount : Nat \ {0}]

\* A bill is paid at most once over: gross payments within its total, or one net
\* settlement alone, and the two ways of paying never meet on one bill.
PaidOnce ==
  \A b \in bills :
    /\ Total(PaymentsOf(b)) <= b.amount
    /\ Cardinality(SettlementsOf(b)) <= 1
    /\ SettlementsOf(b) # {} => PaymentsOf(b) = {}

\* Bills are paid once, and on every day, not only at a close, the control accounts of
\* bills equal what bills, payments, settlements, remittances and releases add up to.
\* Suppliers and the state are owed and prepaid cost is an asset: no payment, remittance
\* or release is dated before what it settles.
PayablesTieOut ==
  /\ PaidOnce
  /\ \A day \in Days :
       /\ \A account \in PayableAccounts : Balance(account, day) = PayableTieOut(account, day)
       /\ Balance("AP", day) <= 0
       /\ Balance("TAX_PAYABLE", day) <= 0
       /\ Balance("PREPAID", day) >= 0

\* What a bill cost, by the journals made for it, up to a day.
CostOf(b, day) ==
  Total({l \in journal :
           /\ l.account = "EXPENSE" /\ l.date <= day
           /\ \/ l.key = <<"bill", b.id>>
              \/ \E r \in releases : r.bill = b.id /\ l.key = <<"prepayment", r.reference>>})

\* A bill's cost is recognised once, never beyond its total, and never before the day
\* of the service: at approval for a past service, by releases for a later one.
CostFollowsService ==
  \A b \in bills, day \in Days :
    /\ CostOf(b, day) <= b.amount
    /\ day < b.service => CostOf(b, day) = 0

\* No day sees more tax of a bill remitted than was withheld from its supplier by then.
RemittancesFollowWithholding ==
  \A d \in decisions, day \in Days :
    LET settled == \E c \in claims : /\ c.kind = "withheld_supplier" /\ c.line.date <= day
                                     /\ c.doc = <<"bill", d.bill>>
    IN Total({c \in claims : c.doc = <<"obligation", d.bill>> /\ c.line.date <= day})
         <= (IF settled THEN d.amount ELSE 0)

\* What close_month found finished stays finished: no later step brings an unexplained
\* bank line, a draft, an undecided tax or an unreleased cost into a closed month.
ClosedMonthsStayFinished ==
  \A end \in ClosedMonths :
    /\ ~BankBlocked(end)
    /\ \A b \in bills : b.date <= end => ~BillUnfinished(b, end)
=============================================================================
