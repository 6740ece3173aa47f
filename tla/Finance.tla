------------------------------- MODULE Finance -------------------------------
(***************************************************************************)
(* The finance services together: sales and purchases compete for the same *)
(* bank lines, post to one journal and stand before one month close, whose *)
(* blockers are those of all of them (finance/services.py _close_blockers, *)
(* close_month).                                                           *)
(***************************************************************************)
EXTENDS Receivables, Payables

Sets == INSTANCE FiniteSetsExt

\* Faulty CloseBlockers: purchases are forgotten.
CloseBlockersOfSales(end) == BankBlocked(end) \/ ReceivablesBlocked(end)

\* _close_blockers, complete.
CloseBlockers(end) == BankBlocked(end) \/ ReceivablesBlocked(end) \/ PayablesBlocked(end)

documentVars == <<bankVars, invoiceVars, billVars>>

\* close_month
CloseMonth(end) == Close(end, CloseBlockers(end)) /\ UNCHANGED documentVars

FinanceInit == ReceivablesInit /\ PayablesInit

FinanceNext ==
  \/ NextDay /\ UNCHANGED documentVars
  \/ \E end \in MonthEnds : CloseMonth(end)
  \/ \E file \in Statements : ImportBankCsv(file) /\ UNCHANGED <<invoiceVars, billVars>>
  \/ BankStep /\ UNCHANGED <<invoiceVars, billVars>>
  \/ (InvoiceStep \/ CollectionStep) /\ UNCHANGED billVars
  \/ (BillStep \/ PaymentStep) /\ UNCHANGED invoiceVars

financeVars == <<ledgerVars, bankVars, invoiceVars, billVars>>

FinanceSpec == FinanceInit /\ [][FinanceNext]_financeVars

-----------------------------------------------------------------------------
(* Properties *)

\* On every day the accounts that no close blocker compares equal their documents too:
\* revenue the deliveries, expense the fees, bills and releases, equity the openings and
\* the owner's funding. Profit can be derived without the journal.
ResultTiesOut ==
  \A day \in Days :
    LET expensed == {b \in Upto(ApprovedBills, day) : ~Prepaid(b)}
        opened == Upto(openings, day)
    IN
    /\ Balance("REVENUE", day) = - Total(Upto(deliveries, day))
    /\ Balance("EXPENSE", day) =
         Total(expensed) + Total(Upto(releases, day)) + ClaimsOf("bank_fee", day)
    /\ Balance("EQUITY", day) =
         Moved(opened, "out") - Moved(opened, "in") - ClaimsOf("owner_funding", day)

\* What close_month found complete stays complete on both sides of the books, whatever
\* sales, purchases and bank services do afterwards.
ClosedMonthsStayComplete == ClosedMonthsStaySettled /\ ClosedMonthsStayFinished

\* The finance services implement the ledger the owner relies on: a report as of a day in
\* or before a closed month never changes, and all others stay balanced.
FrozenUpto == IF closings = {} THEN 0 ELSE Sets!Max(ClosedMonths)

Reports == INSTANCE GeneralLedger
             WITH book <- [day \in Days |-> TrialBalance(day)], frozen <- FrozenUpto

ImplementsGeneralLedger == Reports!Spec
=============================================================================
