---------------------------- MODULE Receivables ----------------------------
(***************************************************************************)
(* Sales invoices from draft to delivery or cancellation, and the money    *)
(* collected for them: receipts, customer advances, applications, refunds  *)
(* (finance/services.py, finance/models.py Invoice, Allocation,            *)
(* CustomerAdvance, AdvanceApplication, InvoiceCancellation,               *)
(* CustomerRefund).                                                        *)
(***************************************************************************)
EXTENDS BankBook

CONSTANTS
  Invoices,        \* invoice identities
  Parties,         \* customers and resellers
  Resellers,       \* the parties of kind "reseller"
  InvoiceTotals,   \* totals (unit price times quantity) a user may invoice
  Applications     \* references a user types for an advance application

ASSUME ReceivablesAssumption ==
  /\ Resellers \subseteq Parties
  /\ InvoiceTotals \subseteq Nat \ {0}

VARIABLES
  invoices,        \* Invoice rows: what issuing freezes (party, dates, total as amount)
  status,          \* Invoice.status of each identity, "none" before it exists
  deliveries,      \* the delivered_at column of delivered invoices
  cancellations,   \* InvoiceCancellation rows
  applications     \* AdvanceApplication rows

invoiceVars == <<invoices, status, deliveries, cancellations, applications>>

Invoice == [id : Invoices, party : Parties, date : Days, service : Days, amount : Nat \ {0}]

-----------------------------------------------------------------------------
(* Reading the receivable subledger *)

\* Money collected for an invoice: receipts by the bank's date, advances by the date
\* of their application. Day MaxDay or later gives Invoice.paid_amount.
PaidBy(v, day) ==
    Total({c \in claims : c.doc = <<"receipt", v.id>> /\ c.line.date <= day})
  + Total({a \in applications : a.invoice = v.id /\ a.date <= day})
Paid(v) ==
    Total({c \in claims : c.doc = <<"receipt", v.id>>})
  + Total({a \in applications : a.invoice = v.id})

\* Invoice.outstanding_amount
Outstanding(v) == IF status[v.id] = "cancelled" THEN 0 ELSE v.amount - Paid(v)

Advances == {c \in claims : c.kind = "customer_advance"}

RefundedFrom(origin) == Total({c \in claims : c.kind = "customer_refund" /\ c.doc = origin})

\* CustomerAdvance.remaining_amount; an advance is known by the key of its bank posting.
AdvanceRemaining(adv) ==
  adv.amount - Total({a \in applications : a.advance = adv.key})
             - RefundedFrom(<<"advance", adv.key>>)

\* Faulty RefundRemaining: what the order was worth, whatever of it was paid.
RefundRemainingOfTotal(x) == x.amount - RefundedFrom(<<"cancellation", x.invoice>>)

\* InvoiceCancellation.refund_remaining
RefundRemaining(x) == x.refundable - RefundedFrom(<<"cancellation", x.invoice>>)

-----------------------------------------------------------------------------
(* Services *)

DraftCreated(v) ==
  /\ status[v.id] = "none"
  /\ invoices' = invoices \cup {v}
  /\ status' = [status EXCEPT ![v.id] = "draft"]
  /\ UNCHANGED <<ledgerVars, bankVars, deliveries, cancellations, applications>>

\* create_invoice: a draft in an open period. Its dates are free: it may be dated in
\* the future and its service day may lie before its own date.
CreateInvoice(v) == OpenPeriod(v.date) /\ DraftCreated(v)

\* issue_invoice: the whole total becomes receivable and deferred on the invoice date.
IssueInvoice(v) ==
  /\ status[v.id] = "draft"
  /\ Post(<<"invoice", v.id, "issue">>, v.date,
          {Dr("AR", v.amount), Cr("DEFERRED_REVENUE", v.amount)})
  /\ status' = [status EXCEPT ![v.id] = "issued"]
  /\ UNCHANGED <<today, closings, bankVars, invoices, deliveries, cancellations, applications>>

\* The journal of a delivery, posted on a day, and the delivered row.
DeliveryPosted(v, date, posting) ==
  /\ Post(<<"invoice", v.id, "delivery">>, posting,
          {Dr("DEFERRED_REVENUE", v.amount), Cr("REVENUE", v.amount)})
  /\ status' = [status EXCEPT ![v.id] = "delivered"]
  /\ deliveries' = deliveries \cup {[invoice |-> v.id, date |-> date, amount |-> v.amount]}
  /\ UNCHANGED <<today, closings, bankVars, invoices, cancellations, applications>>

\* Faulty RecordDelivery: a reseller's payments of any day count; or the journal takes
\* the invoice's date.
RecordDeliveryPaidEver(v, date) ==
  /\ date <= today /\ date >= v.date /\ status[v.id] = "issued"
  /\ v.party \in Resellers => Paid(v) >= v.amount
  /\ DeliveryPosted(v, date, date)

RecordDeliveryOnInvoiceDate(v, date) ==
  /\ date <= today /\ date >= v.date /\ status[v.id] = "issued"
  /\ v.party \in Resellers => PaidBy(v, date) >= v.amount
  /\ DeliveryPosted(v, date, v.date)

\* record_delivery: revenue on the actual service day; a reseller's order must have
\* been paid in full by that day.
RecordDelivery(v, date) ==
  /\ date <= today
  /\ status[v.id] = "issued"
  /\ date >= v.date
  /\ v.party \in Resellers => PaidBy(v, date) >= v.amount
  /\ DeliveryPosted(v, date, date)

\* The Allocation of an incoming line to an order in force, and its journal; one per
\* pair of line and invoice.
ReceiptPosted(v, line, amount) ==
  LET key == <<"allocation", v.id, line.account, line.reference>> IN
  /\ line \in bank /\ line.date <= today /\ line.direction = "in"
  /\ key \notin ClaimKeys
  /\ status[v.id] \in {"issued", "delivered"}
  /\ Post(key, line.date, {Dr("BANK", amount), Cr("AR", amount)})
  /\ claims' = claims \cup {Claim("receipt", key, <<"receipt", v.id>>, line, amount)}
  /\ UNCHANGED <<today, closings, bank, openings, invoiceVars>>

\* reconcile_receipt: within what is left of line and order, not before the order.
ReconcileReceipt(v, line, amount) ==
  /\ line.date >= v.date
  /\ amount <= Unallocated(line)
  /\ amount <= Outstanding(v)
  /\ ReceiptPosted(v, line, amount)

\* record_customer_advance: money received before an invoice is owed to the party.
RecordCustomerAdvance(party, line, amount, reference) ==
  /\ BankPost(line, "in", amount, "customer_advance", reference, <<"party", party>>,
              {Dr("BANK", amount), Cr("CUSTOMER_ADVANCE", amount)})
  /\ UNCHANGED <<today, closings, bank, openings, invoiceVars>>

\* An advance of the same party applied to an order in force, and its journal.
AdvanceApplied(adv, v, date, amount, reference) ==
  /\ ~ \E a \in applications : a.reference = reference
  /\ status[v.id] \in {"issued", "delivered"}
  /\ adv.doc = <<"party", v.party>>
  /\ date <= today /\ date >= v.date /\ date >= adv.line.date
  /\ Post(<<"advance-apply", reference>>, date,
          {Dr("CUSTOMER_ADVANCE", amount), Cr("AR", amount)})
  /\ applications' = applications \cup
       {[reference |-> reference, advance |-> adv.key, invoice |-> v.id,
         date |-> date, amount |-> amount]}
  /\ UNCHANGED <<today, closings, bankVars, invoices, status, deliveries, cancellations>>

\* apply_customer_advance: within what is left of advance and order, before neither.
ApplyCustomerAdvance(adv, v, date, amount, reference) ==
  /\ amount <= AdvanceRemaining(adv) /\ amount <= Outstanding(v)
  /\ AdvanceApplied(adv, v, date, amount, reference)

\* cancel_invoice, draft: the draft is only marked.
CancelDraft(v, date) ==
  /\ date <= today
  /\ status[v.id] = "draft"
  /\ date >= v.date
  /\ OpenPeriod(date)
  /\ status' = [status EXCEPT ![v.id] = "cancelled"]
  /\ UNCHANGED <<ledgerVars, bankVars, invoices, deliveries, cancellations, applications>>

\* The whole order is reversed on a day not before any of its payments: the deferred
\* obligation against what was never paid and a refund liability for what was.
Cancelled(v, date, unpaid, paid) ==
  /\ date <= today /\ date >= v.date
  /\ ~ \E c \in claims : c.doc = <<"receipt", v.id>> /\ c.line.date > date
  /\ ~ \E a \in applications : a.invoice = v.id /\ a.date > date
  /\ Post(<<"invoice", v.id, "cancellation">>, date,
          {e \in {Dr("DEFERRED_REVENUE", v.amount), Cr("AR", unpaid), Cr("CUSTOMER_REFUND", paid)} :
             e.amount # 0})
  /\ cancellations' = cancellations \cup
       {[invoice |-> v.id, date |-> date, amount |-> v.amount,
         unpaid |-> unpaid, refundable |-> paid]}
  /\ status' = [status EXCEPT ![v.id] = "cancelled"]
  /\ UNCHANGED <<today, closings, bankVars, invoices, deliveries, applications>>

\* cancel_invoice, issued.
CancelIssued(v, date) ==
  status[v.id] = "issued" /\ Cancelled(v, date, v.amount - Paid(v), Paid(v))

\* refund_customer_advance: an outgoing line returns what is left of an advance.
RefundCustomerAdvance(adv, line, amount, reference) ==
  /\ line.date >= adv.line.date
  /\ amount <= AdvanceRemaining(adv)
  /\ BankPost(line, "out", amount, "customer_refund", reference, <<"advance", adv.key>>,
              {Dr("CUSTOMER_ADVANCE", amount), Cr("BANK", amount)})
  /\ UNCHANGED <<today, closings, bank, openings, invoiceVars>>

\* refund_cancelled_invoice: an outgoing line returns what a cancelled order had paid.
RefundCancelledInvoice(x, line, amount, reference) ==
  /\ line.date >= x.date
  /\ amount <= RefundRemaining(x)
  /\ BankPost(line, "out", amount, "customer_refund", reference, <<"cancellation", x.invoice>>,
              {Dr("CUSTOMER_REFUND", amount), Cr("BANK", amount)})
  /\ UNCHANGED <<today, closings, bank, openings, invoiceVars>>

-----------------------------------------------------------------------------
(* Closing *)

\* Faulty PostedInvoices: cancelled orders are forgotten.
LiveInvoices == {v \in invoices : status[v.id] \in {"issued", "delivered"}}

\* Invoices that were posted: the subledger side of AR and of deferred revenue.
PostedInvoices ==
  {v \in invoices : \/ status[v.id] \in {"issued", "delivered"}
                    \/ status[v.id] = "cancelled" /\ \E x \in cancellations : x.invoice = v.id}

RefundsOf(origin, day) ==
  Total({c \in claims : c.kind = "customer_refund" /\ c.doc[1] = origin /\ c.line.date <= day})

\* The four comparisons _close_blockers makes between the ledger and the documents.
ReceivableTieOut(account, day) ==
  LET invoiced  == Total(Upto(PostedInvoices, day))
      applied   == Total(Upto(applications, day))
      cancelled == Upto(cancellations, day)
  IN CASE account = "AR" ->
            invoiced - ClaimsOf("receipt", day) - applied - Total(Column(cancelled, "unpaid"))
       [] account = "DEFERRED_REVENUE" ->
            - (invoiced - Total(Upto(deliveries, day)) - Total(cancelled))
       [] account = "CUSTOMER_ADVANCE" ->
            - (ClaimsOf("customer_advance", day) - applied - RefundsOf("advance", day))
       [] account = "CUSTOMER_REFUND" ->
            - (Total(Column(cancelled, "refundable")) - RefundsOf("cancellation", day))

ReceivableAccounts == {"AR", "DEFERRED_REVENUE", "CUSTOMER_ADVANCE", "CUSTOMER_REFUND"}

\* The part of _close_blockers that concerns sales, for a month ending on day end.
ReceivablesBlocked(end) ==
  \/ \E v \in invoices : status[v.id] = "draft" /\ v.date <= end
  \/ \E v \in invoices : status[v.id] = "issued" /\ v.service <= end
  \/ \E account \in ReceivableAccounts : Balance(account, end) # ReceivableTieOut(account, end)

-----------------------------------------------------------------------------
ReceivablesInit ==
  /\ BankInit
  /\ invoices = {}
  /\ status = [i \in Invoices |-> "none"]
  /\ deliveries = {} /\ cancellations = {} /\ applications = {}

\* The services on sales documents, each with the inputs a user may choose.
InvoiceStep ==
  \/ \E i \in Invoices, p \in Parties, date, service \in Days, total \in InvoiceTotals :
       CreateInvoice([id |-> i, party |-> p, date |-> date, service |-> service,
                      amount |-> total])
  \/ \E v \in invoices : IssueInvoice(v)
  \/ \E v \in invoices, date \in Days :
       RecordDelivery(v, date) \/ CancelDraft(v, date) \/ CancelIssued(v, date)

CollectionStep ==
  \/ \E v \in invoices, line \in bank, amount \in Amounts : ReconcileReceipt(v, line, amount)
  \/ \E p \in Parties, line \in bank, amount \in Amounts, reference \in References :
       RecordCustomerAdvance(p, line, amount, reference)
  \/ \E adv \in Advances, v \in invoices, date \in Days, amount \in Amounts,
        reference \in Applications : ApplyCustomerAdvance(adv, v, date, amount, reference)
  \/ \E line \in bank, amount \in Amounts, reference \in References :
       \/ \E adv \in Advances : RefundCustomerAdvance(adv, line, amount, reference)
       \/ \E x \in cancellations : RefundCancelledInvoice(x, line, amount, reference)

ReceivablesNext ==
  \/ NextDay /\ UNCHANGED <<bankVars, invoiceVars>>
  \/ \E end \in MonthEnds :
       Close(end, BankBlocked(end) \/ ReceivablesBlocked(end)) /\ UNCHANGED <<bankVars, invoiceVars>>
  \/ \E file \in Statements : ImportBankCsv(file) /\ UNCHANGED invoiceVars
  \/ InvoiceStep
  \/ CollectionStep

receivablesVars == <<ledgerVars, bankVars, invoiceVars>>

ReceivablesSpec == ReceivablesInit /\ [][ReceivablesNext]_receivablesVars
-----------------------------------------------------------------------------
(* Properties *)

\* The type invariant: rows have their columns, and each status agrees with the rows
\* the code keeps for it.
ReceivablesTypeOK ==
  /\ BankTypeOK
  /\ invoices \subseteq Invoice
  /\ status \in [Invoices -> {"none", "draft", "issued", "delivered", "cancelled"}]
  /\ \A i \in Invoices : status[i] # "none" <=> \E v \in invoices : v.id = i
  /\ \A d \in deliveries : status[d.invoice] = "delivered"
  /\ \A x \in cancellations : status[x.invoice] = "cancelled" /\ x.amount = x.unpaid + x.refundable
  /\ applications \subseteq [reference : Applications, advance : ClaimKeys, invoice : Invoices,
                             date : Days, amount : Nat \ {0}]

\* On every day, and not only when a month is closed, the four control accounts equal
\* what the documents add up to: the comparisons of _close_blockers never block a close.
\* The receivable is never negative, nor is what is owed to customers (undelivered orders,
\* advances, refunds) a claim on them: no service may date the second entry of an account
\* before the first.
SubledgersTieOut ==
  \A day \in Days :
    /\ \A account \in ReceivableAccounts : Balance(account, day) = ReceivableTieOut(account, day)
    /\ Balance("AR", day) >= 0
    /\ \A account \in ReceivableAccounts \ {"AR"} : Balance(account, day) <= 0

\* Money a party paid for its invoices or as advances, up to a day, and money returned.
PaidInBy(party, day) ==
  Total({c \in claims : /\ c.line.date <= day
                        /\ \/ c.doc = <<"party", party>>
                           \/ \E v \in invoices : v.party = party /\ c.doc = <<"receipt", v.id>>})
ReturnedTo(party, day) ==
  Total({c \in claims : /\ c.line.date <= day
                        /\ \/ \E adv \in Advances : /\ adv.doc = <<"party", party>>
                                                    /\ c.doc = <<"advance", adv.key>>
                           \/ \E v \in invoices : v.party = party /\ c.doc = <<"cancellation", v.id>>})

\* A party is never, as of any day, refunded more than it had paid by that day, whether
\* an advance is refunded, applied to an order that is then cancelled, or both; and no
\* order collects more than its total, nor anything after the cancellation that fixed what
\* is refundable.
NoPartyOverrefunded ==
  /\ \A party \in Parties, day \in Days : ReturnedTo(party, day) <= PaidInBy(party, day)
  /\ \A v \in invoices : Paid(v) <= v.amount
  /\ \A x \in cancellations : \A v \in invoices : v.id = x.invoice => Paid(v) = x.refundable

\* A reseller's order that counts as revenue had been paid in full by the day of
\* delivery, and later steps leave it so (record_delivery).
ResellerPaidByDelivery ==
  \A d \in deliveries, v \in invoices :
    v.id = d.invoice /\ v.party \in Resellers => PaidBy(v, d.date) = v.amount

\* What close_month found settled stays settled: no draft and no unexplained bank line
\* appears in a closed month afterwards.
ClosedMonthsStaySettled ==
  \A end \in ClosedMonths :
    /\ ~BankBlocked(end)
    /\ ~ \E v \in invoices : status[v.id] = "draft" /\ v.date <= end
=============================================================================
