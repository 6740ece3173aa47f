-------------------------- MODULE FinanceTheorems --------------------------
(***************************************************************************)
(* The finance services together, for every number of documents, lines,    *)
(* parties and months: the control accounts equal the documents on every   *)
(* day, nothing is collected, paid, refunded or remitted beyond what is    *)
(* owed, the reports the owner reads follow the abstract ledger, and the   *)
(* money counted from leads is part of what finance received.              *)
(***************************************************************************)
EXTENDS Finance, Funnel, BankBookTheorems

(* The inductive invariant. *)

Statuses == {"none", "draft", "issued", "delivered", "cancelled"}

\* Sales documents: one row per identity, in step with its status.
InvoicesOK ==
  /\ IsFiniteSet(invoices) /\ invoices \subseteq Invoice
  /\ \A v, w \in invoices : v.id = w.id => v = w
  /\ status \in [Invoices -> Statuses]
  /\ \A i \in Invoices : status[i] # "none" <=> \E v \in invoices : v.id = i

\* A delivered invoice has one delivery, of the whole order and not before it.
DeliveryOK(x) ==
  /\ x.date \in Days /\ x.amount \in Nat \ {0}
  /\ x.invoice \in Invoices /\ status[x.invoice] = "delivered"
  /\ \E v \in invoices : v.id = x.invoice /\ v.amount = x.amount /\ v.date <= x.date
DeliveriesOK ==
  /\ IsFiniteSet(deliveries)
  /\ \A x \in deliveries : DeliveryOK(x)
  /\ \A x, y \in deliveries : x.invoice = y.invoice => x = y

\* A cancellation splits the order into what was never paid and what is to be refunded.
CancellationOK(x) ==
  /\ x.date \in Days /\ x.amount \in Nat \ {0} /\ x.unpaid \in Nat /\ x.refundable \in Nat
  /\ x.amount = x.unpaid + x.refundable
  /\ x.invoice \in Invoices /\ status[x.invoice] = "cancelled"
  /\ \E v \in invoices : v.id = x.invoice /\ v.amount = x.amount /\ v.date <= x.date
CancellationsOK ==
  /\ IsFiniteSet(cancellations)
  /\ \A x \in cancellations : CancellationOK(x)
  /\ \A x, y \in cancellations : x.invoice = y.invoice => x = y

\* An advance is applied to a posted order of the same party, before neither.
ApplicationOK(a) ==
  /\ a.reference \in Applications /\ a.date \in Days /\ a.amount \in Nat \ {0}
  /\ a = [reference |-> a.reference, advance |-> a.advance, invoice |-> a.invoice,
          date |-> a.date, amount |-> a.amount]
  /\ \E v \in PostedInvoices : \E adv \in Advances :
       /\ a.invoice = v.id /\ v.date <= a.date
       /\ a.advance = adv.key /\ adv.line.date <= a.date /\ adv.doc = <<"party", v.party>>
ApplicationsOK ==
  /\ IsFiniteSet(applications)
  /\ \A a \in applications : ApplicationOK(a)

\* Purchase documents.
DecisionOK(d) ==
  /\ d.month \in MonthEnds /\ d.amount \in Nat
  /\ d = [bill |-> d.bill, month |-> d.month, amount |-> d.amount]
  /\ \E b \in ApprovedBills : b.id = d.bill /\ d.amount < b.amount
ReleaseOK(r) ==
  /\ r.reference \in Releases /\ r.date \in Days /\ r.amount \in Nat \ {0}
  /\ r = [reference |-> r.reference, bill |-> r.bill, date |-> r.date, amount |-> r.amount]
  /\ \E b \in ApprovedBills : b.id = r.bill /\ Prepaid(b) /\ b.date <= r.date
                                            /\ b.service <= r.date
BillsOK ==
  /\ IsFiniteSet(bills) /\ bills \subseteq Bill
  /\ \A b, c \in bills : b.id = c.id => b = c
  /\ \A i \in approved : \E b \in bills : b.id = i
  /\ IsFiniteSet(decisions) /\ \A d \in decisions : DecisionOK(d)
  /\ \A d, e \in decisions : d.bill = e.bill => d = e
  /\ IsFiniteSet(releases) /\ \A r \in releases : ReleaseOK(r)
  /\ \A r, s \in releases : r.reference = s.reference => r = s

-----------------------------------------------------------------------------
\* What each use of a bank line is for, and that it is not dated before it.
SalesUse(c) ==
  \/ /\ c.kind = "receipt" /\ c.line.direction = "in"
     /\ \E v \in PostedInvoices : c.doc = <<"receipt", v.id>> /\ v.date <= c.line.date
  \/ /\ c.kind = "customer_advance" /\ c.line.direction = "in"
     /\ \E p \in Parties : c.doc = <<"party", p>>
  \/ /\ c.kind = "customer_refund" /\ c.line.direction = "out"
     /\ \/ \E adv \in Advances :
             c.doc = <<"advance", adv.key>> /\ adv.line.date <= c.line.date
        \/ \E x \in cancellations :
             c.doc = <<"cancellation", x.invoice>> /\ x.date <= c.line.date
PurchaseUse(c) ==
  \/ /\ c.kind = "bill_payment" /\ c.line.direction = "out"
     /\ \E b \in ApprovedBills : c.doc = <<"bill", b.id>> /\ b.date <= c.line.date
  \/ /\ c.kind = "withheld_supplier" /\ c.line.direction = "out"
     /\ \E b \in ApprovedBills : \E d \in decisions :
          /\ c.doc = <<"bill", b.id>> /\ b.date <= c.line.date
          /\ d.bill = b.id /\ d.amount > 0 /\ c.amount = b.amount - d.amount
  \/ /\ c.kind = "tax_remittance" /\ c.line.direction = "out"
     /\ \E d \in decisions : \E s \in claims :
          /\ c.doc = <<"obligation", d.bill>>
          /\ s.kind = "withheld_supplier" /\ s.doc = <<"bill", d.bill>>
          /\ s.line.date <= c.line.date
BankUse(c) ==
  \/ c.kind = "bank_fee" /\ c.line.direction = "out" /\ c.doc = <<"fee">>
  \/ c.kind = "owner_funding" /\ c.line.direction = "in" /\ c.doc = <<"funding">>
  \/ \E reference \in References :
       /\ c.doc = <<"transfer", reference>>
       /\ \/ /\ c.kind = "transfer_out" /\ c.line.direction = "out"
             /\ c.key = <<"bank-event", reference, "out">>
             /\ \E i \in claims : /\ i.kind = "transfer_in" /\ i.doc = c.doc
                                  /\ i.amount = c.amount /\ c.line.date <= i.line.date
          \/ /\ c.kind = "transfer_in" /\ c.line.direction = "in"
             /\ c.key = <<"bank-event", reference, "in">>
             /\ \E o \in claims : /\ o.kind = "transfer_out" /\ o.doc = c.doc
                                  /\ o.amount = c.amount /\ o.line.date <= c.line.date
UseOK(c) == /\ c.key[1] \in {"bank-event", "allocation", "bill-payment"}
            /\ SalesUse(c) \/ PurchaseUse(c) \/ BankUse(c)
ClaimsOK ==
  /\ \A c \in claims : UseOK(c)
  /\ \A c, d \in claims : c.key = d.key => c = d

\* Every journal belongs to a row, so no service finds its key already posted.
KeyOK(key) ==
  \/ key \in ClaimKeys
  \/ \E o \in openings : key = <<"bank-opening", o.account>>
  \/ \E i \in Invoices : /\ key = <<"invoice", i, "issue">>
                         /\ status[i] \in {"issued", "delivered", "cancelled"}
  \/ \E x \in deliveries : key = <<"invoice", x.invoice, "delivery">>
  \/ \E x \in cancellations : key = <<"invoice", x.invoice, "cancellation">>
  \/ \E a \in applications : key = <<"advance-apply", a.reference>>
  \/ \E i \in approved : key = <<"bill", i>>
  \/ \E r \in releases : key = <<"prepayment", r.reference>>
KeysOK == \A key \in Keys : KeyOK(key)

-----------------------------------------------------------------------------
\* The twelve accounts and the sums they equal on a day.
Invoiced(d) == Total(Upto(PostedInvoices, d))
Delivered(d) == Total(Upto(deliveries, d))
Reversed(d) == Total(Upto(cancellations, d))
NeverPaid(d) == Total(Column(Upto(cancellations, d), "unpaid"))
Refundable(d) == Total(Column(Upto(cancellations, d), "refundable"))
Applied(d) == Total(Upto(applications, d))
Opened(direction, d) == Moved(Upto(openings, d), direction)
PrepaidBilled(d) == Total({b \in Upto(ApprovedBills, d) : Prepaid(b)})
Expensed(d) == Total({b \in Upto(ApprovedBills, d) : ~Prepaid(b)})
ReleasedBy(d) == Total(Upto(releases, d))

BankTies(d) ==
  /\ Balance("BANK", d) = Opened("in", d) - Opened("out", d)
                            + ClaimedLines("in", d) - ClaimedLines("out", d)
  /\ Balance("BANK_TRANSFER", d) = ClaimsOf("transfer_out", d) - ClaimsOf("transfer_in", d)
  /\ Balance("EQUITY", d) = Opened("out", d) - Opened("in", d) - ClaimsOf("owner_funding", d)
SalesTies(d) ==
  /\ Balance("AR", d) = Invoiced(d) - ClaimsOf("receipt", d) - Applied(d) - NeverPaid(d)
  /\ Balance("DEFERRED_REVENUE", d) = Delivered(d) + Reversed(d) - Invoiced(d)
  /\ Balance("REVENUE", d) = - Delivered(d)
  /\ Balance("CUSTOMER_ADVANCE", d)
       = Applied(d) + RefundsOf("advance", d) - ClaimsOf("customer_advance", d)
  /\ Balance("CUSTOMER_REFUND", d) = RefundsOf("cancellation", d) - Refundable(d)
PurchaseTies(d) ==
  /\ Balance("EXPENSE", d) = Expensed(d) + ReleasedBy(d) + ClaimsOf("bank_fee", d)
  /\ Balance("PREPAID", d) = PrepaidBilled(d) - ReleasedBy(d)
  /\ Balance("AP", d) = ClaimsOf("bill_payment", d) + SettledGross(d)
                          - Expensed(d) - PrepaidBilled(d)
  /\ Balance("TAX_PAYABLE", d) = ClaimsOf("tax_remittance", d) - SettledTax(d)
TiesOK == \A d \in Days : BankTies(d) /\ SalesTies(d) /\ PurchaseTies(d)

-----------------------------------------------------------------------------
\* Nothing is used beyond its amount.
SalesLimitsOK ==
  /\ \A v \in invoices : Paid(v) <= v.amount
  /\ \A x \in cancellations : \A v \in invoices : v.id = x.invoice =>
       /\ x.refundable = Paid(v)
       /\ \A c \in claims : c.doc = <<"receipt", v.id>> => c.line.date <= x.date
       /\ \A a \in applications : a.invoice = v.id => a.date <= x.date
  /\ \A adv \in Advances : AdvanceRemaining(adv) >= 0
  /\ \A x \in cancellations : RefundRemaining(x) >= 0

RemittedFor(d) == Total({c \in claims : c.doc = <<"obligation", d.bill>>})
ReleasedFrom(b) == Total({r \in releases : r.bill = b.id})
PurchaseLimitsOK ==
  /\ PaidOnce
  /\ \A b \in bills : ReleasedFrom(b) <= b.amount
  /\ \A d \in decisions : RemittedFor(d) <= d.amount

FinanceInv ==
  /\ BankInv /\ IsFiniteSet(openings)
  /\ InvoicesOK /\ DeliveriesOK /\ CancellationsOK /\ ApplicationsOK /\ BillsOK
  /\ ClaimsOK /\ KeysOK /\ TiesOK
  /\ SalesLimitsOK /\ PurchaseLimitsOK
-----------------------------------------------------------------------------
(* How the sums move. *)

\* A posting of one amount from account b to account a, as seen in account x on day d.
Shift(a, b, amount, date, x, d) ==
  IF date <= d THEN (IF x = a THEN amount ELSE 0) - (IF x = b THEN amount ELSE 0) ELSE 0

\* A claim's share of a sum over the claims up to a day.
Part(c, counts, d) == IF counts /\ c.line.date <= d THEN c.amount ELSE 0

\* The claims of a kind made for a document, and all made for it.
ForDoc(kind, doc) == Total({c \in claims : c.kind = kind /\ c.doc = doc})
AllForDoc(doc) == Total({c \in claims : c.doc = doc})

OpeningsSame(d) == \A direction : Opened(direction, d)' = Opened(direction, d)
ClaimsSame(d) ==
  /\ \A k : ClaimsOf(k, d)' = ClaimsOf(k, d)
  /\ \A o : RefundsOf(o, d)' = RefundsOf(o, d)
  /\ \A direction : ClaimedLines(direction, d)' = ClaimedLines(direction, d)
OrdersSame(d) ==
  /\ Invoiced(d)' = Invoiced(d) /\ Delivered(d)' = Delivered(d) /\ Reversed(d)' = Reversed(d)
  /\ NeverPaid(d)' = NeverPaid(d) /\ Refundable(d)' = Refundable(d)
  /\ Applied(d)' = Applied(d)
BillsSame(d) ==
  /\ PrepaidBilled(d)' = PrepaidBilled(d) /\ Expensed(d)' = Expensed(d)
  /\ ReleasedBy(d)' = ReleasedBy(d)
SettledSame(d) == SettledGross(d)' = SettledGross(d) /\ SettledTax(d)' = SettledTax(d)

\* A new claim adds its amount to the sums it counts in.
LEMMA ClaimAdded ==
  ASSUME BankInv, NEW c, c \notin claims, c.amount \in Nat, claims' = claims \cup {c}
  PROVE  /\ \A d, k : /\ ClaimsOf(k, d) \in Nat
                      /\ ClaimsOf(k, d)' = ClaimsOf(k, d) + Part(c, c.kind = k, d)
         /\ \A d, o : /\ RefundsOf(o, d) \in Nat
                      /\ RefundsOf(o, d)'
                           = RefundsOf(o, d) + Part(c, c.kind = "customer_refund" /\ c.doc[1] = o, d)
         /\ \A d, x : /\ ClaimedLines(x, d) \in Nat
                      /\ ClaimedLines(x, d)'
                           = ClaimedLines(x, d) + Part(c, c.line.direction = x, d)
         /\ \A k, doc : /\ ForDoc(k, doc) \in Nat
                        /\ ForDoc(k, doc)' = ForDoc(k, doc)
                             + (IF c.kind = k /\ c.doc = doc THEN c.amount ELSE 0)
         /\ \A doc : /\ AllForDoc(doc) \in Nat
                     /\ AllForDoc(doc)' = AllForDoc(doc) + (IF c.doc = doc THEN c.amount ELSE 0)
<1>1. ASSUME NEW old, NEW new, old \in SUBSET claims, new = old \/ new = old \cup {c}
      PROVE  /\ Total(new) = Total(old) + (IF c \in new THEN c.amount ELSE 0)
             /\ Total(old) \in Nat
  <2>1. IsFiniteSet(old) /\ \A x \in old : x.amount \in Nat
    BY <1>1, FS_Subset DEF BankInv, ClaimOK
  <2>2. c \notin old
    BY <1>1
  <2>3. QED
    BY <1>1, <2>1, <2>2, TotalOfMore
<1>2. ASSUME NEW d, NEW k
      PROVE  /\ ClaimsOf(k, d) \in Nat
             /\ ClaimsOf(k, d)' = ClaimsOf(k, d) + Part(c, c.kind = k, d)
  <2> DEFINE old == {x \in claims : x.kind = k /\ x.line.date <= d}
             new == {x \in claims' : x.kind = k /\ x.line.date <= d}
  <2>1. /\ old \in SUBSET claims
        /\ new = old \/ new = old \cup {c}
        /\ c \in new <=> c.kind = k /\ c.line.date <= d
    OBVIOUS
  <2>2. ClaimsOf(k, d) = Total(old) /\ ClaimsOf(k, d)' = Total(new)
    BY DEF ClaimsOf
  <2> HIDE DEF old, new
  <2>3. QED
    BY <1>1, <2>1, <2>2 DEF Part
<1>3. ASSUME NEW d, NEW o
      PROVE  /\ RefundsOf(o, d) \in Nat
             /\ RefundsOf(o, d)'
                  = RefundsOf(o, d) + Part(c, c.kind = "customer_refund" /\ c.doc[1] = o, d)
  <2> DEFINE old == {x \in claims : x.kind = "customer_refund" /\ x.doc[1] = o /\ x.line.date <= d}
             new == {x \in claims' : x.kind = "customer_refund" /\ x.doc[1] = o /\ x.line.date <= d}
  <2>1. /\ old \in SUBSET claims
        /\ new = old \/ new = old \cup {c}
        /\ c \in new <=> c.kind = "customer_refund" /\ c.doc[1] = o /\ c.line.date <= d
    OBVIOUS
  <2>2. RefundsOf(o, d) = Total(old) /\ RefundsOf(o, d)' = Total(new)
    BY DEF RefundsOf
  <2> HIDE DEF old, new
  <2>3. QED
    BY <1>1, <2>1, <2>2 DEF Part
<1>4. ASSUME NEW d, NEW y
      PROVE  /\ ClaimedLines(y, d) \in Nat
             /\ ClaimedLines(y, d)' = ClaimedLines(y, d) + Part(c, c.line.direction = y, d)
  <2> DEFINE old == {x \in claims : x.line.direction = y /\ x.line.date <= d}
             new == {x \in claims' : x.line.direction = y /\ x.line.date <= d}
  <2>1. /\ old \in SUBSET claims
        /\ new = old \/ new = old \cup {c}
        /\ c \in new <=> c.line.direction = y /\ c.line.date <= d
    OBVIOUS
  <2>2. ClaimedLines(y, d) = Total(old) /\ ClaimedLines(y, d)' = Total(new)
    BY DEF ClaimedLines
  <2> HIDE DEF old, new
  <2>3. QED
    BY <1>1, <2>1, <2>2 DEF Part
<1>5. ASSUME NEW k, NEW doc
      PROVE  /\ ForDoc(k, doc) \in Nat
             /\ ForDoc(k, doc)' = ForDoc(k, doc)
                  + (IF c.kind = k /\ c.doc = doc THEN c.amount ELSE 0)
  <2> DEFINE old == {x \in claims : x.kind = k /\ x.doc = doc}
             new == {x \in claims' : x.kind = k /\ x.doc = doc}
  <2>1. /\ old \in SUBSET claims
        /\ new = old \/ new = old \cup {c}
        /\ c \in new <=> c.kind = k /\ c.doc = doc
    OBVIOUS
  <2>2. ForDoc(k, doc) = Total(old) /\ ForDoc(k, doc)' = Total(new)
    BY DEF ForDoc
  <2> HIDE DEF old, new
  <2>3. QED
    BY <1>1, <2>1, <2>2
<1>6. ASSUME NEW doc
      PROVE  /\ AllForDoc(doc) \in Nat
             /\ AllForDoc(doc)' = AllForDoc(doc) + (IF c.doc = doc THEN c.amount ELSE 0)
  <2> DEFINE old == {x \in claims : x.doc = doc}
             new == {x \in claims' : x.doc = doc}
  <2>1. /\ old \in SUBSET claims
        /\ new = old \/ new = old \cup {c}
        /\ c \in new <=> c.doc = doc
    OBVIOUS
  <2>2. AllForDoc(doc) = Total(old) /\ AllForDoc(doc)' = Total(new)
    BY DEF AllForDoc
  <2> HIDE DEF old, new
  <2>3. QED
    BY <1>1, <2>1, <2>2
<1>7. QED
  BY <1>2, <1>3, <1>4, <1>5, <1>6

\* Sums over what did not change did not change.
LEMMA SameSums ==
  ASSUME NEW d
  PROVE  /\ UNCHANGED openings => OpeningsSame(d)
         /\ UNCHANGED claims => ClaimsSame(d)
         /\ UNCHANGED <<invoices, status, deliveries, cancellations, applications>>
              => OrdersSame(d)
         /\ UNCHANGED <<bills, approved, releases>> => BillsSame(d)
         /\ UNCHANGED <<bills, decisions, claims>> => SettledSame(d)
<1>1. UNCHANGED openings => OpeningsSame(d)
  BY DEF OpeningsSame, Opened, Upto, Moved
<1>2. UNCHANGED claims => ClaimsSame(d)
  BY DEF ClaimsSame, ClaimsOf, RefundsOf, ClaimedLines
<1>3. UNCHANGED <<invoices, status, deliveries, cancellations, applications>> => OrdersSame(d)
  BY DEF OrdersSame, Invoiced, Delivered, Reversed, NeverPaid, Refundable, Applied, PostedInvoices
<1>4. UNCHANGED <<bills, approved, releases>> => BillsSame(d)
  BY DEF BillsSame, PrepaidBilled, Expensed, ReleasedBy, ApprovedBills, Prepaid
<1>5. UNCHANGED <<bills, decisions, claims>> => SettledSame(d)
  BY DEF SettledSame, SettledGross, SettledTax, SettlementsOf
<1>6. QED
  BY <1>1, <1>2, <1>3, <1>4, <1>5
-----------------------------------------------------------------------------
(* What keeps the documents and their uses in order. *)

\* Rows that other rows refer to are never removed.
Grows ==
  /\ claims \subseteq claims' /\ openings \subseteq openings' /\ deliveries \subseteq deliveries'
  /\ cancellations \subseteq cancellations' /\ applications \subseteq applications'
  /\ decisions \subseteq decisions' /\ releases \subseteq releases' /\ approved \subseteq approved'
  /\ bills \subseteq bills' /\ PostedInvoices \subseteq PostedInvoices'
  /\ \A i \in Invoices : status[i] \in {"issued", "delivered", "cancelled"}
                           => status'[i] \in {"issued", "delivered", "cancelled"}

\* A use stays in order, whatever is added.
LEMMA UseStays ==
  ASSUME Grows, NEW c, UseOK(c)
  PROVE  UseOK(c)'
<1>1. Advances \subseteq Advances' /\ ApprovedBills \subseteq ApprovedBills'
  BY DEF Grows, Advances, ApprovedBills
<1>2. SalesUse(c) => SalesUse(c)'
  BY <1>1 DEF Grows, SalesUse
<1>3. PurchaseUse(c) => PurchaseUse(c)'
  BY <1>1 DEF Grows, PurchaseUse
<1>4. BankUse(c) => BankUse(c)'
  BY DEF Grows, BankUse
<1>5. QED
  BY <1>2, <1>3, <1>4 DEF UseOK

\* So do an application, a tax decision and a release.
LEMMA ApplicationStays ==
  ASSUME Grows, NEW a, ApplicationOK(a)
  PROVE  ApplicationOK(a)'
<1>1. Advances \subseteq Advances'
  BY DEF Grows, Advances
<1>2. QED
  BY <1>1 DEF Grows, ApplicationOK

\* A decision and a release stay well formed while bills and approvals only grow.
LEMMA BillRowsStay ==
  ASSUME Grows
  PROVE  /\ \A d : DecisionOK(d) => DecisionOK(d)'
         /\ \A r : ReleaseOK(r) => ReleaseOK(r)'
<1>1. ApprovedBills \subseteq ApprovedBills'
  BY DEF Grows, ApprovedBills
<1>2. ASSUME NEW d, DecisionOK(d) PROVE DecisionOK(d)'
  BY <1>1, <1>2 DEF DecisionOK
<1>3. ASSUME NEW r, ReleaseOK(r) PROVE ReleaseOK(r)'
  BY <1>1, <1>3 DEF ReleaseOK, Prepaid
<1>4. QED
  BY <1>2, <1>3

\* Journals keep their rows; a new journal must come with one.
LEMMA KeysStay ==
  ASSUME KeysOK, Grows, NEW new, Keys' \subseteq Keys \cup new, \A key \in new : KeyOK(key)'
  PROVE  KeysOK'
<1>1. ClaimKeys \subseteq ClaimKeys'
  BY DEF Grows, ClaimKeys
<1>2. \A key : KeyOK(key) => KeyOK(key)'
  BY <1>1 DEF Grows, KeyOK
<1>3. QED
  BY <1>2 DEF KeysOK

\* The first component of a key tells which kind of row it belongs to.
LEMMA KeyIsNew ==
  ASSUME ClaimsOK, KeysOK, NEW key, key[1] \in {"bank-event", "allocation", "bill-payment"},
         key \notin ClaimKeys
  PROVE  key \notin Keys
<1>1. ~KeyOK(key)
  BY DEF KeyOK
<1>2. QED
  BY <1>1 DEF KeysOK

\* A claim on a bank line made by a service that changes no document.
NewClaim(c) ==
  /\ ClaimOK(c) /\ UseOK(c) /\ c.key \notin ClaimKeys
  /\ c.amount <= Unallocated(c.line)
  /\ claims' = claims \cup {c}
  /\ UNCHANGED <<today, closings, bank, openings, invoices, status, deliveries, cancellations,
                 applications, bills, approved, decisions, releases>>

\* One more use of a bank line leaves the documents as they were and keeps the bank in order.
LEMMA NewClaimKeeps ==
  ASSUME FinanceInv, NEW c, NewClaim(c)
  PROVE  /\ Grows /\ ClaimStep /\ RowsStep /\ c \notin claims
         /\ InvoicesOK' /\ DeliveriesOK' /\ CancellationsOK' /\ ApplicationsOK' /\ BillsOK'
         /\ ClaimsOK'
<1>1. c \notin claims
  BY DEF NewClaim, ClaimKeys
<1>2. PostedInvoices' = PostedInvoices
  BY DEF NewClaim, PostedInvoices
<1>3. Grows
  BY <1>2 DEF NewClaim, Grows
<1>4. ClaimStep /\ RowsStep
  BY OneClaimStep DEF NewClaim, FinanceInv, RowsStep, BankInv
<1>5. InvoicesOK'
  BY DEF NewClaim, FinanceInv, InvoicesOK
<1>6. DeliveriesOK'
  BY DEF NewClaim, FinanceInv, DeliveriesOK, DeliveryOK
<1>7. CancellationsOK'
  BY DEF NewClaim, FinanceInv, CancellationsOK, CancellationOK
<1>8. ApplicationsOK'
  BY <1>3, ApplicationStays DEF NewClaim, FinanceInv, ApplicationsOK
<1>9. BillsOK'
  BY <1>3, BillRowsStay DEF NewClaim, FinanceInv, BillsOK
<1>10. ClaimsOK'
  <2>1. \A x \in claims' : UseOK(x)'
    BY <1>3, UseStays DEF NewClaim, FinanceInv, ClaimsOK
  <2>2. \A x \in claims : x.key # c.key
    BY DEF NewClaim, ClaimKeys
  <2>3. \A x, y \in claims' : x.key = y.key => x = y
    BY <2>2 DEF NewClaim, FinanceInv, ClaimsOK
  <2>4. QED
    BY <2>1, <2>3 DEF ClaimsOK
<1>11. QED
  BY <1>1, <1>3, <1>4, <1>5, <1>6, <1>7, <1>8, <1>9, <1>10

\* A new journal of two entries shifts its amount from one account to the other.
LEMMA PostingShifts ==
  ASSUME LedgerInv, NEW key, NEW date \in Nat, NEW a \in Accounts, NEW b \in Accounts,
         NEW amount \in Nat \ {0}, key \notin Keys,
         Post(key, date, {Dr(a, amount), Cr(b, amount)}), UNCHANGED <<today, closings>>
  PROVE  /\ LedgerStep /\ OpenPeriod(date) /\ Keys' \subseteq Keys \cup {key}
         /\ \A x, d : Balance(x, d)' = Balance(x, d) + Shift(a, b, amount, date, x, d)
         /\ \A x, d : Balance(x, d) \in Int
<1> DEFINE debit == Dr(a, amount)
           credit == Cr(b, amount)
<1>1. /\ EntryOK(debit) /\ EntryOK(credit) /\ debit.side # credit.side
      /\ debit.account = a /\ debit.side = "debit" /\ debit.amount = amount
      /\ credit.account = b /\ credit.side = "credit" /\ credit.amount = amount
  BY DEF EntryOK, Dr, Cr
<1>2. /\ OpenPeriod(date)
      /\ journal' = journal \cup Lines(key, date, {debit, credit})
  BY DEF Post
<1>3. LedgerStep
  BY TwoEntries, PostIsStep DEF LedgerStep
<1>4. Keys' \subseteq Keys \cup {key}
  BY <1>2 DEF Keys, Lines
<1> HIDE DEF debit, credit
<1>5. \A x, d : Balance(x, d) \in Int
  BY BalanceType
<1>6. \A x, d : Balance(x, d)'
                  = Balance(x, d) + Effect(debit, date, x, d) + Effect(credit, date, x, d)
  BY <1>1, <1>2, TwoMoreLines
<1>7. \A x, d : Effect(debit, date, x, d) + Effect(credit, date, x, d)
                  = Shift(a, b, amount, date, x, d)
  BY <1>1 DEF Effect, Shift
<1>8. \A x, d : Effect(debit, date, x, d) \in Int /\ Effect(credit, date, x, d) \in Int
  BY <1>1 DEF Effect
<1>9. \A x, d : Balance(x, d)' = Balance(x, d) + Shift(a, b, amount, date, x, d)
  BY <1>5, <1>6, <1>7, <1>8
<1>10. QED
  BY <1>2, <1>3, <1>4, <1>5, <1>9

\* Every sum is a natural number.
LEMMA RowsFinite ==
  ASSUME FinanceInv, NEW d
  PROVE  /\ IsFiniteSet(Upto(PostedInvoices, d)) /\ IsFiniteSet(Upto(deliveries, d))
         /\ IsFiniteSet(Upto(cancellations, d)) /\ IsFiniteSet(Upto(applications, d))
         /\ IsFiniteSet(Upto(ApprovedBills, d)) /\ IsFiniteSet(Upto(releases, d))
         /\ \A r \in Upto(PostedInvoices, d) \cup Upto(deliveries, d) \cup Upto(cancellations, d)
              \cup Upto(applications, d) \cup Upto(ApprovedBills, d) \cup Upto(releases, d) :
              r.amount \in Nat
<1>1. /\ Upto(PostedInvoices, d) \in SUBSET invoices /\ Upto(ApprovedBills, d) \in SUBSET bills
      /\ Upto(deliveries, d) \in SUBSET deliveries /\ Upto(cancellations, d) \in SUBSET cancellations
      /\ Upto(applications, d) \in SUBSET applications /\ Upto(releases, d) \in SUBSET releases
  BY DEF Upto, PostedInvoices, ApprovedBills
<1>2. /\ IsFiniteSet(invoices) /\ IsFiniteSet(deliveries) /\ IsFiniteSet(cancellations)
      /\ IsFiniteSet(applications) /\ IsFiniteSet(bills) /\ IsFiniteSet(releases)
  BY DEF FinanceInv, InvoicesOK, DeliveriesOK, CancellationsOK, ApplicationsOK, BillsOK
<1>3. /\ \A r \in invoices \cup bills : r.amount \in Nat
      /\ \A r \in deliveries \cup cancellations : r.amount \in Nat
      /\ \A r \in applications \cup releases : r.amount \in Nat
  BY DEF FinanceInv, InvoicesOK, DeliveriesOK, CancellationsOK, ApplicationsOK, BillsOK, Invoice, Bill,
         DeliveryOK, CancellationOK, ApplicationOK, ReleaseOK
<1>4. QED
  BY <1>1, <1>2, <1>3, FS_Subset

\* A column of a finite table is a finite table.
LEMMA ColumnOK ==
  ASSUME NEW rows, IsFiniteSet(rows), NEW col, \A r \in rows : r[col] \in Nat
  PROVE  /\ IsFiniteSet(Column(rows, col))
         /\ \A r \in Column(rows, col) : r.amount \in Nat
         /\ Total(Column(rows, col)) \in Nat
<1> DEFINE cell(r) == [row |-> r, amount |-> r[col]]
           f == [r \in rows |-> cell(r)]
           cells == Column(rows, col)
<1>1. f \in Surjection(rows, cells)
  BY DEF Surjection, Column
<1>2. \A r \in cells : r.amount \in Nat
  BY DEF Column
<1>3. cells \in SUBSET cells
  OBVIOUS
<1> HIDE DEF f, cells
<1>4. IsFiniteSet(cells)
  BY <1>1, FS_Surjection
<1>5. Total(cells) \in Nat
  BY <1>2, <1>3, <1>4, TotalType
<1>6. QED
  BY <1>2, <1>4, <1>5 DEF cells

\* The sums the control accounts are compared with are natural numbers.
LEMMA SumTypes ==
  ASSUME FinanceInv, NEW d
  PROVE  /\ Invoiced(d) \in Nat /\ Delivered(d) \in Nat /\ Reversed(d) \in Nat
         /\ NeverPaid(d) \in Nat /\ Refundable(d) \in Nat /\ Applied(d) \in Nat
         /\ PrepaidBilled(d) \in Nat /\ Expensed(d) \in Nat /\ ReleasedBy(d) \in Nat
         /\ SettledGross(d) \in Nat /\ SettledTax(d) \in Nat
         /\ \A direction : Opened(direction, d) \in Nat
<1>1. /\ Invoiced(d) \in Nat /\ Delivered(d) \in Nat /\ Reversed(d) \in Nat
      /\ Applied(d) \in Nat /\ ReleasedBy(d) \in Nat
  BY RowsFinite, TotalType DEF Invoiced, Delivered, Reversed, Applied, ReleasedBy
<1>2. /\ {b \in Upto(ApprovedBills, d) : Prepaid(b)} \in SUBSET Upto(ApprovedBills, d)
      /\ {b \in Upto(ApprovedBills, d) : ~Prepaid(b)} \in SUBSET Upto(ApprovedBills, d)
      /\ IsFiniteSet(Upto(ApprovedBills, d)) /\ \A r \in Upto(ApprovedBills, d) : r.amount \in Nat
  BY RowsFinite
<1>3. PrepaidBilled(d) \in Nat /\ Expensed(d) \in Nat
  BY <1>2, TotalType DEF PrepaidBilled, Expensed
<1>4. /\ IsFiniteSet(Upto(cancellations, d))
      /\ \A r \in Upto(cancellations, d) : r["unpaid"] \in Nat
      /\ \A r \in Upto(cancellations, d) : r["refundable"] \in Nat
  <2>1. IsFiniteSet(Upto(cancellations, d))
    BY RowsFinite
  <2>2. \A r \in Upto(cancellations, d) : r.unpaid \in Nat /\ r.refundable \in Nat
    BY DEF Upto, FinanceInv, CancellationsOK, CancellationOK
  <2>3. QED
    BY <2>1, <2>2
<1>5. NeverPaid(d) \in Nat /\ Refundable(d) \in Nat
  BY <1>4, ColumnOK DEF NeverPaid, Refundable
<1>6. SettledGross(d) \in Nat
  <2> DEFINE some == {b \in bills : \E c \in SettlementsOf(b) : c.line.date <= d}
  <2>1. some \in SUBSET bills /\ IsFiniteSet(bills) /\ \A b \in bills : b.amount \in Nat
    BY DEF FinanceInv, BillsOK, Bill
  <2> HIDE DEF some
  <2>2. Total(some) \in Nat
    BY <2>1, TotalType
  <2>3. QED
    BY <2>2 DEF SettledGross, some
<1>7. SettledTax(d) \in Nat
  <2> DEFINE some == {x \in decisions : \E b \in bills :
                        /\ b.id = x.bill
                        /\ \E c \in SettlementsOf(b) : c.line.date <= d}
  <2>1. some \in SUBSET decisions /\ IsFiniteSet(decisions)
        /\ \A x \in decisions : x.amount \in Nat
    BY DEF FinanceInv, BillsOK, DecisionOK
  <2> HIDE DEF some
  <2>2. Total(some) \in Nat
    BY <2>1, TotalType
  <2>3. QED
    BY <2>2 DEF SettledTax, some
<1>8. \A direction : Opened(direction, d) \in Nat
  <2> SUFFICES ASSUME NEW direction PROVE Opened(direction, d) \in Nat
    OBVIOUS
  <2> DEFINE some == {o \in Upto(openings, d) : o.direction = direction}
  <2>1. some \in SUBSET openings /\ IsFiniteSet(openings) /\ \A o \in openings : o.amount \in Nat
    BY DEF FinanceInv, BankInv, OpeningRow, Upto
  <2> HIDE DEF some
  <2>2. Total(some) \in Nat
    BY <2>1, TotalType
  <2>3. QED
    BY <2>2 DEF Opened, Moved, some
<1>9. QED
  BY <1>1, <1>3, <1>5, <1>6, <1>7, <1>8

\* So are the sums over the uses of bank lines,
LEMMA ClaimSumTypes ==
  ASSUME FinanceInv, NEW d
  PROVE  /\ \A k : ClaimsOf(k, d) \in Nat
         /\ \A o : RefundsOf(o, d) \in Nat
         /\ \A x : ClaimedLines(x, d) \in Nat
<1>1. IsFiniteSet(claims) /\ \A c \in claims : c.amount \in Nat
  BY DEF FinanceInv, BankInv, ClaimOK
<1>2. /\ \A k : {c \in claims : c.kind = k /\ c.line.date <= d} \in SUBSET claims
      /\ \A o : {c \in claims : /\ c.kind = "customer_refund" /\ c.doc[1] = o
                               /\ c.line.date <= d} \in SUBSET claims
      /\ \A x : {c \in claims : c.line.direction = x /\ c.line.date <= d} \in SUBSET claims
  OBVIOUS
<1>3. QED
  BY <1>1, <1>2, TotalType DEF ClaimsOf, RefundsOf, ClaimedLines

\* those over the uses made for one document,
LEMMA DocSumTypes ==
  ASSUME FinanceInv
  PROVE  /\ \A doc : AllForDoc(doc) \in Nat
         /\ \A kind, doc : ForDoc(kind, doc) \in Nat
<1>1. IsFiniteSet(claims) /\ \A c \in claims : c.amount \in Nat
  BY DEF FinanceInv, BankInv, ClaimOK
<1>2. /\ \A doc : {c \in claims : c.doc = doc} \in SUBSET claims
      /\ \A kind, doc : {c \in claims : c.kind = kind /\ c.doc = doc} \in SUBSET claims
  OBVIOUS
<1>3. QED
  BY <1>1, <1>2, TotalType DEF AllForDoc, ForDoc

-----------------------------------------------------------------------------
(* A new claim, and what it must respect. *)

AppliedTo(i) == Total({a \in applications : a.invoice = i})
AppliedFrom(key) == Total({a \in applications : a.advance = key})

\* The limits in terms of sums by document.
LEMMA LimitsByDoc ==
  /\ \A v : Paid(v) = AllForDoc(<<"receipt", v.id>>) + AppliedTo(v.id)
  /\ \A origin : RefundedFrom(origin) = ForDoc("customer_refund", origin)
  /\ \A b : Total(PaymentsOf(b)) = ForDoc("bill_payment", <<"bill", b.id>>)
  /\ \A d : RemittedFor(d) = AllForDoc(<<"obligation", d.bill>>)
BY DEF Paid, AllForDoc, AppliedTo, RefundedFrom, ForDoc, PaymentsOf, RemittedFor

\* and those over the advances applied to one order or taken from one advance.
LEMMA AppliedTypes ==
  ASSUME FinanceInv
  PROVE  /\ \A i : AppliedTo(i) \in Nat
         /\ \A key : AppliedFrom(key) \in Nat
<1>1. IsFiniteSet(applications) /\ \A a \in applications : a.amount \in Nat
  BY DEF FinanceInv, ApplicationsOK, ApplicationOK
<1>2. /\ \A i : {a \in applications : a.invoice = i} \in SUBSET applications
      /\ \A key : {a \in applications : a.advance = key} \in SUBSET applications
  OBVIOUS
<1>3. QED
  BY <1>1, <1>2, TotalType DEF AppliedTo, AppliedFrom

\* Nothing refers to an advance that does not exist yet.
LEMMA FreshAdvance ==
  ASSUME FinanceInv, NEW c, c.key \notin ClaimKeys
  PROVE  /\ AppliedFrom(c.key) = 0
         /\ ForDoc("customer_refund", <<"advance", c.key>>) = 0
<1>1. {a \in applications : a.advance = c.key} = {}
  <2>1. \A a \in applications : \E adv \in claims : a.advance = adv.key
    BY DEF FinanceInv, ApplicationsOK, ApplicationOK, Advances
  <2>2. QED
    BY <2>1 DEF ClaimKeys
<1>2. {x \in claims : x.kind = "customer_refund" /\ x.doc = <<"advance", c.key>>} = {}
  <2> SUFFICES ASSUME NEW x \in claims, x.kind = "customer_refund",
                      x.doc = <<"advance", c.key>>
               PROVE  FALSE
    OBVIOUS
  <2>1. SalesUse(x)
    BY DEF FinanceInv, ClaimsOK, UseOK, PurchaseUse, BankUse
  <2>2. \/ \E adv \in claims : x.doc = <<"advance", adv.key>>
        \/ \E y \in cancellations : x.doc = <<"cancellation", y.invoice>>
    BY <2>1 DEF SalesUse, Advances
  <2>3. x.doc[1] = "advance" /\ x.doc[2] = c.key
    OBVIOUS
  <2>4. QED
    BY <2>2, <2>3 DEF ClaimKeys
<1>3. QED
  BY <1>1, <1>2, TotalEmpty DEF AppliedFrom, ForDoc

\* A receipt within the order, or a refund within its origin, keeps the limits of sales.
LEMMA SalesLimitsKept ==
  ASSUME FinanceInv, NEW c, NewClaim(c),
         \A v \in invoices : c.doc = <<"receipt", v.id>> =>
           /\ c.amount <= v.amount - Paid(v)
           /\ status[v.id] # "cancelled",
         \A adv \in Advances : c.kind = "customer_refund" /\ c.doc = <<"advance", adv.key>> =>
           c.amount <= AdvanceRemaining(adv),
         \A x \in cancellations :
           c.kind = "customer_refund" /\ c.doc = <<"cancellation", x.invoice>> =>
             c.amount <= RefundRemaining(x)
  PROVE  SalesLimitsOK'
<1>1. c \notin claims /\ c.amount \in Nat /\ claims' = claims \cup {c} /\ BankInv
  BY DEF NewClaim, ClaimKeys, ClaimOK, FinanceInv
<1>2. \A k, doc : /\ ForDoc(k, doc) \in Nat
                  /\ ForDoc(k, doc)' = ForDoc(k, doc)
                       + (IF c.kind = k /\ c.doc = doc THEN c.amount ELSE 0)
  BY <1>1, ClaimAdded
<1>3. \A doc : /\ AllForDoc(doc) \in Nat
               /\ AllForDoc(doc)' = AllForDoc(doc) + (IF c.doc = doc THEN c.amount ELSE 0)
  BY <1>1, ClaimAdded
<1>4. UNCHANGED <<applications, invoices, cancellations, status>>
  BY DEF NewClaim
<1>5. /\ \A i : AppliedTo(i)' = AppliedTo(i) /\ AppliedTo(i) \in Nat
      /\ \A key : AppliedFrom(key)' = AppliedFrom(key) /\ AppliedFrom(key) \in Nat
  BY <1>4, AppliedTypes DEF AppliedTo, AppliedFrom
<1>6. \A v : /\ Paid(v) \in Nat
             /\ Paid(v)' = Paid(v) + (IF c.doc = <<"receipt", v.id>> THEN c.amount ELSE 0)
  <2> SUFFICES ASSUME NEW v
               PROVE  /\ Paid(v) \in Nat
                      /\ Paid(v)' = Paid(v)
                           + (IF c.doc = <<"receipt", v.id>> THEN c.amount ELSE 0)
    OBVIOUS
  <2>1. Paid(v) = AllForDoc(<<"receipt", v.id>>) + AppliedTo(v.id)
    BY LimitsByDoc
  <2>2. Paid(v)' = AllForDoc(<<"receipt", v.id>>)' + AppliedTo(v.id)'
    BY DEF Paid, AllForDoc, AppliedTo
  <2>3. QED
    BY <1>1, <1>3, <1>5, <2>1, <2>2
<1>7. \A v \in invoices' : Paid(v)' <= v.amount
  BY <1>1, <1>4, <1>6 DEF FinanceInv, SalesLimitsOK, InvoicesOK, Invoice
<1>8. ASSUME NEW x \in cancellations', NEW v \in invoices', v.id = x.invoice
      PROVE  /\ x.refundable = Paid(v)'
             /\ \A y \in claims' : y.doc = <<"receipt", v.id>> => y.line.date <= x.date
             /\ \A a \in applications' : a.invoice = v.id => a.date <= x.date
  <2>1. status[v.id] = "cancelled"
    BY <1>4, <1>8 DEF FinanceInv, CancellationsOK, CancellationOK
  <2>2. c.doc # <<"receipt", v.id>>
    BY <1>4, <1>8, <2>1
  <2>3. QED
    BY <1>1, <1>4, <1>6, <1>8, <2>2 DEF FinanceInv, SalesLimitsOK
<1>9. \A adv \in Advances' : AdvanceRemaining(adv)' >= 0
  <2> SUFFICES ASSUME NEW adv \in Advances' PROVE AdvanceRemaining(adv)' >= 0
    OBVIOUS
  <2>1. AdvanceRemaining(adv)
          = adv.amount - AppliedFrom(adv.key) - ForDoc("customer_refund", <<"advance", adv.key>>)
    BY LimitsByDoc DEF AdvanceRemaining, AppliedFrom
  <2>2. AdvanceRemaining(adv)'
          = adv.amount - AppliedFrom(adv.key)' - ForDoc("customer_refund", <<"advance", adv.key>>)'
    BY DEF AdvanceRemaining, AppliedFrom, RefundedFrom, ForDoc
  <2>3. adv \in claims' /\ adv.kind = "customer_advance"
    BY DEF Advances
  <2>4. CASE adv \in claims
    <3>1. adv \in Advances /\ adv.amount \in Nat
      BY <2>3, <2>4 DEF Advances, FinanceInv, BankInv, ClaimOK
    <3>2. AdvanceRemaining(adv) >= 0
      BY <3>1 DEF FinanceInv, SalesLimitsOK
    <3>3. QED
      BY <1>1, <1>2, <1>5, <2>1, <2>2, <3>1, <3>2
  <2>5. CASE adv = c
    <3>1. AppliedFrom(c.key) = 0 /\ ForDoc("customer_refund", <<"advance", c.key>>) = 0
      BY FreshAdvance DEF NewClaim
    <3>2. QED
      BY <1>1, <1>2, <1>5, <2>2, <2>3, <2>5, <3>1
  <2>6. QED
    BY <1>1, <2>3, <2>4, <2>5
<1>10. \A x \in cancellations' : RefundRemaining(x)' >= 0
  <2> SUFFICES ASSUME NEW x \in cancellations' PROVE RefundRemaining(x)' >= 0
    OBVIOUS
  <2>1. RefundRemaining(x)
          = x.refundable - ForDoc("customer_refund", <<"cancellation", x.invoice>>)
    BY LimitsByDoc DEF RefundRemaining
  <2>2. RefundRemaining(x)'
          = x.refundable - ForDoc("customer_refund", <<"cancellation", x.invoice>>)'
    BY DEF RefundRemaining, RefundedFrom, ForDoc
  <2>3. x \in cancellations /\ x.refundable \in Nat /\ RefundRemaining(x) >= 0
    BY <1>4 DEF FinanceInv, SalesLimitsOK, CancellationsOK, CancellationOK
  <2>4. QED
    BY <1>1, <1>2, <2>1, <2>2, <2>3
<1>11. QED
  BY <1>7, <1>8, <1>9, <1>10 DEF SalesLimitsOK

\* A payment within the bill, one settlement alone, or tax within what was withheld,
\* keeps the limits of purchases.
LEMMA PurchaseLimitsKept ==
  ASSUME FinanceInv, NEW c, NewClaim(c),
         \A b \in bills : c.doc = <<"bill", b.id>> => SettlementsOf(b) = {},
         \A b \in bills : c.kind = "bill_payment" /\ c.doc = <<"bill", b.id>> =>
           c.amount <= b.amount - Total(PaymentsOf(b)),
         \A b \in bills : c.kind = "withheld_supplier" /\ c.doc = <<"bill", b.id>> =>
           PaymentsOf(b) = {},
         \A d \in decisions : c.doc = <<"obligation", d.bill>> =>
           c.amount <= d.amount - RemittedFor(d)
  PROVE  PurchaseLimitsOK'
<1>1. c \notin claims /\ c.amount \in Nat /\ claims' = claims \cup {c} /\ BankInv
  BY DEF NewClaim, ClaimKeys, ClaimOK, FinanceInv
<1>2. \A k, doc : /\ ForDoc(k, doc) \in Nat
                  /\ ForDoc(k, doc)' = ForDoc(k, doc)
                       + (IF c.kind = k /\ c.doc = doc THEN c.amount ELSE 0)
  BY <1>1, ClaimAdded
<1>3. \A doc : /\ AllForDoc(doc) \in Nat
               /\ AllForDoc(doc)' = AllForDoc(doc) + (IF c.doc = doc THEN c.amount ELSE 0)
  BY <1>1, ClaimAdded
<1>4. UNCHANGED <<bills, decisions, releases>>
  BY DEF NewClaim
<1>5. ASSUME NEW b \in bills
      PROVE  /\ Total(PaymentsOf(b))' <= b.amount
             /\ Cardinality(SettlementsOf(b))' <= 1
             /\ SettlementsOf(b)' # {} => PaymentsOf(b)' = {}
  <2>1. /\ Total(PaymentsOf(b)) = ForDoc("bill_payment", <<"bill", b.id>>)
        /\ Total(PaymentsOf(b))' = ForDoc("bill_payment", <<"bill", b.id>>)'
    BY DEF PaymentsOf, ForDoc
  <2>2. /\ Total(PaymentsOf(b)) <= b.amount /\ Cardinality(SettlementsOf(b)) <= 1
        /\ SettlementsOf(b) # {} => PaymentsOf(b) = {}
    <3>1. PaidOnce
      BY DEF FinanceInv, PurchaseLimitsOK
    <3>2. QED
      BY <3>1 DEF PaidOnce
  <2>3. b.amount \in Nat
    BY DEF FinanceInv, BillsOK, Bill
  <2>4. Total(PaymentsOf(b))' <= b.amount
    BY <1>1, <1>2, <2>1, <2>2, <2>3
  <2>5. /\ c.kind = "withheld_supplier" /\ c.doc = <<"bill", b.id>> =>
             SettlementsOf(b)' = {c} /\ PaymentsOf(b)' = {}
        /\ ~(c.kind = "withheld_supplier" /\ c.doc = <<"bill", b.id>>) =>
             SettlementsOf(b)' = SettlementsOf(b)
        /\ ~(c.kind = "bill_payment" /\ c.doc = <<"bill", b.id>>) =>
             c.kind = "withheld_supplier" \/ PaymentsOf(b)' = PaymentsOf(b)
        /\ c.doc # <<"bill", b.id>> => PaymentsOf(b)' = PaymentsOf(b)
    BY <1>1 DEF SettlementsOf, PaymentsOf
  <2>6. Cardinality({c}) = 1
    BY FS_Singleton
  <2>7. QED
    BY <2>2, <2>4, <2>5, <2>6
<1>6. ASSUME NEW b \in bills
      PROVE  ReleasedFrom(b)' <= b.amount
  BY <1>4 DEF ReleasedFrom, FinanceInv, PurchaseLimitsOK
<1>7. ASSUME NEW d \in decisions
      PROVE  RemittedFor(d)' <= d.amount
  <2>1. /\ RemittedFor(d) = AllForDoc(<<"obligation", d.bill>>)
        /\ RemittedFor(d)' = AllForDoc(<<"obligation", d.bill>>)'
    BY DEF RemittedFor, AllForDoc
  <2>2. RemittedFor(d) <= d.amount /\ d.amount \in Nat
    BY DEF FinanceInv, PurchaseLimitsOK, BillsOK, DecisionOK
  <2>3. QED
    BY <1>1, <1>3, <2>1, <2>2
<1>8. PaidOnce'
  BY <1>4, <1>5 DEF PaidOnce
<1>9. QED
  BY <1>4, <1>6, <1>7, <1>8 DEF PurchaseLimitsOK

\* Only a settlement changes what is settled.
LEMMA SettledKept ==
  ASSUME NEW c, claims' = claims \cup {c}, c.kind # "withheld_supplier",
         UNCHANGED <<bills, decisions>>, NEW d
  PROVE  SettledSame(d)
<1>1. \A b : SettlementsOf(b)' = SettlementsOf(b)
  BY DEF SettlementsOf
<1>2. QED
  BY <1>1 DEF SettledSame, SettledGross, SettledTax

\* The two accounts a claim of a kind is posted to, debit first.
Books(kind, a, b) ==
  \/ kind = "receipt" /\ a = "BANK" /\ b = "AR"
  \/ kind = "customer_advance" /\ a = "BANK" /\ b = "CUSTOMER_ADVANCE"
  \/ kind = "owner_funding" /\ a = "BANK" /\ b = "EQUITY"
  \/ kind = "bank_fee" /\ a = "EXPENSE" /\ b = "BANK"
  \/ kind = "bill_payment" /\ a = "AP" /\ b = "BANK"
  \/ kind = "tax_remittance" /\ a = "TAX_PAYABLE" /\ b = "BANK"
RefundBooks(c, a, b) ==
  /\ c.kind = "customer_refund" /\ b = "BANK"
  /\ \/ c.doc[1] = "advance" /\ a = "CUSTOMER_ADVANCE"
     \/ c.doc[1] = "cancellation" /\ a = "CUSTOMER_REFUND"

\* A claim with its journal keeps everything, when it keeps the limits.
LEMMA ClaimPosts ==
  ASSUME FinanceInv, NEW c, NewClaim(c), NEW a, NEW b,
         Books(c.kind, a, b) \/ RefundBooks(c, a, b),
         c.line.direction = IF a = "BANK" THEN "in" ELSE "out",
         Post(c.key, c.line.date, {Dr(a, c.amount), Cr(b, c.amount)}),
         SalesLimitsOK', PurchaseLimitsOK'
  PROVE  BankBookStep /\ FinanceInv'
<1>1. /\ Grows /\ ClaimStep /\ RowsStep /\ c \notin claims
      /\ InvoicesOK' /\ DeliveriesOK' /\ CancellationsOK' /\ ApplicationsOK' /\ BillsOK'
      /\ ClaimsOK'
  BY NewClaimKeeps
<1>2. /\ c.line.date \in Nat /\ c.amount \in Nat \ {0} /\ c.key \notin Keys
      /\ a \in Accounts /\ b \in Accounts
  <2>1. c.line \in bank /\ c.amount \in Nat \ {0}
    BY DEF NewClaim, ClaimOK
  <2>2. c.line.date \in Nat
    BY <2>1, LedgerAssumption DEF FinanceInv, BankInv, BankLine, Days
  <2>3. c.key \notin Keys
    BY KeyIsNew DEF NewClaim, UseOK, FinanceInv
  <2>4. a \in Accounts /\ b \in Accounts
    BY DEF Books, RefundBooks, Accounts
  <2>5. QED
    BY <2>1, <2>2, <2>3, <2>4
<1>3. UNCHANGED <<today, closings, openings, bank, bills, approved, decisions, releases, invoices,
                  status, deliveries, cancellations, applications>>
      /\ claims' = claims \cup {c}
  BY DEF NewClaim
<1>4. /\ LedgerStep /\ Keys' \subseteq Keys \cup {c.key}
      /\ \A x, d : Balance(x, d)' = Balance(x, d) + Shift(a, b, c.amount, c.line.date, x, d)
      /\ \A x, d : Balance(x, d) \in Int
  BY <1>2, <1>3, PostingShifts DEF FinanceInv, BankInv
<1>5. BankBookStep /\ BankInv'
  BY <1>1, <1>4, BankInvStep DEF BankBookStep, FinanceInv
<1>6. KeysOK'
  <2>1. KeyOK(c.key)'
    BY <1>3 DEF KeyOK, ClaimKeys
  <2>2. QED
    BY <1>1, <1>4, <2>1, KeysStay DEF FinanceInv
<1>7. TiesOK'
  <2> SUFFICES ASSUME NEW d \in Days PROVE BankTies(d)' /\ SalesTies(d)' /\ PurchaseTies(d)'
    BY DEF TiesOK, Days
  <2>1. BankTies(d) /\ SalesTies(d) /\ PurchaseTies(d)
    BY DEF FinanceInv, TiesOK
  <2>2. /\ OpeningsSame(d) /\ OrdersSame(d) /\ BillsSame(d) /\ SettledSame(d)
    BY <1>3, SameSums, SettledKept DEF Books, RefundBooks
  <2>3. /\ \A k : /\ ClaimsOf(k, d) \in Nat
                  /\ ClaimsOf(k, d)' = ClaimsOf(k, d) + Part(c, c.kind = k, d)
        /\ \A o : /\ RefundsOf(o, d) \in Nat
                  /\ RefundsOf(o, d)' = RefundsOf(o, d)
                       + Part(c, c.kind = "customer_refund" /\ c.doc[1] = o, d)
        /\ \A x : /\ ClaimedLines(x, d) \in Nat
                  /\ ClaimedLines(x, d)' = ClaimedLines(x, d) + Part(c, c.line.direction = x, d)
    BY <1>1, <1>2, <1>3, ClaimAdded DEF FinanceInv
  <2>4. /\ Invoiced(d) \in Nat /\ Delivered(d) \in Nat /\ Reversed(d) \in Nat
        /\ NeverPaid(d) \in Nat /\ Refundable(d) \in Nat /\ Applied(d) \in Nat
        /\ PrepaidBilled(d) \in Nat /\ Expensed(d) \in Nat /\ ReleasedBy(d) \in Nat
        /\ SettledGross(d) \in Nat /\ SettledTax(d) \in Nat
        /\ \A direction : Opened(direction, d) \in Nat
    BY SumTypes
  <2>5. BankTies(d)'
    BY <1>2, <1>4, <2>1, <2>2, <2>3, <2>4
       DEF BankTies, Shift, Part, OpeningsSame, Books, RefundBooks
  <2>6. SalesTies(d)'
    BY <1>2, <1>4, <2>1, <2>2, <2>3, <2>4
       DEF SalesTies, Shift, Part, OrdersSame, Books, RefundBooks
  <2>7. PurchaseTies(d)'
    BY <1>2, <1>4, <2>1, <2>2, <2>3, <2>4
       DEF PurchaseTies, Shift, Part, BillsSame, SettledSame, Books, RefundBooks
  <2>8. QED
    BY <2>5, <2>6, <2>7
<1>8. QED
  BY <1>1, <1>3, <1>5, <1>6, <1>7 DEF FinanceInv

-----------------------------------------------------------------------------
(* The services on bank lines that post one claim. *)

\* What _bank_post writes is a new claim.
LEMMA BankPostClaims ==
  ASSUME FinanceInv, NEW line, NEW direction, NEW amount \in Amounts, NEW kind \in ClaimKinds,
         NEW reference, NEW doc, NEW entries, NEW c,
         c = Claim(kind, <<"bank-event", reference>>, doc, line, amount), UseOK(c),
         BankPost(line, direction, amount, kind, reference, doc, entries),
         UNCHANGED <<today, closings, bank, openings, invoiceVars, billVars>>
  PROVE  NewClaim(c) /\ Post(c.key, c.line.date, entries) /\ c.line.direction = direction
<1>1. /\ c.kind = kind /\ c.key = <<"bank-event", reference>> /\ c.doc = doc
      /\ c.line = line /\ c.amount = amount
  BY DEF Claim
<1>2. amount \in Nat \ {0}
  BY BankAssumption
<1>3. /\ line \in bank /\ amount <= Unallocated(line) /\ line.direction = direction
      /\ <<"bank-event", reference>> \notin ClaimKeys
      /\ Post(<<"bank-event", reference>>, line.date, entries)
      /\ claims' = claims \cup {c}
  BY DEF BankPost, BankPosted
<1>4. NewClaim(c)
  BY <1>1, <1>2, <1>3 DEF NewClaim, ClaimOK, invoiceVars, billVars
<1>5. QED
  BY <1>1, <1>3, <1>4

\* Claims for nothing that has a limit.
LEMMA FreeClaimKept ==
  ASSUME FinanceInv, NEW c, NewClaim(c), c.kind # "customer_refund",
         c.doc[1] \notin {"receipt", "bill", "obligation"}
  PROVE  SalesLimitsOK' /\ PurchaseLimitsOK'
<1>1. \A i : c.doc # <<"receipt", i>> /\ c.doc # <<"bill", i>> /\ c.doc # <<"obligation", i>>
  OBVIOUS
<1>2. SalesLimitsOK'
  BY <1>1, SalesLimitsKept
<1>3. PurchaseLimitsOK'
  BY <1>1, PurchaseLimitsKept
<1>4. QED
  BY <1>2, <1>3

\* The bank services: a bank fee,
LEMMA FeeKeeps ==
  ASSUME FinanceInv, NEW line \in bank, NEW amount \in Amounts, NEW reference \in References,
         ReconcileBankFee(line, amount, reference), UNCHANGED <<invoiceVars, billVars>>
  PROVE  BankBookStep /\ FinanceInv'
<1> DEFINE c == Claim("bank_fee", <<"bank-event", reference>>, <<"fee">>, line, amount)
<1>1. /\ c.kind = "bank_fee" /\ c.key[1] = "bank-event" /\ c.doc = <<"fee">>
      /\ c.doc[1] = "fee" /\ c.line = line /\ c.amount = amount
      /\ c = Claim("bank_fee", <<"bank-event", reference>>, <<"fee">>, line, amount)
  BY DEF Claim
<1> HIDE DEF c
<1>2. BankPost(line, "out", amount, "bank_fee", reference, <<"fee">>,
               {Dr("EXPENSE", amount), Cr("BANK", amount)})
      /\ UNCHANGED <<today, closings, bank, openings, invoiceVars, billVars>>
  BY DEF ReconcileBankFee
<1>3. line.direction = "out" /\ "bank_fee" \in ClaimKinds
  BY <1>2 DEF BankPost, ClaimKinds
<1>4. UseOK(c)
  BY <1>1, <1>3 DEF UseOK, BankUse
<1>5. /\ NewClaim(c) /\ c.line.direction = "out"
      /\ Post(c.key, c.line.date, {Dr("EXPENSE", c.amount), Cr("BANK", c.amount)})
  BY <1>1, <1>2, <1>3, <1>4, BankPostClaims
<1>6. SalesLimitsOK' /\ PurchaseLimitsOK'
  BY <1>1, <1>5, FreeClaimKept
<1>7. QED
  BY <1>1, <1>5, <1>6, ClaimPosts DEF Books

\* the money of an owner,
LEMMA FundingKeeps ==
  ASSUME FinanceInv, NEW line \in bank, NEW amount \in Amounts, NEW reference \in References,
         ReconcileOwnerFunding(line, amount, reference), UNCHANGED <<invoiceVars, billVars>>
  PROVE  BankBookStep /\ FinanceInv'
<1> DEFINE c == Claim("owner_funding", <<"bank-event", reference>>, <<"funding">>, line, amount)
<1>1. /\ c.kind = "owner_funding" /\ c.key[1] = "bank-event" /\ c.doc = <<"funding">>
      /\ c.doc[1] = "funding" /\ c.line = line /\ c.amount = amount
      /\ c = Claim("owner_funding", <<"bank-event", reference>>, <<"funding">>, line, amount)
  BY DEF Claim
<1> HIDE DEF c
<1>2. BankPost(line, "in", amount, "owner_funding", reference, <<"funding">>,
               {Dr("BANK", amount), Cr("EQUITY", amount)})
      /\ UNCHANGED <<today, closings, bank, openings, invoiceVars, billVars>>
  BY DEF ReconcileOwnerFunding
<1>3. line.direction = "in" /\ "owner_funding" \in ClaimKinds
  BY <1>2 DEF BankPost, ClaimKinds
<1>4. UseOK(c)
  BY <1>1, <1>3 DEF UseOK, BankUse
<1>5. /\ NewClaim(c) /\ c.line.direction = "in"
      /\ Post(c.key, c.line.date, {Dr("BANK", c.amount), Cr("EQUITY", c.amount)})
  BY <1>1, <1>2, <1>3, <1>4, BankPostClaims
<1>6. SalesLimitsOK' /\ PurchaseLimitsOK'
  BY <1>1, <1>5, FreeClaimKept
<1>7. QED
  BY <1>1, <1>5, <1>6, ClaimPosts DEF Books

\* money received before an invoice,
LEMMA CustomerAdvanceKeeps ==
  ASSUME FinanceInv, NEW party \in Parties, NEW line \in bank, NEW amount \in Amounts,
         NEW reference \in References,
         RecordCustomerAdvance(party, line, amount, reference), UNCHANGED billVars
  PROVE  BankBookStep /\ FinanceInv'
<1> DEFINE c == Claim("customer_advance", <<"bank-event", reference>>, <<"party", party>>,
                      line, amount)
<1>1. /\ c.kind = "customer_advance" /\ c.key[1] = "bank-event" /\ c.doc = <<"party", party>>
      /\ c.doc[1] = "party" /\ c.line = line /\ c.amount = amount
      /\ c = Claim("customer_advance", <<"bank-event", reference>>, <<"party", party>>,
                   line, amount)
  BY DEF Claim
<1> HIDE DEF c
<1>2. BankPost(line, "in", amount, "customer_advance", reference, <<"party", party>>,
               {Dr("BANK", amount), Cr("CUSTOMER_ADVANCE", amount)})
      /\ UNCHANGED <<today, closings, bank, openings, invoiceVars, billVars>>
  BY DEF RecordCustomerAdvance
<1>3. line.direction = "in" /\ "customer_advance" \in ClaimKinds
  BY <1>2 DEF BankPost, ClaimKinds
<1>4. UseOK(c)
  BY <1>1, <1>3 DEF UseOK, SalesUse
<1>5. /\ NewClaim(c) /\ c.line.direction = "in"
      /\ Post(c.key, c.line.date, {Dr("BANK", c.amount), Cr("CUSTOMER_ADVANCE", c.amount)})
  BY <1>1, <1>2, <1>3, <1>4, BankPostClaims
<1>6. SalesLimitsOK' /\ PurchaseLimitsOK'
  BY <1>1, <1>5, FreeClaimKept
<1>7. QED
  BY <1>1, <1>5, <1>6, ClaimPosts DEF Books

\* the return of what is left of an advance,
LEMMA AdvanceRefundKeeps ==
  ASSUME FinanceInv, NEW adv \in Advances, NEW line \in bank, NEW amount \in Amounts,
         NEW reference \in References,
         RefundCustomerAdvance(adv, line, amount, reference), UNCHANGED billVars
  PROVE  BankBookStep /\ FinanceInv'
<1> DEFINE c == Claim("customer_refund", <<"bank-event", reference>>, <<"advance", adv.key>>,
                      line, amount)
<1>1. /\ c.kind = "customer_refund" /\ c.key[1] = "bank-event" /\ c.doc = <<"advance", adv.key>>
      /\ c.doc[1] = "advance" /\ c.doc[2] = adv.key /\ c.line = line /\ c.amount = amount
      /\ c = Claim("customer_refund", <<"bank-event", reference>>, <<"advance", adv.key>>,
                   line, amount)
  BY DEF Claim
<1> HIDE DEF c
<1>2. /\ BankPost(line, "out", amount, "customer_refund", reference, <<"advance", adv.key>>,
                  {Dr("CUSTOMER_ADVANCE", amount), Cr("BANK", amount)})
      /\ UNCHANGED <<today, closings, bank, openings, invoiceVars, billVars>>
      /\ adv.line.date <= line.date /\ amount <= AdvanceRemaining(adv)
  <2>1. line.date >= adv.line.date
    BY DEF RefundCustomerAdvance
  <2>2. line \in bank /\ adv.line \in bank /\ \A l \in bank : l.date \in Nat
    BY LedgerAssumption DEF Advances, FinanceInv, BankInv, BankLine, ClaimOK, Days
  <2>3. QED
    BY <2>1, <2>2 DEF RefundCustomerAdvance
<1>3. line.direction = "out" /\ "customer_refund" \in ClaimKinds
  BY <1>2 DEF BankPost, ClaimKinds
<1>4. UseOK(c)
  BY <1>1, <1>2, <1>3 DEF UseOK, SalesUse
<1>5. /\ NewClaim(c) /\ c.line.direction = "out"
      /\ Post(c.key, c.line.date, {Dr("CUSTOMER_ADVANCE", c.amount), Cr("BANK", c.amount)})
  BY <1>1, <1>2, <1>3, <1>4, BankPostClaims
<1>6. SalesLimitsOK'
  <2>1. \A i : c.doc # <<"receipt", i>> /\ c.doc # <<"cancellation", i>>
    BY <1>1
  <2>2. \A other \in Advances : c.doc = <<"advance", other.key>> =>
          c.amount <= AdvanceRemaining(other)
    <3> SUFFICES ASSUME NEW other \in Advances, c.doc = <<"advance", other.key>>
                 PROVE  c.amount <= AdvanceRemaining(other)
      OBVIOUS
    <3>1. other.key = adv.key
      BY <1>1
    <3>2. other = adv
      BY <3>1 DEF Advances, FinanceInv, ClaimsOK
    <3>3. QED
      BY <1>1, <1>2, <3>2
  <2>3. QED
    BY <1>5, <2>1, <2>2, SalesLimitsKept
<1>7. PurchaseLimitsOK'
  <2>1. \A i : c.doc # <<"bill", i>> /\ c.doc # <<"obligation", i>>
    BY <1>1
  <2>2. QED
    BY <1>5, <2>1, PurchaseLimitsKept
<1>8. QED
  BY <1>1, <1>5, <1>6, <1>7, ClaimPosts DEF RefundBooks

\* and the return of what a cancelled order had paid.
LEMMA CancelledRefundKeeps ==
  ASSUME FinanceInv, NEW x \in cancellations, NEW line \in bank, NEW amount \in Amounts,
         NEW reference \in References,
         RefundCancelledInvoice(x, line, amount, reference), UNCHANGED billVars
  PROVE  BankBookStep /\ FinanceInv'
<1> DEFINE doc == <<"cancellation", x.invoice>>
           c == Claim("customer_refund", <<"bank-event", reference>>, doc, line, amount)
<1>1. /\ c.kind = "customer_refund" /\ c.key[1] = "bank-event" /\ c.doc = doc
      /\ c.doc[1] = "cancellation" /\ c.doc[2] = x.invoice /\ c.line = line /\ c.amount = amount
      /\ c = Claim("customer_refund", <<"bank-event", reference>>, doc, line, amount)
  BY DEF Claim
<1> HIDE DEF c
<1>2. /\ BankPost(line, "out", amount, "customer_refund", reference, doc,
                  {Dr("CUSTOMER_REFUND", amount), Cr("BANK", amount)})
      /\ UNCHANGED <<today, closings, bank, openings, invoiceVars, billVars>>
      /\ x.date <= line.date /\ amount <= RefundRemaining(x)
  <2>1. line.date >= x.date
    BY DEF RefundCancelledInvoice
  <2>2. line.date \in Nat
    BY LedgerAssumption DEF FinanceInv, BankInv, BankLine, Days
  <2>3. x.date \in Nat
    BY LedgerAssumption DEF FinanceInv, CancellationsOK, CancellationOK, Days
  <2>4. QED
    BY <2>1, <2>2, <2>3 DEF RefundCancelledInvoice
<1>3. line.direction = "out" /\ "customer_refund" \in ClaimKinds
  BY <1>2 DEF BankPost, ClaimKinds
<1>4. UseOK(c)
  BY <1>1, <1>2, <1>3 DEF UseOK, SalesUse
<1>5. /\ NewClaim(c) /\ c.line.direction = "out"
      /\ Post(c.key, c.line.date, {Dr("CUSTOMER_REFUND", c.amount), Cr("BANK", c.amount)})
  BY <1>1, <1>2, <1>3, <1>4, BankPostClaims
<1>6. SalesLimitsOK'
  <2>1. \A i : c.doc # <<"receipt", i>> /\ c.doc # <<"advance", i>>
    BY <1>1
  <2>2. \A other \in cancellations : c.doc = <<"cancellation", other.invoice>> =>
          c.amount <= RefundRemaining(other)
    <3> SUFFICES ASSUME NEW other \in cancellations, c.doc = <<"cancellation", other.invoice>>
                 PROVE  c.amount <= RefundRemaining(other)
      OBVIOUS
    <3>1. other.invoice = x.invoice
      BY <1>1
    <3>2. other = x
      BY <3>1 DEF FinanceInv, CancellationsOK
    <3>3. QED
      BY <1>1, <1>2, <3>2
  <2>3. QED
    BY <1>5, <2>1, <2>2, SalesLimitsKept
<1>7. PurchaseLimitsOK'
  <2>1. \A i : c.doc # <<"bill", i>> /\ c.doc # <<"obligation", i>>
    BY <1>1
  <2>2. QED
    BY <1>5, <2>1, PurchaseLimitsKept
<1>8. QED
  BY <1>1, <1>5, <1>6, <1>7, ClaimPosts DEF RefundBooks

\* A receipt settles part of an order that is still outstanding.
LEMMA ReceiptKeeps ==
  ASSUME FinanceInv, NEW v \in invoices, NEW line \in bank, NEW amount \in Amounts,
         ReconcileReceipt(v, line, amount), UNCHANGED billVars
  PROVE  BankBookStep /\ FinanceInv'
<1> DEFINE key == <<"allocation", v.id, line.account, line.reference>>
           c == Claim("receipt", key, <<"receipt", v.id>>, line, amount)
<1>1. /\ c.kind = "receipt" /\ c.key = key /\ c.key[1] = "allocation"
      /\ c.doc = <<"receipt", v.id>> /\ c.doc[1] = "receipt" /\ c.doc[2] = v.id
      /\ c.line = line /\ c.amount = amount
  BY DEF Claim
<1>2. /\ key \notin ClaimKeys /\ claims' = claims \cup {c} /\ line.direction = "in"
      /\ line.date >= v.date /\ amount <= Unallocated(line) /\ amount <= Outstanding(v)
      /\ status[v.id] \in {"issued", "delivered"}
      /\ Post(key, line.date, {Dr("BANK", amount), Cr("AR", amount)})
      /\ UNCHANGED <<today, closings, bank, openings, invoiceVars, billVars>>
  BY DEF ReconcileReceipt, ReceiptPosted
<1> HIDE DEF c
<1>3. v.date <= line.date /\ amount \in Nat \ {0}
  <2>1. line.date \in Nat /\ v.date \in Nat
    BY LedgerAssumption DEF FinanceInv, BankInv, BankLine, Days, InvoicesOK, Invoice
  <2>2. QED
    BY <1>2, <2>1, BankAssumption
<1>4. UseOK(c)
  <2>1. v \in PostedInvoices
    BY <1>2 DEF PostedInvoices
  <2>2. QED
    BY <1>1, <1>2, <1>3, <2>1 DEF UseOK, SalesUse
<1>5. NewClaim(c)
  BY <1>1, <1>2, <1>3, <1>4 DEF NewClaim, ClaimOK, ClaimKinds, invoiceVars, billVars
<1>6. SalesLimitsOK'
  <2>1. \A w \in invoices : c.doc = <<"receipt", w.id>> =>
          c.amount <= w.amount - Paid(w) /\ status[w.id] # "cancelled"
    <3> SUFFICES ASSUME NEW w \in invoices, c.doc = <<"receipt", w.id>>
                 PROVE  c.amount <= w.amount - Paid(w) /\ status[w.id] # "cancelled"
      OBVIOUS
    <3>1. w.id = v.id
      BY <1>1
    <3>2. w = v
      BY <3>1 DEF FinanceInv, InvoicesOK
    <3>3. QED
      BY <1>1, <1>2, <3>2 DEF Outstanding
  <2>2. QED
    BY <1>1, <1>5, <2>1, SalesLimitsKept
<1>7. PurchaseLimitsOK'
  <2>1. \A i : c.doc # <<"bill", i>> /\ c.doc # <<"obligation", i>>
    BY <1>1
  <2>2. QED
    BY <1>5, <2>1, PurchaseLimitsKept
<1>8. QED
  BY <1>1, <1>2, <1>5, <1>6, <1>7, ClaimPosts DEF Books

\* A payment settles part of a bill that is still outstanding.
LEMMA PaymentKeeps ==
  ASSUME FinanceInv, NEW b \in bills, NEW line \in bank, NEW amount \in Amounts,
         ReconcileBillPayment(b, line, amount), UNCHANGED invoiceVars
  PROVE  BankBookStep /\ FinanceInv'
<1> DEFINE key == <<"bill-payment", b.id, line.account, line.reference>>
           c == Claim("bill_payment", key, <<"bill", b.id>>, line, amount)
<1>1. /\ c.kind = "bill_payment" /\ c.key = key /\ c.key[1] = "bill-payment"
      /\ c.doc = <<"bill", b.id>> /\ c.doc[1] = "bill" /\ c.doc[2] = b.id
      /\ c.line = line /\ c.amount = amount
  BY DEF Claim
<1>2. /\ key \notin ClaimKeys /\ claims' = claims \cup {c} /\ line.direction = "out"
      /\ line.date >= b.date /\ amount <= Unallocated(line) /\ amount <= BillOutstanding(b)
      /\ b.id \in approved
      /\ \E d \in DecisionsOn(b) : d.amount = 0
      /\ Post(key, line.date, {Dr("AP", amount), Cr("BANK", amount)})
      /\ UNCHANGED <<today, closings, bank, openings, invoiceVars, billVars>>
  BY DEF ReconcileBillPayment, PaymentPosted
<1> HIDE DEF c
<1>3. b.date <= line.date /\ amount \in Nat \ {0} /\ b.amount \in Nat
  <2>1. line.date \in Nat /\ b.date \in Nat /\ b.amount \in Nat
    BY LedgerAssumption DEF FinanceInv, BankInv, BankLine, Days, BillsOK, Bill
  <2>2. QED
    BY <1>2, <2>1, BankAssumption
<1>4. UseOK(c)
  <2>1. b \in ApprovedBills
    BY <1>2 DEF ApprovedBills
  <2>2. QED
    BY <1>1, <1>2, <1>3, <2>1 DEF UseOK, PurchaseUse
<1>5. NewClaim(c)
  BY <1>1, <1>2, <1>3, <1>4 DEF NewClaim, ClaimOK, ClaimKinds, invoiceVars, billVars
<1>6. SalesLimitsOK'
  <2>1. \A i : c.doc # <<"receipt", i>>
    BY <1>1
  <2>2. QED
    BY <1>1, <1>5, <2>1, SalesLimitsKept
<1>7. SettlementsOf(b) = {}
  <2> SUFFICES ASSUME NEW s \in SettlementsOf(b) PROVE FALSE
    OBVIOUS
  <2>1. s \in claims /\ s.kind = "withheld_supplier" /\ s.doc = <<"bill", b.id>>
    BY DEF SettlementsOf
  <2>2. PurchaseUse(s)
    BY <2>1 DEF FinanceInv, ClaimsOK, UseOK, SalesUse, BankUse
  <2>3. PICK other \in ApprovedBills, d \in decisions :
          s.doc = <<"bill", other.id>> /\ d.bill = other.id /\ d.amount > 0
    BY <2>1, <2>2 DEF PurchaseUse
  <2>4. d.bill = b.id
    <3>1. s.doc[2] = b.id /\ s.doc[2] = other.id
      BY <2>1, <2>3
    <3>2. QED
      BY <2>3, <3>1
  <2>5. PICK e \in decisions : e.bill = b.id /\ e.amount = 0
    BY <1>2 DEF DecisionsOn
  <2>6. d = e
    BY <2>4, <2>5 DEF FinanceInv, BillsOK
  <2>7. QED
    BY <2>3, <2>5, <2>6
<1>8. PurchaseLimitsOK'
  <2>1. ASSUME NEW other \in bills, c.doc = <<"bill", other.id>>
        PROVE  other = b
    <3>1. other.id = b.id
      BY <1>1, <2>1
    <3>2. QED
      BY <3>1 DEF FinanceInv, BillsOK
  <2>2. c.amount <= b.amount - Total(PaymentsOf(b))
    <3>1. PaymentsOf(b) \in SUBSET claims
      BY DEF PaymentsOf
    <3>2. IsFiniteSet(claims) /\ \A x \in claims : x.amount \in Nat
      BY DEF FinanceInv, BankInv, ClaimOK
    <3>3. Total(PaymentsOf(b)) \in Nat
      BY <3>1, <3>2, TotalType
    <3>4. QED
      BY <1>1, <1>2, <1>3, <1>7, <3>3 DEF BillOutstanding
  <2>3. \A i : c.doc # <<"obligation", i>>
    BY <1>1
  <2>4. QED
    BY <1>1, <1>5, <1>7, <2>1, <2>2, <2>3, PurchaseLimitsKept
<1>9. QED
  BY <1>1, <1>2, <1>5, <1>6, <1>8, ClaimPosts DEF Books

\* A remittance pays tax that was withheld before it.
LEMMA RemittanceKeeps ==
  ASSUME FinanceInv, NEW d \in decisions, NEW line \in bank, NEW amount \in Amounts,
         NEW reference \in References,
         ReconcileTaxRemittance(d, line, amount, reference), UNCHANGED invoiceVars
  PROVE  BankBookStep /\ FinanceInv'
<1> DEFINE doc == <<"obligation", d.bill>>
           c == Claim("tax_remittance", <<"bank-event", reference>>, doc, line, amount)
<1>1. /\ c.kind = "tax_remittance" /\ c.key[1] = "bank-event" /\ c.doc = doc
      /\ c.doc[1] = "obligation" /\ c.doc[2] = d.bill /\ c.line = line /\ c.amount = amount
      /\ c = Claim("tax_remittance", <<"bank-event", reference>>, doc, line, amount)
  BY DEF Claim
<1> HIDE DEF c
<1>2. /\ BankPost(line, "out", amount, "tax_remittance", reference, doc,
                  {Dr("TAX_PAYABLE", amount), Cr("BANK", amount)})
      /\ UNCHANGED <<today, closings, bank, openings, invoiceVars, billVars>>
      /\ amount <= d.amount - RemittedFor(d)
  BY DEF ReconcileTaxRemittance, TaxRemitted, RemittedFor
<1>3. PICK s \in claims : /\ s.kind = "withheld_supplier" /\ s.doc = <<"bill", d.bill>>
                          /\ line.date >= s.line.date
  BY DEF ReconcileTaxRemittance
<1>4. s.line.date <= line.date
  <2>1. line \in bank /\ s.line \in bank /\ \A l \in bank : l.date \in Nat
    BY LedgerAssumption DEF FinanceInv, BankInv, BankLine, ClaimOK, Days
  <2>2. QED
    BY <1>3, <2>1
<1>5. line.direction = "out" /\ "tax_remittance" \in ClaimKinds
  BY <1>2 DEF BankPost, ClaimKinds
<1>6. UseOK(c)
  BY <1>1, <1>3, <1>4, <1>5 DEF UseOK, PurchaseUse
<1>7. /\ NewClaim(c) /\ c.line.direction = "out"
      /\ Post(c.key, c.line.date, {Dr("TAX_PAYABLE", c.amount), Cr("BANK", c.amount)})
  BY <1>1, <1>2, <1>5, <1>6, BankPostClaims
<1>8. SalesLimitsOK'
  <2>1. \A i : c.doc # <<"receipt", i>>
    BY <1>1
  <2>2. QED
    BY <1>1, <1>7, <2>1, SalesLimitsKept
<1>9. PurchaseLimitsOK'
  <2>1. \A i : c.doc # <<"bill", i>>
    BY <1>1
  <2>2. \A other \in decisions : c.doc = <<"obligation", other.bill>> =>
          c.amount <= other.amount - RemittedFor(other)
    <3> SUFFICES ASSUME NEW other \in decisions, c.doc = <<"obligation", other.bill>>
                 PROVE  c.amount <= other.amount - RemittedFor(other)
      OBVIOUS
    <3>1. other.bill = d.bill
      BY <1>1
    <3>2. other = d
      BY <3>1 DEF FinanceInv, BillsOK
    <3>3. QED
      BY <1>1, <1>2, <3>2
  <2>3. QED
    BY <1>1, <1>7, <2>1, <2>2, PurchaseLimitsKept
<1>10. QED
  BY <1>1, <1>7, <1>8, <1>9, ClaimPosts DEF Books

-----------------------------------------------------------------------------
(* Steps that add no claim. *)

\* What stays of the invariant when rows are only added and claims are not.
LEMMA GrowthKeeps ==
  ASSUME FinanceInv, Grows, UNCHANGED claims
  PROVE  /\ ClaimsOK'
         /\ UNCHANGED <<invoices, status>> => InvoicesOK'
         /\ UNCHANGED <<invoices, status, deliveries>> => DeliveriesOK'
         /\ UNCHANGED <<invoices, status, cancellations>> => CancellationsOK'
         /\ UNCHANGED applications => ApplicationsOK'
         /\ UNCHANGED <<bills, approved, decisions, releases>> => BillsOK'
         /\ UNCHANGED <<invoices, cancellations, applications>> => SalesLimitsOK'
         /\ UNCHANGED <<bills, decisions, releases>> => PurchaseLimitsOK'
<1>1. ClaimsOK'
  <2>1. \A c \in claims' : UseOK(c)'
    BY UseStays DEF FinanceInv, ClaimsOK
  <2>2. QED
    BY <2>1 DEF FinanceInv, ClaimsOK
<1>2. UNCHANGED <<invoices, status>> => InvoicesOK'
  BY DEF FinanceInv, InvoicesOK
<1>3. UNCHANGED <<invoices, status, deliveries>> => DeliveriesOK'
  BY DEF FinanceInv, DeliveriesOK, DeliveryOK
<1>4. UNCHANGED <<invoices, status, cancellations>> => CancellationsOK'
  BY DEF FinanceInv, CancellationsOK, CancellationOK
<1>5. UNCHANGED applications => ApplicationsOK'
  BY ApplicationStays DEF FinanceInv, ApplicationsOK
<1>6. UNCHANGED <<bills, approved, decisions, releases>> => BillsOK'
  BY BillRowsStay DEF FinanceInv, BillsOK
<1>7. UNCHANGED <<invoices, cancellations, applications>> => SalesLimitsOK'
  BY DEF FinanceInv, SalesLimitsOK, Paid, Advances, AdvanceRemaining, RefundRemaining,
         RefundedFrom
<1>8. UNCHANGED <<bills, decisions, releases>> => PurchaseLimitsOK'
  <2>1. FinanceInv => PurchaseLimitsOK
    BY DEF FinanceInv
  <2>2. QED
    BY <2>1 DEF PurchaseLimitsOK, PaidOnce, PaymentsOf, SettlementsOf, ReleasedFrom, RemittedFor
<1>9. QED
  BY <1>1, <1>2, <1>3, <1>4, <1>5, <1>6, <1>7, <1>8

\* No journal and no sum changes.
LEMMA SameTies ==
  ASSUME FinanceInv, UNCHANGED journal, NEW d \in Days,
         OpeningsSame(d), ClaimsSame(d), OrdersSame(d), BillsSame(d), SettledSame(d)
  PROVE  BankTies(d)' /\ SalesTies(d)' /\ PurchaseTies(d)'
<1>1. BankTies(d) /\ SalesTies(d) /\ PurchaseTies(d)
  BY DEF FinanceInv, TiesOK
<1>2. \A x : Balance(x, d)' = Balance(x, d)
  BY DEF Balance, Side
<1>3. BankTies(d)'
  BY <1>1, <1>2 DEF BankTies, OpeningsSame, ClaimsSame
<1>4. SalesTies(d)'
  BY <1>1, <1>2 DEF SalesTies, ClaimsSame, OrdersSame
<1>5. PurchaseTies(d)'
  BY <1>1, <1>2 DEF PurchaseTies, ClaimsSame, BillsSame, SettledSame
<1>6. QED
  BY <1>3, <1>4, <1>5

\* Without a new journal, no key is new.
LEMMA SameKeys ==
  ASSUME FinanceInv, Grows, UNCHANGED journal
  PROVE  KeysOK'
<1> DEFINE new == {}
<1>1. Keys' \subseteq Keys \cup new /\ \A key \in new : KeyOK(key)'
  BY DEF Keys
<1> HIDE DEF new
<1>2. QED
  BY <1>1, KeysStay DEF FinanceInv

\* A step that posts nothing and touches no row a sum counts.
LEMMA QuietKeeps ==
  ASSUME FinanceInv, BankBookStep,
         UNCHANGED <<journal, claims, openings, invoices, status, deliveries, cancellations,
                     applications, bills, approved, decisions, releases>>
  PROVE  FinanceInv'
<1>1. Grows
  BY DEF Grows, PostedInvoices
<1>2. BankInv'
  BY BankInvStep DEF FinanceInv
<1>3. KeysOK'
  BY <1>1, SameKeys
<1>4. TiesOK'
  <2>1. \A d \in Days : BankTies(d)' /\ SalesTies(d)' /\ PurchaseTies(d)'
    BY SameSums, SameTies
  <2>2. QED
    BY <2>1 DEF TiesOK, Days
<1>5. QED
  BY <1>1, <1>2, <1>3, <1>4, GrowthKeeps DEF FinanceInv

\* The day moves on, a month is closed, a statement is imported.
LEMMA NextDayKeeps ==
  ASSUME FinanceInv, NextDay, UNCHANGED documentVars
  PROVE  BankBookStep /\ FinanceInv'
<1>1. /\ today' \in Nat
      /\ UNCHANGED <<journal, closings, claims, openings, bank, invoices, status, deliveries,
                     cancellations, applications, bills, approved, decisions, releases>>
  BY DEF NextDay, documentVars, bankVars, invoiceVars, billVars, FinanceInv, BankInv, LedgerInv
<1>2. BankBookStep
  BY <1>1, QuietIsStep, NoClaimStep DEF BankBookStep, LedgerStep, RowsStep, FinanceInv, BankInv
<1>3. QED
  BY <1>1, <1>2, QuietKeeps

\* Closing a month and importing a statement post nothing.
LEMMA CloseMonthKeeps ==
  ASSUME FinanceInv, NEW end \in MonthEnds, CloseMonth(end)
  PROVE  BankBookStep /\ FinanceInv'
<1>1. /\ ClosingStep
      /\ UNCHANGED <<journal, claims, openings, bank, invoices, status, deliveries,
                     cancellations, applications, bills, approved, decisions, releases>>
  BY CloseIsStep DEF CloseMonth, Close, documentVars, bankVars, invoiceVars, billVars
<1>2. BankBookStep
  BY <1>1, NoClaimStep DEF BankBookStep, LedgerStep, RowsStep, FinanceInv, BankInv
<1>3. QED
  BY <1>1, <1>2, QuietKeeps

\* An imported file adds bank lines that nothing has used yet.
LEMMA ImportKeeps ==
  ASSUME FinanceInv, NEW file \in Statements, ImportBankCsv(file),
         UNCHANGED <<invoiceVars, billVars>>
  PROVE  BankBookStep /\ FinanceInv'
<1>1. BankBookStep
  BY ImportIsStep DEF FinanceInv
<1>2. UNCHANGED <<journal, claims, openings, invoices, status, deliveries,
                  cancellations, applications, bills, approved, decisions, releases>>
  BY DEF ImportBankCsv, invoiceVars, billVars
<1>3. QED
  BY <1>1, <1>2, QuietKeeps

-----------------------------------------------------------------------------
(* Steps that post a journal for a document, without a claim. *)

\* A new document posts one journal of two lines, which moves two accounts.
LEMMA DocumentPosts ==
  ASSUME FinanceInv, Grows, RowsStep, UNCHANGED <<today, closings, claims>>,
         NEW key, ~KeyOK(key), KeyOK(key)', NEW date \in Days,
         NEW a \in Accounts, NEW b \in Accounts, NEW amount \in Nat \ {0},
         Post(key, date, {Dr(a, amount), Cr(b, amount)})
  PROVE  /\ BankBookStep /\ BankInv' /\ KeysOK'
         /\ \A x, d : Balance(x, d)' = Balance(x, d) + Shift(a, b, amount, date, x, d)
         /\ \A x, d : Balance(x, d) \in Int
<1>1. key \notin Keys /\ date \in Nat
  BY DEF FinanceInv, KeysOK, Days
<1>2. /\ LedgerStep /\ Keys' \subseteq Keys \cup {key}
      /\ \A x, d : Balance(x, d)' = Balance(x, d) + Shift(a, b, amount, date, x, d)
      /\ \A x, d : Balance(x, d) \in Int
  BY <1>1, PostingShifts DEF FinanceInv, BankInv
<1>3. BankBookStep
  BY <1>2, NoClaimStep DEF BankBookStep, FinanceInv
<1>4. BankInv'
  BY <1>3, BankInvStep DEF FinanceInv
<1>5. KeysOK'
  BY <1>2, KeysStay DEF FinanceInv
<1>6. QED
  BY <1>2, <1>3, <1>4, <1>5

\* A table with one more row, seen up to a day.
LEMMA UptoAdded ==
  ASSUME NEW rows, IsFiniteSet(rows), \A x \in rows : x.amount \in Nat,
         NEW r, r \notin rows, r.amount \in Nat, NEW d
  PROVE  Total(Upto(rows \cup {r}, d))
           = Total(Upto(rows, d)) + (IF r.date <= d THEN r.amount ELSE 0)
<1> DEFINE old == Upto(rows, d)
           new == Upto(rows \cup {r}, d)
<1>1. /\ old \in SUBSET rows /\ r \notin old
      /\ new = old \/ new = old \cup {r}
      /\ r \in new <=> r.date <= d
  BY DEF Upto
<1> HIDE DEF old, new
<1>2. IsFiniteSet(old) /\ \A x \in old : x.amount \in Nat
  BY <1>1, FS_Subset
<1>3. Total(new) = Total(old) + (IF r \in new THEN r.amount ELSE 0)
  BY <1>1, <1>2, TotalOfMore
<1>4. QED
  BY <1>1, <1>3 DEF old, new

\* An opening balance moves the bank account and equity.
LEMMA OpeningKeeps ==
  ASSUME FinanceInv, NEW account \in BankAccounts, NEW date \in Days,
         NEW direction \in {"in", "out"}, NEW amount \in Amounts,
         RecordBankOpening(account, date, direction, amount),
         UNCHANGED <<invoiceVars, billVars>>
  PROVE  BankBookStep /\ FinanceInv'
<1> DEFINE key == <<"bank-opening", account>>
           a == IF direction = "in" THEN "BANK" ELSE "EQUITY"
           b == IF direction = "in" THEN "EQUITY" ELSE "BANK"
           row == [account |-> account, date |-> date, direction |-> direction,
                   amount |-> amount]
<1>1. /\ Post(key, date, {Dr(a, amount), Cr(b, amount)})
      /\ openings' = openings \cup {row}
      /\ OpeningOf(account) = {}
      /\ UNCHANGED <<today, closings, bank, claims, invoices, status, deliveries, cancellations,
                     applications, bills, approved, decisions, releases>>
  BY DEF RecordBankOpening, OpeningPosted, invoiceVars, billVars
<1>2. /\ amount \in Nat \ {0} /\ a \in Accounts /\ b \in Accounts
      /\ row.account = account /\ row.date = date /\ row.direction = direction
      /\ row.amount = amount /\ row \in OpeningRow
  BY BankAssumption DEF Accounts, OpeningRow
<1>3. row \notin openings
  BY <1>1, <1>2 DEF OpeningOf
<1>4. Grows
  BY <1>1 DEF Grows, PostedInvoices
<1>5. RowsStep
  BY <1>1, <1>2 DEF RowsStep, FinanceInv, BankInv
<1>6. ~KeyOK(key)
  BY <1>1 DEF KeyOK, OpeningOf, ClaimKeys, FinanceInv, ClaimsOK, UseOK
<1>7. KeyOK(key)'
  BY <1>1, <1>2 DEF KeyOK
<1> HIDE DEF a, b, key, row
<1>8. /\ BankBookStep /\ BankInv' /\ KeysOK'
      /\ \A x, d : Balance(x, d)' = Balance(x, d) + Shift(a, b, amount, date, x, d)
      /\ \A x, d : Balance(x, d) \in Int
  BY <1>1, <1>2, <1>4, <1>5, <1>6, <1>7, DocumentPosts
<1>9. IsFiniteSet(openings')
  BY <1>1, FS_AddElement DEF FinanceInv
<1>10. TiesOK'
  <2> SUFFICES ASSUME NEW d \in Days PROVE BankTies(d)' /\ SalesTies(d)' /\ PurchaseTies(d)'
    BY DEF TiesOK, Days
  <2>1. BankTies(d) /\ SalesTies(d) /\ PurchaseTies(d)
    BY DEF FinanceInv, TiesOK
  <2>2. /\ ClaimsSame(d) /\ OrdersSame(d) /\ BillsSame(d) /\ SettledSame(d)
    BY <1>1, SameSums
  <2>3. ASSUME NEW x
        PROVE  /\ Opened(x, d)' = Opened(x, d)
                    + (IF direction = x /\ date <= d THEN amount ELSE 0)
               /\ Opened(x, d) \in Nat
    <3> DEFINE old == {o \in Upto(openings, d) : o.direction = x}
               new == {o \in Upto(openings', d) : o.direction = x}
    <3>1. /\ old \in SUBSET openings
          /\ new = old \/ new = old \cup {row}
          /\ row \in new <=> direction = x /\ date <= d
          /\ row \notin old
      BY <1>1, <1>2, <1>3 DEF Upto
    <3>2. IsFiniteSet(openings) /\ \A o \in openings : o.amount \in Nat
      BY DEF FinanceInv, BankInv, OpeningRow
    <3>3. Opened(x, d) = Total(old) /\ Opened(x, d)' = Total(new)
      BY DEF Opened, Moved
    <3> HIDE DEF old, new
    <3>4. IsFiniteSet(old) /\ \A o \in old : o.amount \in Nat
      BY <3>1, <3>2, FS_Subset
    <3>5. Total(new) = Total(old) + (IF row \in new THEN row.amount ELSE 0) /\ Total(old) \in Nat
      BY <1>2, <3>1, <3>4, TotalOfMore
    <3>6. QED
      BY <1>2, <3>1, <3>3, <3>5
  <2>4. ClaimsOf("owner_funding", d) \in Int /\ ClaimedLines("in", d) \in Int
        /\ ClaimedLines("out", d) \in Int
    BY ClaimSumTypes
  <2>5. BankTies(d)'
    BY <1>2, <1>8, <2>1, <2>2, <2>3, <2>4 DEF BankTies, Shift, ClaimsSame, a, b
  <2>6. SalesTies(d)'
    BY <1>2, <1>8, <2>1, <2>2 DEF SalesTies, Shift, ClaimsSame, OrdersSame, a, b
  <2>7. PurchaseTies(d)'
    BY <1>2, <1>8, <2>1, <2>2 DEF PurchaseTies, Shift, ClaimsSame, BillsSame, SettledSame, a, b
  <2>8. QED
    BY <2>5, <2>6, <2>7
<1>11. QED
  BY <1>1, <1>4, <1>8, <1>9, <1>10, GrowthKeeps DEF FinanceInv

\* The two legs of a transfer: two claims and two journals.
LEMMA TransferKeeps ==
  ASSUME FinanceInv, NEW out \in bank, NEW inc \in bank, NEW amount \in Amounts,
         NEW reference \in References,
         ReconcileBankTransfer(out, inc, amount, reference), UNCHANGED <<invoiceVars, billVars>>
  PROVE  BankBookStep /\ FinanceInv'
<1> DEFINE outKey == <<"bank-event", reference, "out">>
           incKey == <<"bank-event", reference, "in">>
           doc == <<"transfer", reference>>
           o == Claim("transfer_out", outKey, doc, out, amount)
           i == Claim("transfer_in", incKey, doc, inc, amount)
           outEntries == {Dr("BANK_TRANSFER", amount), Cr("BANK", amount)}
           incEntries == {Dr("BANK", amount), Cr("BANK_TRANSFER", amount)}
<1>1. /\ outKey \notin ClaimKeys /\ incKey \notin ClaimKeys /\ outKey # incKey
      /\ out.direction = "out" /\ inc.direction = "in" /\ out.date <= inc.date
      /\ claims' = claims \cup {o, i}
      /\ journal' = (journal \cup Lines(outKey, out.date, outEntries))
                      \cup Lines(incKey, inc.date, incEntries)
      /\ UNCHANGED <<today, closings, bank, openings, invoices, status, deliveries, cancellations,
                     applications, bills, approved, decisions, releases>>
  <2>1. out.date \in Nat /\ inc.date \in Nat /\ inc.date >= out.date
    BY LedgerAssumption DEF ReconcileBankTransfer, FinanceInv, BankInv, BankLine, Days
  <2>2. outKey[3] = "out" /\ incKey[3] = "in"
    OBVIOUS
  <2>3. QED
    BY <2>1, <2>2 DEF ReconcileBankTransfer, TransferPosted, invoiceVars, billVars
<1>2. /\ o.kind = "transfer_out" /\ o.key = outKey /\ o.doc = doc /\ o.line = out /\ o.amount = amount
      /\ i.kind = "transfer_in" /\ i.key = incKey /\ i.doc = doc /\ i.line = inc /\ i.amount = amount
      /\ outKey[1] = "bank-event" /\ incKey[1] = "bank-event" /\ doc[1] = "transfer"
      /\ amount \in Nat \ {0} /\ out.date \in Nat /\ inc.date \in Nat
  BY LedgerAssumption, BankAssumption DEF Claim, FinanceInv, BankInv, BankLine, Days
<1>3. BankBookStep
  BY <1>2, TransferIsStep DEF FinanceInv
<1>4. BankInv'
  BY <1>3, BankInvStep DEF FinanceInv
<1>5. Grows
  BY <1>1 DEF Grows, PostedInvoices
<1> HIDE DEF o, i
<1>6. ClaimsOK'
  <2>1. \A c \in claims : UseOK(c)'
    BY <1>5, UseStays DEF FinanceInv, ClaimsOK
  <2>2. UseOK(o)' /\ UseOK(i)'
    BY <1>1, <1>2 DEF UseOK, BankUse
  <2>3. \A c \in claims : c.key # outKey /\ c.key # incKey
    BY <1>1 DEF ClaimKeys
  <2>4. \A c, d \in claims' : c.key = d.key => c = d
    BY <1>1, <1>2, <2>3 DEF FinanceInv, ClaimsOK
  <2>5. QED
    BY <1>1, <2>1, <2>2, <2>4 DEF ClaimsOK
<1>7. KeysOK'
  <2> DEFINE new == {outKey, incKey}
  <2>1. Keys' \subseteq Keys \cup new
    BY <1>1 DEF Keys, Lines
  <2>2. \A key \in new : KeyOK(key)'
    BY <1>1, <1>2 DEF KeyOK, ClaimKeys
  <2> HIDE DEF new
  <2>3. QED
    BY <1>5, <2>1, <2>2, KeysStay DEF FinanceInv
<1>8. /\ \A origin : {c \in claims' : c.kind = "customer_refund" /\ c.doc = origin}
                       = {c \in claims : c.kind = "customer_refund" /\ c.doc = origin}
      /\ \A x : {c \in claims' : c.doc = <<"receipt", x>>} = {c \in claims : c.doc = <<"receipt", x>>}
      /\ \A x : {c \in claims' : c.doc = <<"obligation", x>>}
                  = {c \in claims : c.doc = <<"obligation", x>>}
      /\ Advances' = Advances
      /\ \A b : PaymentsOf(b)' = PaymentsOf(b) /\ SettlementsOf(b)' = SettlementsOf(b)
  BY <1>1, <1>2 DEF Advances, PaymentsOf, SettlementsOf
<1>9. SalesLimitsOK'
  <2>1. \A v : Paid(v)' = Paid(v)
    BY <1>1, <1>8 DEF Paid
  <2>2. /\ \A adv : AdvanceRemaining(adv)' = AdvanceRemaining(adv)
        /\ \A x : RefundRemaining(x)' = RefundRemaining(x)
    BY <1>1, <1>8 DEF AdvanceRemaining, RefundRemaining, RefundedFrom
  <2>3. \A c \in claims' : \A x : c.doc = <<"receipt", x>> => c \in claims
    BY <1>8
  <2>4. QED
    BY <1>1, <1>8, <2>1, <2>2, <2>3 DEF FinanceInv, SalesLimitsOK
<1>10. PurchaseLimitsOK'
  <2>1. PurchaseLimitsOK
    BY DEF FinanceInv
  <2>2. QED
    BY <1>1, <1>8, <2>1 DEF PurchaseLimitsOK, PaidOnce, ReleasedFrom, RemittedFor
<1>11. /\ InvoicesOK' /\ DeliveriesOK' /\ CancellationsOK' /\ ApplicationsOK' /\ BillsOK'
  <2>1. InvoicesOK' /\ DeliveriesOK' /\ CancellationsOK'
    BY <1>1 DEF FinanceInv, InvoicesOK, DeliveriesOK, DeliveryOK, CancellationsOK, CancellationOK
  <2>2. ApplicationsOK'
    BY <1>1, <1>5, ApplicationStays DEF FinanceInv, ApplicationsOK
  <2>3. BillsOK'
    BY <1>1, <1>5, BillRowsStay DEF FinanceInv, BillsOK
  <2>4. QED
    BY <2>1, <2>2, <2>3
<1>12. \A x, d : Balance(x, d)' = Balance(x, d)
                   + Shift("BANK_TRANSFER", "BANK", amount, out.date, x, d)
                   + Shift("BANK", "BANK_TRANSFER", amount, inc.date, x, d)
                 /\ Balance(x, d) \in Int
  <2> SUFFICES ASSUME NEW x, NEW d
               PROVE  Balance(x, d)' = Balance(x, d)
                        + Shift("BANK_TRANSFER", "BANK", amount, out.date, x, d)
                        + Shift("BANK", "BANK_TRANSFER", amount, inc.date, x, d)
                      /\ Balance(x, d) \in Int
    OBVIOUS
  <2> DEFINE e == Dr("BANK_TRANSFER", amount)
             f == Cr("BANK", amount)
             g == Dr("BANK", amount)
             h == Cr("BANK_TRANSFER", amount)
             first == journal \cup Lines(outKey, out.date, {e, f})
             second == first \cup Lines(incKey, inc.date, {g, h})
  <2>1. /\ EntryOK(e) /\ EntryOK(f) /\ EntryOK(g) /\ EntryOK(h)
        /\ e.account = "BANK_TRANSFER" /\ e.side = "debit" /\ e.amount = amount
        /\ f.account = "BANK" /\ f.side = "credit" /\ f.amount = amount
        /\ g.account = "BANK" /\ g.side = "debit" /\ g.amount = amount
        /\ h.account = "BANK_TRANSFER" /\ h.side = "credit" /\ h.amount = amount
    BY <1>2 DEF EntryOK, Dr, Cr, Accounts
  <2>2. outKey \notin Keys /\ incKey \notin Keys
    BY <1>1, <1>2, KeyIsNew DEF FinanceInv
  <2>3. /\ IsFiniteSet(journal)
        /\ \A l \in journal : l.amount \in Nat /\ l.key # outKey
        /\ \A l \in journal : l.key # incKey
    BY <2>2 DEF FinanceInv, BankInv, LedgerInv, LineOK, Keys
  <2>4. \A l \in Lines(outKey, out.date, {e, f}) : l.key = outKey
    BY DEF Lines
  <2>5. journal' = second
    BY <1>1
  <2> HIDE DEF e, f, g, h, outKey, incKey
  <2>6. /\ BalanceIn(first, x, d) = BalanceIn(journal, x, d) + Effect(e, out.date, x, d)
                                      + Effect(f, out.date, x, d)
        /\ BalanceIn(journal, x, d) \in Int
        /\ IsFiniteSet(first)
        /\ \A l \in Lines(outKey, out.date, {e, f}) : l.amount \in Nat
    <3>1. /\ EntryOK(e) /\ EntryOK(f) /\ e.side # f.side /\ out.date \in Nat
          /\ IsFiniteSet(journal) /\ \A l \in journal : l.amount \in Nat /\ l.key # outKey
      BY <1>2, <2>1, <2>3
    <3>2. \A a, t : /\ BalanceIn(journal, a, t) \in Int
                    /\ BalanceIn(journal \cup Lines(outKey, out.date, {e, f}), a, t)
                         = BalanceIn(journal, a, t) + Effect(e, out.date, a, t)
                             + Effect(f, out.date, a, t)
      BY <3>1, TwoLinesIn
    <3>3. /\ IsFiniteSet(journal \cup Lines(outKey, out.date, {e, f}))
          /\ \A l \in Lines(outKey, out.date, {e, f}) : l.amount \in Nat
      BY <3>1, TwoLinesIn
    <3>4. QED
      BY <3>2, <3>3
  <2>7. \A l \in first : l.amount \in Nat /\ l.key # incKey
    BY <1>1, <2>3, <2>4, <2>6
  <2> HIDE DEF first
  <2>8. BalanceIn(second, x, d) = BalanceIn(first, x, d) + Effect(g, inc.date, x, d)
                                    + Effect(h, inc.date, x, d)
    BY <1>2, <2>1, <2>6, <2>7, TwoLinesIn
  <2>9. /\ Balance(x, d) = BalanceIn(journal, x, d)
        /\ Balance(x, d)' = BalanceIn(journal', x, d)
    BY DEF Balance, Side, BalanceIn
  <2>10. /\ Effect(e, out.date, x, d) + Effect(f, out.date, x, d)
              = Shift("BANK_TRANSFER", "BANK", amount, out.date, x, d)
         /\ Effect(g, inc.date, x, d) + Effect(h, inc.date, x, d)
              = Shift("BANK", "BANK_TRANSFER", amount, inc.date, x, d)
         /\ Effect(e, out.date, x, d) \in Int /\ Effect(f, out.date, x, d) \in Int
         /\ Effect(g, inc.date, x, d) \in Int /\ Effect(h, inc.date, x, d) \in Int
    BY <1>2, <2>1 DEF Effect, Shift
  <2>11. QED
    BY <2>5, <2>6, <2>8, <2>9, <2>10
<1>13. TiesOK'
  <2> SUFFICES ASSUME NEW d \in Days PROVE BankTies(d)' /\ SalesTies(d)' /\ PurchaseTies(d)'
    BY DEF TiesOK, Days
  <2>1. BankTies(d) /\ SalesTies(d) /\ PurchaseTies(d)
    BY DEF FinanceInv, TiesOK
  <2>2. /\ OpeningsSame(d) /\ OrdersSame(d) /\ BillsSame(d)
    BY <1>1, SameSums
  <2>3. SettledSame(d)
    BY <1>1, <1>8 DEF SettledSame, SettledGross, SettledTax
  <2>4. /\ \A k : k # "transfer_out" /\ k # "transfer_in" => ClaimsOf(k, d)' = ClaimsOf(k, d)
        /\ \A z : z # "transfer" => RefundsOf(z, d)' = RefundsOf(z, d)
    <3>1. \A k : k # "transfer_out" /\ k # "transfer_in" =>
            {c \in claims' : c.kind = k /\ c.line.date <= d}
              = {c \in claims : c.kind = k /\ c.line.date <= d}
      BY <1>1, <1>2
    <3>2. \A z : {c \in claims' : c.kind = "customer_refund" /\ c.doc[1] = z /\ c.line.date <= d}
              = {c \in claims : c.kind = "customer_refund" /\ c.doc[1] = z /\ c.line.date <= d}
      BY <1>1, <1>2
    <3>3. QED
      BY <3>1, <3>2 DEF ClaimsOf, RefundsOf
  <2>5. ASSUME NEW old, NEW new, NEW c, old \in SUBSET claims, new = old \/ new = old \cup {c},
               c = o \/ c = i
        PROVE  Total(new) = Total(old) + (IF c \in new THEN c.amount ELSE 0)
    <3>1. IsFiniteSet(old) /\ \A x \in old : x.amount \in Nat
      BY <2>5, FS_Subset DEF FinanceInv, BankInv, ClaimOK
    <3>2. c \notin old /\ c.amount \in Nat
      BY <1>1, <1>2, <2>5 DEF ClaimKeys
    <3>3. QED
      BY <2>5, <3>1, <3>2, TotalOfMore
  <2>6. /\ ClaimsOf("transfer_out", d)' = ClaimsOf("transfer_out", d)
             + (IF out.date <= d THEN amount ELSE 0)
        /\ ClaimedLines("out", d)' = ClaimedLines("out", d) + (IF out.date <= d THEN amount ELSE 0)
    <3> DEFINE old == {c \in claims : c.kind = "transfer_out" /\ c.line.date <= d}
               new == {c \in claims' : c.kind = "transfer_out" /\ c.line.date <= d}
               old2 == {c \in claims : c.line.direction = "out" /\ c.line.date <= d}
               new2 == {c \in claims' : c.line.direction = "out" /\ c.line.date <= d}
    <3>1. /\ old \in SUBSET claims /\ (new = old \/ new = old \cup {o})
          /\ o \in new <=> out.date <= d
          /\ old2 \in SUBSET claims /\ (new2 = old2 \/ new2 = old2 \cup {o})
          /\ o \in new2 <=> out.date <= d
      BY <1>1, <1>2
    <3>2. /\ ClaimsOf("transfer_out", d) = Total(old) /\ ClaimsOf("transfer_out", d)' = Total(new)
          /\ ClaimedLines("out", d) = Total(old2) /\ ClaimedLines("out", d)' = Total(new2)
      BY DEF ClaimsOf, ClaimedLines
    <3> HIDE DEF old, new, old2, new2
    <3>3. Total(new) = Total(old) + (IF o \in new THEN o.amount ELSE 0)
      BY <2>5, <3>1
    <3>4. Total(new2) = Total(old2) + (IF o \in new2 THEN o.amount ELSE 0)
      BY <2>5, <3>1
    <3>5. QED
      BY <1>2, <3>1, <3>2, <3>3, <3>4
  <2>7. /\ ClaimsOf("transfer_in", d)' = ClaimsOf("transfer_in", d)
             + (IF inc.date <= d THEN amount ELSE 0)
        /\ ClaimedLines("in", d)' = ClaimedLines("in", d) + (IF inc.date <= d THEN amount ELSE 0)
    <3> DEFINE old == {c \in claims : c.kind = "transfer_in" /\ c.line.date <= d}
               new == {c \in claims' : c.kind = "transfer_in" /\ c.line.date <= d}
               old2 == {c \in claims : c.line.direction = "in" /\ c.line.date <= d}
               new2 == {c \in claims' : c.line.direction = "in" /\ c.line.date <= d}
    <3>1. /\ old \in SUBSET claims /\ (new = old \/ new = old \cup {i})
          /\ i \in new <=> inc.date <= d
          /\ old2 \in SUBSET claims /\ (new2 = old2 \/ new2 = old2 \cup {i})
          /\ i \in new2 <=> inc.date <= d
      BY <1>1, <1>2
    <3>2. /\ ClaimsOf("transfer_in", d) = Total(old) /\ ClaimsOf("transfer_in", d)' = Total(new)
          /\ ClaimedLines("in", d) = Total(old2) /\ ClaimedLines("in", d)' = Total(new2)
      BY DEF ClaimsOf, ClaimedLines
    <3> HIDE DEF old, new, old2, new2
    <3>3. Total(new) = Total(old) + (IF i \in new THEN i.amount ELSE 0)
      BY <2>5, <3>1
    <3>4. Total(new2) = Total(old2) + (IF i \in new2 THEN i.amount ELSE 0)
      BY <2>5, <3>1
    <3>5. QED
      BY <1>2, <3>1, <3>2, <3>3, <3>4
  <2>8. /\ \A k : ClaimsOf(k, d) \in Nat
        /\ \A x : ClaimedLines(x, d) \in Nat
        /\ \A x : Opened(x, d) \in Nat
    BY ClaimSumTypes, SumTypes
  <2>9. BankTies(d)'
    <3>1. /\ Balance("BANK", d)' = Balance("BANK", d) - (IF out.date <= d THEN amount ELSE 0)
                                    + (IF inc.date <= d THEN amount ELSE 0)
          /\ Balance("BANK_TRANSFER", d)'
               = Balance("BANK_TRANSFER", d) + (IF out.date <= d THEN amount ELSE 0)
                                             - (IF inc.date <= d THEN amount ELSE 0)
          /\ Balance("EQUITY", d)' = Balance("EQUITY", d)
      <4>1. /\ Shift("BANK_TRANSFER", "BANK", amount, out.date, "BANK", d)
                  = 0 - (IF out.date <= d THEN amount ELSE 0)
            /\ Shift("BANK", "BANK_TRANSFER", amount, inc.date, "BANK", d)
                  = (IF inc.date <= d THEN amount ELSE 0)
        BY <1>2 DEF Shift
      <4>2. /\ Shift("BANK_TRANSFER", "BANK", amount, out.date, "BANK_TRANSFER", d)
                  = (IF out.date <= d THEN amount ELSE 0)
            /\ Shift("BANK", "BANK_TRANSFER", amount, inc.date, "BANK_TRANSFER", d)
                  = 0 - (IF inc.date <= d THEN amount ELSE 0)
        BY <1>2 DEF Shift
      <4>3. /\ Shift("BANK_TRANSFER", "BANK", amount, out.date, "EQUITY", d) = 0
            /\ Shift("BANK", "BANK_TRANSFER", amount, inc.date, "EQUITY", d) = 0
        BY <1>2 DEF Shift
      <4>4. amount \in Int
        BY <1>2
      <4> QED
        BY <1>12, <4>1, <4>2, <4>3, <4>4
    <3>2. QED
      BY <1>2, <2>1, <2>2, <2>4, <2>6, <2>7, <2>8, <3>1 DEF BankTies, OpeningsSame
  <2>10. SalesTies(d)'
    BY <1>12, <2>1, <2>2, <2>4 DEF SalesTies, Shift, OrdersSame
  <2>11. PurchaseTies(d)'
    BY <1>12, <2>1, <2>2, <2>3, <2>4 DEF PurchaseTies, Shift, BillsSame, SettledSame
  <2>12. QED
    BY <2>9, <2>10, <2>11
<1>14. IsFiniteSet(openings)'
  BY <1>1 DEF FinanceInv
<1>15. QED
  BY <1>3, <1>4, <1>6, <1>7, <1>9, <1>10, <1>11, <1>13, <1>14 DEF FinanceInv

-----------------------------------------------------------------------------
(* The services on sales documents. *)

\* Nothing refers to an order that was not issued.
LEMMA NotYetIssued ==
  ASSUME FinanceInv, NEW i \in Invoices, status[i] \in {"none", "draft"}
  PROVE  /\ \A c \in claims : c.doc # <<"receipt", i>>
         /\ \A a \in applications : a.invoice # i
         /\ \A x \in deliveries \cup cancellations : x.invoice # i
         /\ \A v \in PostedInvoices : v.id # i
<1>1. \A v \in PostedInvoices : v.id # i
  BY DEF PostedInvoices
<1>2. \A a \in applications : a.invoice # i
  BY <1>1 DEF FinanceInv, ApplicationsOK, ApplicationOK
<1>3. \A x \in deliveries \cup cancellations : x.invoice # i
  BY DEF FinanceInv, DeliveriesOK, DeliveryOK, CancellationsOK, CancellationOK
<1>4. ASSUME NEW c \in claims, c.doc = <<"receipt", i>> PROVE FALSE
  <2>1. c.doc[1] = "receipt" /\ c.doc[2] = i
    BY <1>4
  <2>2. UseOK(c)
    BY DEF FinanceInv, ClaimsOK
  <2>3. PICK v \in PostedInvoices : c.doc = <<"receipt", v.id>>
    BY <2>1, <2>2 DEF UseOK, SalesUse, PurchaseUse, BankUse
  <2>4. v.id = i
    BY <2>1, <2>3
  <2>5. QED
    BY <1>1, <2>4
<1>5. QED
  BY <1>1, <1>2, <1>3, <1>4

\* A draft order is in no sum of the ledger,
LEMMA CreateInvoiceKeeps ==
  ASSUME FinanceInv, NEW v \in Invoice, CreateInvoice(v), UNCHANGED billVars
  PROVE  BankBookStep /\ FinanceInv'
<1>1. /\ status[v.id] = "none" /\ invoices' = invoices \cup {v}
      /\ status' = [status EXCEPT ![v.id] = "draft"]
      /\ UNCHANGED <<today, journal, closings, bank, claims, openings, deliveries, cancellations,
                     applications, bills, approved, decisions, releases>>
  BY DEF CreateInvoice, DraftCreated, ledgerVars, bankVars, billVars
<1>2. v.id \in Invoices /\ v.amount \in Nat \ {0}
  BY DEF Invoice
<1>3. /\ \A w \in invoices : w.id # v.id /\ w.id \in Invoices
      /\ status \in [Invoices -> Statuses]
  BY <1>1, <1>2 DEF FinanceInv, InvoicesOK, Invoice
<1>4. /\ \A i \in Invoices : i # v.id => status'[i] = status[i]
      /\ status'[v.id] = "draft" /\ status' \in [Invoices -> Statuses]
  BY <1>1, <1>2, <1>3 DEF Statuses
<1>5. PostedInvoices' = PostedInvoices
  BY <1>1, <1>3, <1>4 DEF PostedInvoices
<1>6. Grows
  BY <1>1, <1>4, <1>5 DEF Grows
<1>7. BankBookStep /\ BankInv'
  <2>1. BankBookStep
    BY <1>1, QuietIsStep, NoClaimStep
       DEF BankBookStep, LedgerStep, RowsStep, FinanceInv, BankInv, LedgerInv
  <2>2. QED
    BY <2>1, BankInvStep DEF FinanceInv
<1>8. InvoicesOK'
  <2>1. IsFiniteSet(invoices')
    BY <1>1, FS_AddElement DEF FinanceInv, InvoicesOK
  <2>2. \A w, u \in invoices' : w.id = u.id => w = u
    BY <1>1, <1>3 DEF FinanceInv, InvoicesOK
  <2>3. \A i \in Invoices : status'[i] # "none" <=> \E w \in invoices' : w.id = i
    BY <1>1, <1>2, <1>4 DEF FinanceInv, InvoicesOK
  <2>4. QED
    BY <1>1, <1>4, <2>1, <2>2, <2>3 DEF FinanceInv, InvoicesOK
<1>9. DeliveriesOK' /\ CancellationsOK'
  BY <1>1, <1>2, <1>4, NotYetIssued
     DEF FinanceInv, DeliveriesOK, DeliveryOK, CancellationsOK, CancellationOK
<1>10. ClaimsOK' /\ ApplicationsOK' /\ BillsOK' /\ PurchaseLimitsOK' /\ KeysOK'
  BY <1>1, <1>6, GrowthKeeps, SameKeys
<1>11. TiesOK'
  <2> SUFFICES ASSUME NEW d \in Days PROVE BankTies(d)' /\ SalesTies(d)' /\ PurchaseTies(d)'
    BY DEF TiesOK, Days
  <2>1. OpeningsSame(d) /\ ClaimsSame(d) /\ BillsSame(d) /\ SettledSame(d)
    BY <1>1, SameSums
  <2>2. OrdersSame(d)
    BY <1>1, <1>5 DEF OrdersSame, Invoiced, Delivered, Reversed, NeverPaid, Refundable, Applied
  <2>3. QED
    BY <1>1, <2>1, <2>2, SameTies
<1>12. SalesLimitsOK'
  <2>1. /\ \A w : Paid(w)' = Paid(w) /\ \A adv : AdvanceRemaining(adv)' = AdvanceRemaining(adv)
        /\ \A x : RefundRemaining(x)' = RefundRemaining(x)
        /\ Advances' = Advances
    BY <1>1 DEF Paid, Advances, AdvanceRemaining, RefundRemaining, RefundedFrom
  <2>2. Paid(v) = 0
    <3>1. /\ {c \in claims : c.doc = <<"receipt", v.id>>} = {}
          /\ {a \in applications : a.invoice = v.id} = {}
      BY <1>1, <1>2, NotYetIssued
    <3>2. /\ Total({c \in claims : c.doc = <<"receipt", v.id>>}) = 0
          /\ Total({a \in applications : a.invoice = v.id}) = 0
      BY <3>1, TotalEmpty
    <3>3. QED
      BY <3>2 DEF Paid
  <2>3. \A x \in cancellations : x.invoice # v.id
    BY <1>1, <1>2, NotYetIssued
  <2>4. QED
    BY <1>1, <1>2, <2>1, <2>2, <2>3 DEF FinanceInv, SalesLimitsOK
<1>13. IsFiniteSet(openings)'
  BY <1>1 DEF FinanceInv
<1>14. QED
  BY <1>7, <1>8, <1>9, <1>10, <1>11, <1>12, <1>13 DEF FinanceInv

\* nor is one that is cancelled before it was issued.
LEMMA CancelDraftKeeps ==
  ASSUME FinanceInv, NEW v \in invoices, NEW date, CancelDraft(v, date), UNCHANGED billVars
  PROVE  BankBookStep /\ FinanceInv'
<1>1. /\ status[v.id] = "draft" /\ status' = [status EXCEPT ![v.id] = "cancelled"]
      /\ UNCHANGED <<today, journal, closings, bank, claims, openings, invoices, deliveries,
                     cancellations, applications, bills, approved, decisions, releases>>
  BY DEF CancelDraft, ledgerVars, bankVars, billVars
<1>2. v.id \in Invoices /\ status \in [Invoices -> Statuses]
      /\ \A w \in invoices : w.id \in Invoices
  BY DEF FinanceInv, InvoicesOK, Invoice
<1>3. /\ \A i \in Invoices : i # v.id => status'[i] = status[i]
      /\ status'[v.id] = "cancelled" /\ status' \in [Invoices -> Statuses]
  BY <1>1, <1>2 DEF Statuses
<1>4. \A x \in deliveries \cup cancellations : x.invoice # v.id
  BY <1>1, <1>2, NotYetIssued
<1>5. PostedInvoices' = PostedInvoices
  BY <1>1, <1>2, <1>3, <1>4 DEF PostedInvoices
<1>6. Grows
  BY <1>1, <1>3, <1>5 DEF Grows
<1>7. BankBookStep /\ BankInv'
  <2>1. BankBookStep
    BY <1>1, QuietIsStep, NoClaimStep
       DEF BankBookStep, LedgerStep, RowsStep, FinanceInv, BankInv, LedgerInv
  <2>2. QED
    BY <2>1, BankInvStep DEF FinanceInv
<1>8. InvoicesOK'
  BY <1>1, <1>3 DEF FinanceInv, InvoicesOK
<1>9. DeliveriesOK' /\ CancellationsOK'
  BY <1>1, <1>3, <1>4
     DEF FinanceInv, DeliveriesOK, DeliveryOK, CancellationsOK, CancellationOK
<1>10. ClaimsOK' /\ ApplicationsOK' /\ BillsOK' /\ SalesLimitsOK' /\ PurchaseLimitsOK' /\ KeysOK'
  BY <1>1, <1>6, GrowthKeeps, SameKeys
<1>11. TiesOK'
  <2> SUFFICES ASSUME NEW d \in Days PROVE BankTies(d)' /\ SalesTies(d)' /\ PurchaseTies(d)'
    BY DEF TiesOK, Days
  <2>1. OpeningsSame(d) /\ ClaimsSame(d) /\ BillsSame(d) /\ SettledSame(d)
    BY <1>1, SameSums
  <2>2. OrdersSame(d)
    BY <1>1, <1>5 DEF OrdersSame, Invoiced, Delivered, Reversed, NeverPaid, Refundable, Applied
  <2>3. QED
    BY <1>1, <2>1, <2>2, SameTies
<1>12. IsFiniteSet(openings)'
  BY <1>1 DEF FinanceInv
<1>13. QED
  BY <1>7, <1>8, <1>9, <1>10, <1>11, <1>12 DEF FinanceInv

\* An issued order becomes receivable and deferred.
LEMMA IssueKeeps ==
  ASSUME FinanceInv, NEW v \in invoices, IssueInvoice(v), UNCHANGED billVars
  PROVE  BankBookStep /\ FinanceInv'
<1> DEFINE key == <<"invoice", v.id, "issue">>
<1>1. /\ status[v.id] = "draft" /\ status' = [status EXCEPT ![v.id] = "issued"]
      /\ Post(key, v.date, {Dr("AR", v.amount), Cr("DEFERRED_REVENUE", v.amount)})
      /\ UNCHANGED <<today, closings, bank, claims, openings, invoices, deliveries, cancellations,
                     applications, bills, approved, decisions, releases>>
  BY DEF IssueInvoice, bankVars, billVars
<1>2. /\ v.id \in Invoices /\ status \in [Invoices -> Statuses] /\ v.date \in Days
      /\ v.amount \in Nat \ {0}
      /\ \A w \in invoices : w.id \in Invoices /\ (w.id = v.id => w = v)
  BY DEF FinanceInv, InvoicesOK, Invoice
<1>3. /\ \A i \in Invoices : i # v.id => status'[i] = status[i]
      /\ status'[v.id] = "issued" /\ status' \in [Invoices -> Statuses]
  BY <1>1, <1>2 DEF Statuses
<1>4. /\ \A x \in deliveries \cup cancellations : x.invoice # v.id
      /\ v \notin PostedInvoices
  BY <1>1, <1>2, NotYetIssued
<1>5. PostedInvoices' = PostedInvoices \cup {v}
  BY <1>1, <1>2, <1>3, <1>4 DEF PostedInvoices
<1>6. Grows
  BY <1>1, <1>3, <1>5 DEF Grows
<1>7. /\ BankBookStep /\ BankInv' /\ KeysOK'
      /\ \A x, d : Balance(x, d)'
           = Balance(x, d) + Shift("AR", "DEFERRED_REVENUE", v.amount, v.date, x, d)
      /\ \A x, d : Balance(x, d) \in Int
  <2>1. ~KeyOK(key)
    BY <1>1 DEF KeyOK, ClaimKeys, FinanceInv, ClaimsOK, UseOK
  <2>2. KeyOK(key)'
    BY <1>2, <1>3 DEF KeyOK
  <2>3. RowsStep
    BY <1>1 DEF RowsStep, FinanceInv, BankInv
  <2>4. "AR" \in Accounts /\ "DEFERRED_REVENUE" \in Accounts
    BY DEF Accounts
  <2> HIDE DEF key
  <2>5. QED
    BY <1>1, <1>2, <1>6, <2>1, <2>2, <2>3, <2>4, DocumentPosts
<1>8. InvoicesOK'
  BY <1>1, <1>3 DEF FinanceInv, InvoicesOK
<1>9. DeliveriesOK' /\ CancellationsOK'
  BY <1>1, <1>3, <1>4
     DEF FinanceInv, DeliveriesOK, DeliveryOK, CancellationsOK, CancellationOK
<1>10. ClaimsOK' /\ ApplicationsOK' /\ BillsOK' /\ SalesLimitsOK' /\ PurchaseLimitsOK'
  BY <1>1, <1>6, GrowthKeeps
<1>11. TiesOK'
  <2> SUFFICES ASSUME NEW d \in Days PROVE BankTies(d)' /\ SalesTies(d)' /\ PurchaseTies(d)'
    BY DEF TiesOK, Days
  <2>1. BankTies(d) /\ SalesTies(d) /\ PurchaseTies(d)
    BY DEF FinanceInv, TiesOK
  <2>2. OpeningsSame(d) /\ ClaimsSame(d) /\ BillsSame(d) /\ SettledSame(d)
    BY <1>1, SameSums
  <2>3. /\ Delivered(d)' = Delivered(d) /\ Reversed(d)' = Reversed(d)
        /\ NeverPaid(d)' = NeverPaid(d) /\ Refundable(d)' = Refundable(d)
        /\ Applied(d)' = Applied(d)
    BY <1>1 DEF Delivered, Reversed, NeverPaid, Refundable, Applied
  <2>4. Invoiced(d)' = Invoiced(d) + (IF v.date <= d THEN v.amount ELSE 0)
    <3>1. IsFiniteSet(PostedInvoices) /\ \A w \in PostedInvoices : w.amount \in Nat
      BY FS_Subset DEF PostedInvoices, FinanceInv, InvoicesOK, Invoice
    <3>2. Total(Upto(PostedInvoices \cup {v}, d))
            = Total(Upto(PostedInvoices, d)) + (IF v.date <= d THEN v.amount ELSE 0)
      BY <1>2, <1>4, <3>1, UptoAdded
    <3>3. QED
      BY <1>5, <3>2 DEF Invoiced
  <2>5. /\ Invoiced(d) \in Nat /\ Delivered(d) \in Nat /\ Reversed(d) \in Nat
        /\ NeverPaid(d) \in Nat /\ Applied(d) \in Nat /\ ClaimsOf("receipt", d) \in Nat
    BY SumTypes, ClaimSumTypes
  <2>6. BankTies(d)'
    BY <1>7, <2>1, <2>2 DEF BankTies, Shift, OpeningsSame, ClaimsSame
  <2>7. SalesTies(d)'
    BY <1>2, <1>7, <2>1, <2>2, <2>3, <2>4, <2>5 DEF SalesTies, Shift, ClaimsSame
  <2>8. PurchaseTies(d)'
    BY <1>7, <2>1, <2>2 DEF PurchaseTies, Shift, ClaimsSame, BillsSame, SettledSame
  <2>9. QED
    BY <2>6, <2>7, <2>8
<1>12. IsFiniteSet(openings)'
  BY <1>1 DEF FinanceInv
<1>13. QED
  BY <1>7, <1>8, <1>9, <1>10, <1>11, <1>12 DEF FinanceInv

\* A delivery turns the deferred order into revenue.
LEMMA DeliveryKeeps ==
  ASSUME FinanceInv, NEW v \in invoices, NEW date \in Days, RecordDelivery(v, date),
         UNCHANGED billVars
  PROVE  BankBookStep /\ FinanceInv'
<1> DEFINE key == <<"invoice", v.id, "delivery">>
           row == [invoice |-> v.id, date |-> date, amount |-> v.amount]
<1>1. /\ status[v.id] = "issued" /\ status' = [status EXCEPT ![v.id] = "delivered"]
      /\ Post(key, date, {Dr("DEFERRED_REVENUE", v.amount), Cr("REVENUE", v.amount)})
      /\ deliveries' = deliveries \cup {row}
      /\ UNCHANGED <<today, closings, bank, claims, openings, invoices, cancellations,
                     applications, bills, approved, decisions, releases>>
  BY DEF RecordDelivery, DeliveryPosted, bankVars, billVars
<1>2. /\ v.id \in Invoices /\ status \in [Invoices -> Statuses] /\ v.date <= date
      /\ v.amount \in Nat \ {0}
      /\ \A w \in invoices : w.id \in Invoices
  BY LedgerAssumption DEF FinanceInv, InvoicesOK, Invoice, RecordDelivery, Days
<1>3. /\ \A i \in Invoices : i # v.id => status'[i] = status[i]
      /\ status'[v.id] = "delivered" /\ status' \in [Invoices -> Statuses]
  BY <1>1, <1>2 DEF Statuses
<1>4. \A x \in deliveries \cup cancellations : x.invoice # v.id
  BY <1>1 DEF FinanceInv, DeliveriesOK, DeliveryOK, CancellationsOK, CancellationOK
<1>5. PostedInvoices' = PostedInvoices
  BY <1>1, <1>2, <1>3, <1>4 DEF PostedInvoices
<1>6. Grows
  BY <1>1, <1>3, <1>5 DEF Grows
<1>7. /\ BankBookStep /\ BankInv' /\ KeysOK'
      /\ \A x, d : Balance(x, d)'
           = Balance(x, d) + Shift("DEFERRED_REVENUE", "REVENUE", v.amount, date, x, d)
      /\ \A x, d : Balance(x, d) \in Int
  <2>1. ~KeyOK(key)
    BY <1>4 DEF KeyOK, ClaimKeys, FinanceInv, ClaimsOK, UseOK
  <2>2. KeyOK(key)'
    <3>1. row \in deliveries' /\ key = <<"invoice", row.invoice, "delivery">>
      BY <1>1
    <3>2. QED
      BY <3>1 DEF KeyOK
  <2>3. RowsStep
    BY <1>1 DEF RowsStep, FinanceInv, BankInv
  <2>4. "REVENUE" \in Accounts /\ "DEFERRED_REVENUE" \in Accounts
    BY DEF Accounts
  <2> HIDE DEF key
  <2>5. QED
    BY <1>1, <1>2, <1>6, <2>1, <2>2, <2>3, <2>4, DocumentPosts
<1>8. InvoicesOK'
  BY <1>1, <1>3 DEF FinanceInv, InvoicesOK
<1>9. CancellationsOK'
  BY <1>1, <1>3, <1>4 DEF FinanceInv, CancellationsOK, CancellationOK
<1>10. DeliveriesOK'
  <2>1. IsFiniteSet(deliveries')
    BY <1>1, FS_AddElement DEF FinanceInv, DeliveriesOK
  <2>2. DeliveryOK(row)'
    BY <1>1, <1>2, <1>3 DEF DeliveryOK
  <2>3. \A x \in deliveries : DeliveryOK(x)'
    BY <1>1, <1>3, <1>4 DEF FinanceInv, DeliveriesOK, DeliveryOK
  <2>4. \A x, y \in deliveries' : x.invoice = y.invoice => x = y
    BY <1>1, <1>4 DEF FinanceInv, DeliveriesOK
  <2>5. QED
    BY <1>1, <2>1, <2>2, <2>3, <2>4 DEF DeliveriesOK
<1>11. ClaimsOK' /\ ApplicationsOK' /\ BillsOK' /\ SalesLimitsOK' /\ PurchaseLimitsOK'
  BY <1>1, <1>6, GrowthKeeps
<1>12. TiesOK'
  <2> SUFFICES ASSUME NEW d \in Days PROVE BankTies(d)' /\ SalesTies(d)' /\ PurchaseTies(d)'
    BY DEF TiesOK, Days
  <2>1. BankTies(d) /\ SalesTies(d) /\ PurchaseTies(d)
    BY DEF FinanceInv, TiesOK
  <2>2. OpeningsSame(d) /\ ClaimsSame(d) /\ BillsSame(d) /\ SettledSame(d)
    BY <1>1, SameSums
  <2>3. /\ Invoiced(d)' = Invoiced(d) /\ Reversed(d)' = Reversed(d)
        /\ NeverPaid(d)' = NeverPaid(d) /\ Refundable(d)' = Refundable(d)
        /\ Applied(d)' = Applied(d)
    BY <1>1, <1>5 DEF Invoiced, Reversed, NeverPaid, Refundable, Applied
  <2>4. Delivered(d)' = Delivered(d) + (IF date <= d THEN v.amount ELSE 0)
    <3>1. IsFiniteSet(deliveries) /\ \A x \in deliveries : x.amount \in Nat
      BY DEF FinanceInv, DeliveriesOK, DeliveryOK
    <3>2. row \notin deliveries /\ row.amount = v.amount /\ row.date = date
      BY <1>4
    <3> HIDE DEF row
    <3>3. Total(Upto(deliveries \cup {row}, d))
            = Total(Upto(deliveries, d)) + (IF date <= d THEN v.amount ELSE 0)
      BY <1>2, <3>1, <3>2, UptoAdded
    <3>4. QED
      BY <1>1, <3>3 DEF Delivered
  <2>5. /\ Invoiced(d) \in Nat /\ Delivered(d) \in Nat /\ Reversed(d) \in Nat
    BY SumTypes
  <2>6. BankTies(d)'
    BY <1>7, <2>1, <2>2 DEF BankTies, Shift, OpeningsSame, ClaimsSame
  <2>7. SalesTies(d)'
    BY <1>2, <1>7, <2>1, <2>2, <2>3, <2>4, <2>5 DEF SalesTies, Shift, ClaimsSame
  <2>8. PurchaseTies(d)'
    BY <1>7, <2>1, <2>2 DEF PurchaseTies, Shift, ClaimsSame, BillsSame, SettledSame
  <2>9. QED
    BY <2>6, <2>7, <2>8
<1>13. IsFiniteSet(openings)'
  BY <1>1 DEF FinanceInv
<1>14. QED
  BY <1>7, <1>8, <1>9, <1>10, <1>11, <1>12, <1>13 DEF FinanceInv

\* An applied advance settles part of an order without a bank line.
LEMMA ApplyAdvanceKeeps ==
  ASSUME FinanceInv, NEW adv \in Advances, NEW v \in invoices, NEW date \in Days,
         NEW amount \in Amounts, NEW reference \in Applications,
         ApplyCustomerAdvance(adv, v, date, amount, reference), UNCHANGED billVars
  PROVE  BankBookStep /\ FinanceInv'
<1> DEFINE key == <<"advance-apply", reference>>
           row == [reference |-> reference, advance |-> adv.key, invoice |-> v.id,
                   date |-> date, amount |-> amount]
<1>1. /\ status[v.id] \in {"issued", "delivered"} /\ adv.doc = <<"party", v.party>>
      /\ \A a \in applications : a.reference # reference
      /\ amount <= AdvanceRemaining(adv) /\ amount <= v.amount - Paid(v)
      /\ date >= v.date /\ date >= adv.line.date
      /\ Post(key, date, {Dr("CUSTOMER_ADVANCE", amount), Cr("AR", amount)})
      /\ applications' = applications \cup {row}
      /\ UNCHANGED <<today, closings, bank, claims, openings, invoices, status, deliveries,
                     cancellations, bills, approved, decisions, releases>>
  BY DEF ApplyCustomerAdvance, AdvanceApplied, Outstanding, bankVars, billVars
<1>2. /\ v.date <= date /\ adv.line.date <= date /\ amount \in Nat \ {0}
      /\ v.amount \in Nat /\ \A w \in invoices : w.id = v.id => w = v
      /\ adv \in claims
  <2>1. v.date \in Nat /\ date \in Nat /\ v.amount \in Nat
    BY LedgerAssumption DEF FinanceInv, InvoicesOK, Invoice, Days
  <2>2. adv \in claims /\ adv.line.date \in Nat
    BY LedgerAssumption DEF Advances, FinanceInv, BankInv, BankLine, ClaimOK, Days
  <2>3. QED
    BY <1>1, <2>1, <2>2, BankAssumption DEF FinanceInv, InvoicesOK
<1>3. v \in PostedInvoices /\ PostedInvoices' = PostedInvoices /\ Advances' = Advances
  BY <1>1 DEF PostedInvoices, Advances
<1>4. /\ row.reference = reference /\ row.advance = adv.key /\ row.invoice = v.id
      /\ row.date = date /\ row.amount = amount /\ row \notin applications
      /\ row = [reference |-> row.reference, advance |-> row.advance, invoice |-> row.invoice,
                date |-> row.date, amount |-> row.amount]
  BY <1>1
<1> HIDE DEF row
<1>5. Grows
  BY <1>1, <1>3 DEF Grows
<1>6. /\ BankBookStep /\ BankInv' /\ KeysOK'
      /\ \A x, d : Balance(x, d)'
           = Balance(x, d) + Shift("CUSTOMER_ADVANCE", "AR", amount, date, x, d)
      /\ \A x, d : Balance(x, d) \in Int
  <2>1. ~KeyOK(key)
    BY <1>1 DEF KeyOK, ClaimKeys, FinanceInv, ClaimsOK, UseOK
  <2>2. KeyOK(key)'
    <3>1. row \in applications' /\ key = <<"advance-apply", row.reference>>
      BY <1>1, <1>4
    <3>2. QED
      BY <3>1 DEF KeyOK
  <2>3. RowsStep
    BY <1>1 DEF RowsStep, FinanceInv, BankInv
  <2>4. "AR" \in Accounts /\ "CUSTOMER_ADVANCE" \in Accounts
    BY DEF Accounts
  <2> HIDE DEF key
  <2>5. QED
    BY <1>1, <1>2, <1>5, <2>1, <2>2, <2>3, <2>4, DocumentPosts
<1>7. ApplicationsOK'
  <2>1. IsFiniteSet(applications')
    BY <1>1, FS_AddElement DEF FinanceInv, ApplicationsOK
  <2>2. ApplicationOK(row)'
    BY <1>1, <1>2, <1>3, <1>4 DEF ApplicationOK
  <2>3. \A a \in applications : ApplicationOK(a)'
    BY <1>5, ApplicationStays DEF FinanceInv, ApplicationsOK
  <2>4. QED
    BY <1>1, <2>1, <2>2, <2>3 DEF ApplicationsOK
<1>8. /\ ClaimsOK' /\ InvoicesOK' /\ DeliveriesOK' /\ CancellationsOK' /\ BillsOK'
      /\ PurchaseLimitsOK'
  BY <1>1, <1>5, GrowthKeeps
<1>9. ASSUME NEW old, NEW new, old \in SUBSET applications, new = old \/ new = old \cup {row}
      PROVE  /\ Total(new) = Total(old) + (IF row \in new THEN amount ELSE 0)
             /\ Total(old) \in Nat
  <2>1. IsFiniteSet(old) /\ \A x \in old : x.amount \in Nat
    BY <1>9, FS_Subset DEF FinanceInv, ApplicationsOK, ApplicationOK
  <2>2. row \notin old /\ row.amount \in Nat
    BY <1>2, <1>4, <1>9
  <2>3. Total(new) = Total(old) + (IF row \in new THEN row.amount ELSE 0) /\ Total(old) \in Nat
    BY <1>9, <2>1, <2>2, TotalOfMore
  <2>4. QED
    BY <1>4, <2>3
<1>10. \A i : /\ AppliedTo(i)' = AppliedTo(i) + (IF i = v.id THEN amount ELSE 0)
              /\ AppliedTo(i) \in Nat
  <2> SUFFICES ASSUME NEW i
               PROVE  /\ AppliedTo(i)' = AppliedTo(i) + (IF i = v.id THEN amount ELSE 0)
                      /\ AppliedTo(i) \in Nat
    OBVIOUS
  <2> DEFINE old == {a \in applications : a.invoice = i}
             new == {a \in applications' : a.invoice = i}
  <2>1. /\ old \in SUBSET applications /\ (new = old \/ new = old \cup {row})
        /\ row \in new <=> i = v.id
    BY <1>1, <1>4
  <2>2. AppliedTo(i) = Total(old) /\ AppliedTo(i)' = Total(new)
    BY DEF AppliedTo
  <2> HIDE DEF old, new
  <2>3. QED
    BY <1>9, <2>1, <2>2
<1>11. \A k : /\ AppliedFrom(k)' = AppliedFrom(k) + (IF k = adv.key THEN amount ELSE 0)
              /\ AppliedFrom(k) \in Nat
  <2> SUFFICES ASSUME NEW k
               PROVE  /\ AppliedFrom(k)' = AppliedFrom(k) + (IF k = adv.key THEN amount ELSE 0)
                      /\ AppliedFrom(k) \in Nat
    OBVIOUS
  <2> DEFINE old == {a \in applications : a.advance = k}
             new == {a \in applications' : a.advance = k}
  <2>1. /\ old \in SUBSET applications /\ (new = old \/ new = old \cup {row})
        /\ row \in new <=> k = adv.key
    BY <1>1, <1>4
  <2>2. AppliedFrom(k) = Total(old) /\ AppliedFrom(k)' = Total(new)
    BY DEF AppliedFrom
  <2> HIDE DEF old, new
  <2>3. QED
    BY <1>9, <2>1, <2>2
<1>12. /\ \A doc : AllForDoc(doc) \in Nat /\ AllForDoc(doc)' = AllForDoc(doc)
       /\ \A kind, doc : ForDoc(kind, doc) \in Nat /\ ForDoc(kind, doc)' = ForDoc(kind, doc)
  <2>1. /\ \A doc : AllForDoc(doc)' = AllForDoc(doc)
        /\ \A kind, doc : ForDoc(kind, doc)' = ForDoc(kind, doc)
    BY <1>1 DEF AllForDoc, ForDoc
  <2>2. QED
    BY <2>1, DocSumTypes
<1>13. SalesLimitsOK'
  <2>1. \A w : /\ Paid(w)' = Paid(w) + (IF w.id = v.id THEN amount ELSE 0)
               /\ Paid(w) \in Nat
    <3> SUFFICES ASSUME NEW w
                 PROVE  /\ Paid(w)' = Paid(w) + (IF w.id = v.id THEN amount ELSE 0)
                        /\ Paid(w) \in Nat
      OBVIOUS
    <3>1. Paid(w) = AllForDoc(<<"receipt", w.id>>) + AppliedTo(w.id)
      BY LimitsByDoc
    <3>2. Paid(w)' = AllForDoc(<<"receipt", w.id>>)' + AppliedTo(w.id)'
      BY DEF Paid, AllForDoc, AppliedTo
    <3>3. QED
      BY <1>2, <1>10, <1>12, <3>1, <3>2
  <2>2. \A w \in invoices' : Paid(w)' <= w.amount
    BY <1>1, <1>2, <2>1 DEF FinanceInv, SalesLimitsOK, InvoicesOK, Invoice
  <2>3. ASSUME NEW x \in cancellations', NEW w \in invoices', w.id = x.invoice
        PROVE  /\ x.refundable = Paid(w)'
               /\ \A y \in claims' : y.doc = <<"receipt", w.id>> => y.line.date <= x.date
               /\ \A a \in applications' : a.invoice = w.id => a.date <= x.date
    <3>1. w.id # v.id
      BY <1>1, <2>3 DEF FinanceInv, CancellationsOK, CancellationOK
    <3>2. QED
      BY <1>1, <1>4, <2>1, <2>3, <3>1 DEF FinanceInv, SalesLimitsOK
  <2>4. \A other \in Advances' : AdvanceRemaining(other)' >= 0
    <3> SUFFICES ASSUME NEW other \in Advances PROVE AdvanceRemaining(other)' >= 0
      BY <1>3
    <3>1. AdvanceRemaining(other) = other.amount - AppliedFrom(other.key)
                                      - ForDoc("customer_refund", <<"advance", other.key>>)
      BY LimitsByDoc DEF AdvanceRemaining, AppliedFrom
    <3>2. AdvanceRemaining(other)' = other.amount - AppliedFrom(other.key)'
                                       - ForDoc("customer_refund", <<"advance", other.key>>)'
      BY DEF AdvanceRemaining, AppliedFrom, RefundedFrom, ForDoc
    <3>3. other.key = adv.key => other = adv
      BY <1>2 DEF Advances, FinanceInv, ClaimsOK
    <3>4. AdvanceRemaining(other) >= 0 /\ other.amount \in Nat
      BY DEF FinanceInv, SalesLimitsOK, Advances, BankInv, ClaimOK
    <3>5. QED
      BY <1>1, <1>2, <1>11, <1>12, <3>1, <3>2, <3>3, <3>4
  <2>5. \A x \in cancellations' : RefundRemaining(x)' >= 0
    BY <1>1 DEF FinanceInv, SalesLimitsOK, RefundRemaining, RefundedFrom
  <2>6. QED
    BY <2>2, <2>3, <2>4, <2>5 DEF SalesLimitsOK
<1>14. TiesOK'
  <2> SUFFICES ASSUME NEW d \in Days PROVE BankTies(d)' /\ SalesTies(d)' /\ PurchaseTies(d)'
    BY DEF TiesOK, Days
  <2>1. BankTies(d) /\ SalesTies(d) /\ PurchaseTies(d)
    BY DEF FinanceInv, TiesOK
  <2>2. OpeningsSame(d) /\ ClaimsSame(d) /\ BillsSame(d) /\ SettledSame(d)
    BY <1>1, SameSums
  <2>3. /\ Invoiced(d)' = Invoiced(d) /\ Reversed(d)' = Reversed(d)
        /\ NeverPaid(d)' = NeverPaid(d) /\ Refundable(d)' = Refundable(d)
        /\ Delivered(d)' = Delivered(d)
    BY <1>1, <1>3 DEF Invoiced, Reversed, NeverPaid, Refundable, Delivered
  <2>4. Applied(d)' = Applied(d) + (IF date <= d THEN amount ELSE 0)
    <3>1. IsFiniteSet(applications) /\ \A x \in applications : x.amount \in Nat
      BY DEF FinanceInv, ApplicationsOK, ApplicationOK
    <3>2. Total(Upto(applications \cup {row}, d))
            = Total(Upto(applications, d)) + (IF date <= d THEN amount ELSE 0)
      BY <1>2, <1>4, <3>1, UptoAdded
    <3>3. QED
      BY <1>1, <3>2 DEF Applied
  <2>5. /\ Invoiced(d) \in Nat /\ NeverPaid(d) \in Nat /\ Applied(d) \in Nat
        /\ ClaimsOf("receipt", d) \in Nat /\ ClaimsOf("customer_advance", d) \in Nat
        /\ RefundsOf("advance", d) \in Nat
    BY SumTypes, ClaimSumTypes
  <2>6. BankTies(d)'
    BY <1>6, <2>1, <2>2 DEF BankTies, Shift, OpeningsSame, ClaimsSame
  <2>7. SalesTies(d)'
    BY <1>2, <1>6, <2>1, <2>2, <2>3, <2>4, <2>5 DEF SalesTies, Shift, ClaimsSame
  <2>8. PurchaseTies(d)'
    BY <1>6, <2>1, <2>2 DEF PurchaseTies, Shift, ClaimsSame, BillsSame, SettledSame
  <2>9. QED
    BY <2>6, <2>7, <2>8
<1>15. IsFiniteSet(openings)'
  BY <1>1 DEF FinanceInv
<1>16. QED
  BY <1>6, <1>7, <1>8, <1>13, <1>14, <1>15 DEF FinanceInv

\* A table whose rows have amounts in a column, and the table with one more row, which has
\* the amount m there.
AddsTo(rows, more, col, r, m) ==
  /\ IsFiniteSet(rows) /\ \A x \in rows : x[col] \in Nat
  /\ r \notin rows /\ m \in Nat /\ r[col] = m /\ more = rows \cup {r}

\* A column of a table with one more row, seen up to a day.
LEMMA ColumnAdded ==
  ASSUME NEW rows, NEW more, NEW col, NEW r, NEW m, AddsTo(rows, more, col, r, m), NEW d
  PROVE  Total(Column(Upto(more, d), col))
           = Total(Column(Upto(rows, d), col)) + (IF r.date <= d THEN m ELSE 0)
<1> DEFINE cell == [row |-> r, amount |-> r[col]]
           old == Column(Upto(rows, d), col)
           new == Column(Upto(rows \cup {r}, d), col)
<1> USE DEF AddsTo
<1>1. Upto(rows, d) \in SUBSET rows
  BY DEF Upto
<1>2. IsFiniteSet(Upto(rows, d)) /\ \A x \in Upto(rows, d) : x[col] \in Nat
  BY <1>1, FS_Subset
<1>3. IsFiniteSet(old) /\ \A x \in old : x.amount \in Nat
  BY <1>2, ColumnOK
<1>4. /\ new = old \/ new = old \cup {cell}
      /\ cell \in new <=> r.date <= d
      /\ cell \notin old /\ cell.amount = r[col]
  <2>1. \A x \in old : \E y \in rows : x.row = y
    BY <1>1 DEF Column
  <2>2. cell.row = r /\ cell.amount = r[col]
    OBVIOUS
  <2>3. cell \notin old
    BY <2>1, <2>2
  <2>4. CASE r.date <= d
    <3>1. Upto(rows \cup {r}, d) = Upto(rows, d) \cup {r}
      BY <2>4 DEF Upto
    <3>2. new = old \cup {cell}
      BY <3>1 DEF Column
    <3>3. QED
      BY <2>2, <2>3, <2>4, <3>2
  <2>5. CASE ~(r.date <= d)
    <3>1. Upto(rows \cup {r}, d) = Upto(rows, d)
      BY <2>5 DEF Upto
    <3>2. QED
      BY <2>2, <2>3, <2>5, <3>1
  <2>6. QED
    BY <2>4, <2>5
<1> HIDE DEF old, new, cell
<1>5. Total(new) = Total(old) + (IF cell \in new THEN cell.amount ELSE 0)
  BY <1>3, <1>4, TotalOfMore
<1>6. QED
  BY <1>4, <1>5 DEF old, new

\* The journal of a cancellation: two entries, or three when a part was paid.
LEMMA CancellationShifts ==
  ASSUME LedgerInv, NEW key, NEW date \in Nat, NEW amount \in Nat \ {0},
         NEW unpaid \in Nat, NEW paid \in Nat, amount = unpaid + paid, key \notin Keys,
         Post(key, date, {e \in {Dr("DEFERRED_REVENUE", amount), Cr("AR", unpaid),
                                 Cr("CUSTOMER_REFUND", paid)} : e.amount # 0}),
         UNCHANGED <<today, closings>>
  PROVE  /\ LedgerStep /\ Keys' \subseteq Keys \cup {key}
         /\ \A x, d : Balance(x, d)' = Balance(x, d)
              + Shift("DEFERRED_REVENUE", "AR", unpaid, date, x, d)
              + Shift("DEFERRED_REVENUE", "CUSTOMER_REFUND", paid, date, x, d)
         /\ \A x, d : Balance(x, d) \in Int
<1> DEFINE e == Dr("DEFERRED_REVENUE", amount)
           f == Cr("AR", unpaid)
           g == Cr("CUSTOMER_REFUND", paid)
           entries == {h \in {e, f, g} : h.amount # 0}
<1>1. /\ e.account = "DEFERRED_REVENUE" /\ e.side = "debit" /\ e.amount = amount
      /\ f.account = "AR" /\ f.side = "credit" /\ f.amount = unpaid
      /\ g.account = "CUSTOMER_REFUND" /\ g.side = "credit" /\ g.amount = paid
  BY DEF Dr, Cr
<1>2. EntryOK(e) /\ (unpaid # 0 => EntryOK(f)) /\ (paid # 0 => EntryOK(g))
  BY <1>1 DEF EntryOK, Accounts
<1>3. Post(key, date, entries)
  OBVIOUS
<1> HIDE DEF e, f, g
<1>4. /\ IsFiniteSet(entries) /\ \A h \in entries : EntryOK(h)
  <2>1. IsFiniteSet({e} \cup {f} \cup {g})
    BY FS_Singleton, FS_Union
  <2>2. entries \in SUBSET ({e} \cup {f} \cup {g})
    OBVIOUS
  <2>3. IsFiniteSet(entries)
    BY <2>1, <2>2, FS_Subset
  <2>4. \A h \in entries : EntryOK(h)
    BY <1>1, <1>2
  <2>5. QED
    BY <2>3, <2>4
<1>5. journal' = journal \cup Lines(key, date, entries)
  BY <1>3 DEF Post
<1>6. LedgerStep
  <2> HIDE DEF entries
  <2>1. PostingStep
    BY <1>3, <1>4, PostIsStep DEF EntryOK
  <2>2. QED
    BY <2>1 DEF LedgerStep
<1>7. Keys' \subseteq Keys \cup {key}
  BY <1>5 DEF Keys, Lines
<1>8. \A x, d : Balance(x, d) \in Int
  BY BalanceType
<1>9. /\ \A x, d : Effect(e, date, x, d) \in Int
      /\ \A x, d : Effect(f, date, x, d) \in Int
      /\ \A x, d : Effect(g, date, x, d) \in Int
      /\ \A x, d : Effect(e, date, x, d) + Effect(f, date, x, d) + Effect(g, date, x, d)
           = Shift("DEFERRED_REVENUE", "AR", unpaid, date, x, d)
             + Shift("DEFERRED_REVENUE", "CUSTOMER_REFUND", paid, date, x, d)
      /\ unpaid = 0 => \A x, d : Effect(f, date, x, d) = 0
      /\ paid = 0 => \A x, d : Effect(g, date, x, d) = 0
      /\ \A x, d : Shift("DEFERRED_REVENUE", "AR", unpaid, date, x, d) \in Int
      /\ \A x, d : Shift("DEFERRED_REVENUE", "CUSTOMER_REFUND", paid, date, x, d) \in Int
  BY <1>1 DEF Effect, Shift
<1>10. \A x, d : Balance(x, d)' = Balance(x, d) + Effect(e, date, x, d)
                   + Effect(f, date, x, d) + Effect(g, date, x, d)
  <2>1. CASE unpaid = 0
    <3>1. entries = {e, g} /\ EntryOK(g)
      BY <1>1, <1>2, <2>1
    <3>2. journal' = journal \cup Lines(key, date, {e, g})
      BY <1>5, <3>1
    <3>3. \A x, d : Balance(x, d)' = Balance(x, d) + Effect(e, date, x, d) + Effect(g, date, x, d)
      BY <1>1, <1>2, <3>1, <3>2, TwoMoreLines
    <3>4. QED
      BY <1>8, <1>9, <2>1, <3>3
  <2>2. CASE paid = 0
    <3>1. entries = {e, f} /\ EntryOK(f)
      BY <1>1, <1>2, <2>2
    <3>2. journal' = journal \cup Lines(key, date, {e, f})
      BY <1>5, <3>1
    <3>3. \A x, d : Balance(x, d)' = Balance(x, d) + Effect(e, date, x, d) + Effect(f, date, x, d)
      BY <1>1, <1>2, <3>1, <3>2, TwoMoreLines
    <3>4. QED
      BY <1>8, <1>9, <2>2, <3>3
  <2>3. CASE unpaid # 0 /\ paid # 0
    <3>1. entries = {e, f, g} /\ EntryOK(f) /\ EntryOK(g)
      BY <1>1, <1>2, <2>3
    <3>2. journal' = journal \cup Lines(key, date, {e, f, g})
      BY <1>5, <3>1
    <3>3. QED
      BY <1>1, <1>2, <3>1, <3>2, ThreeMoreLines
  <2>4. QED
    BY <2>1, <2>2, <2>3
<1>11. \A x, d : Balance(x, d)' = Balance(x, d)
              + Shift("DEFERRED_REVENUE", "AR", unpaid, date, x, d)
              + Shift("DEFERRED_REVENUE", "CUSTOMER_REFUND", paid, date, x, d)
  <2> SUFFICES ASSUME NEW x, NEW d
               PROVE  Balance(x, d)' = Balance(x, d)
                        + Shift("DEFERRED_REVENUE", "AR", unpaid, date, x, d)
                        + Shift("DEFERRED_REVENUE", "CUSTOMER_REFUND", paid, date, x, d)
    OBVIOUS
  <2>1. /\ Effect(e, date, x, d) \in Int /\ Effect(f, date, x, d) \in Int
        /\ Effect(g, date, x, d) \in Int /\ Balance(x, d) \in Int
        /\ Shift("DEFERRED_REVENUE", "AR", unpaid, date, x, d) \in Int
        /\ Shift("DEFERRED_REVENUE", "CUSTOMER_REFUND", paid, date, x, d) \in Int
    BY <1>8, <1>9
  <2>2. QED
    BY <1>9, <1>10, <2>1
<1>12. QED
  BY <1>6, <1>7, <1>8, <1>11

\* A cancellation reverses the whole order, in what was paid and what was not.
LEMMA CancelIssuedKeeps ==
  ASSUME FinanceInv, NEW v \in invoices, NEW date \in Days, CancelIssued(v, date),
         UNCHANGED billVars
  PROVE  BankBookStep /\ FinanceInv'
<1> DEFINE key == <<"invoice", v.id, "cancellation">>
<1>0. PICK unpaid, paid, row :
        /\ unpaid = v.amount - Paid(v) /\ paid = Paid(v)
        /\ row = [invoice |-> v.id, date |-> date, amount |-> v.amount,
                  unpaid |-> unpaid, refundable |-> paid]
  OBVIOUS
<1>1. /\ status[v.id] = "issued" /\ status' = [status EXCEPT ![v.id] = "cancelled"]
      /\ date >= v.date
      /\ \A c \in claims : ~(c.doc = <<"receipt", v.id>> /\ c.line.date > date)
      /\ \A a \in applications : ~(a.invoice = v.id /\ a.date > date)
      /\ Post(key, date, {e \in {Dr("DEFERRED_REVENUE", v.amount), Cr("AR", unpaid),
                                 Cr("CUSTOMER_REFUND", paid)} : e.amount # 0})
      /\ cancellations' = cancellations \cup {row}
      /\ UNCHANGED <<today, closings, bank, claims, openings, invoices, deliveries,
                     applications, bills, approved, decisions, releases>>
  BY <1>0 DEF CancelIssued, Cancelled, bankVars, billVars
<1>2. /\ v.id \in Invoices /\ status \in [Invoices -> Statuses] /\ v.date <= date
      /\ v.amount \in Nat \ {0} /\ date \in Nat
      /\ \A w \in invoices : w.id \in Invoices /\ (w.id = v.id => w = v)
  BY <1>1, LedgerAssumption DEF FinanceInv, InvoicesOK, Invoice, Days
<1>3. unpaid \in Nat /\ paid \in Nat /\ v.amount = unpaid + paid
  <2>1. Paid(v) \in Nat
    <3>1. Paid(v) = AllForDoc(<<"receipt", v.id>>) + AppliedTo(v.id)
      BY LimitsByDoc
    <3>2. AllForDoc(<<"receipt", v.id>>) \in Nat /\ AppliedTo(v.id) \in Nat
      BY DocSumTypes, AppliedTypes
    <3>3. QED
      BY <3>1, <3>2
  <2>2. Paid(v) <= v.amount
    BY DEF FinanceInv, SalesLimitsOK
  <2>3. QED
    BY <1>0, <1>2, <2>1, <2>2
<1>4. /\ \A i \in Invoices : i # v.id => status'[i] = status[i]
      /\ status'[v.id] = "cancelled" /\ status' \in [Invoices -> Statuses]
  BY <1>1, <1>2 DEF Statuses
<1>5. \A x \in deliveries \cup cancellations : x.invoice # v.id
  BY <1>1 DEF FinanceInv, DeliveriesOK, DeliveryOK, CancellationsOK, CancellationOK
<1>6. /\ row.invoice = v.id /\ row.date = date /\ row.amount = v.amount
      /\ row.unpaid = unpaid /\ row.refundable = paid /\ row \notin cancellations
  BY <1>0, <1>5
<1>7. PostedInvoices' = PostedInvoices
  <2>1. row \in cancellations' /\ \A x \in cancellations' : x = row \/ x \in cancellations
    BY <1>1
  <2>2. QED
    BY <1>1, <1>2, <1>4, <1>5, <1>6, <2>1 DEF PostedInvoices
<1>8. Grows
  BY <1>1, <1>4, <1>7 DEF Grows
<1>9. /\ BankBookStep /\ BankInv' /\ KeysOK'
      /\ \A x, d : Balance(x, d)' = Balance(x, d)
           + Shift("DEFERRED_REVENUE", "AR", unpaid, date, x, d)
           + Shift("DEFERRED_REVENUE", "CUSTOMER_REFUND", paid, date, x, d)
      /\ \A x, d : Balance(x, d) \in Int
  <2>1. ~KeyOK(key)
    BY <1>5 DEF KeyOK, ClaimKeys, FinanceInv, ClaimsOK, UseOK
  <2>2. KeyOK(key)'
    <3>1. row \in cancellations' /\ key = <<"invoice", row.invoice, "cancellation">>
      BY <1>1, <1>6
    <3>2. QED
      BY <3>1 DEF KeyOK
  <2>3. RowsStep
    BY <1>1 DEF RowsStep, FinanceInv, BankInv
  <2>4. key \notin Keys
    BY <2>1 DEF FinanceInv, KeysOK
  <2> HIDE DEF key
  <2>5. /\ LedgerStep /\ Keys' \subseteq Keys \cup {key}
        /\ \A x, d : Balance(x, d)' = Balance(x, d)
             + Shift("DEFERRED_REVENUE", "AR", unpaid, date, x, d)
             + Shift("DEFERRED_REVENUE", "CUSTOMER_REFUND", paid, date, x, d)
        /\ \A x, d : Balance(x, d) \in Int
    BY <1>1, <1>2, <1>3, <2>4, CancellationShifts DEF FinanceInv, BankInv
  <2>6. BankBookStep
    BY <1>1, <2>3, <2>5, NoClaimStep DEF BankBookStep, FinanceInv
  <2>7. BankInv'
    BY <2>6, BankInvStep DEF FinanceInv
  <2>8. KeysOK'
    <3> DEFINE new == {key}
    <3>1. Keys' \subseteq Keys \cup new /\ \A k \in new : KeyOK(k)'
      BY <2>2, <2>5
    <3> HIDE DEF new
    <3>2. QED
      BY <1>8, <3>1, KeysStay DEF FinanceInv
  <2>9. QED
    BY <2>5, <2>6, <2>7, <2>8
<1>10. InvoicesOK'
  BY <1>1, <1>4 DEF FinanceInv, InvoicesOK
<1>11. DeliveriesOK'
  BY <1>1, <1>4, <1>5 DEF FinanceInv, DeliveriesOK, DeliveryOK
<1>12. CancellationsOK'
  <2>1. IsFiniteSet(cancellations')
    BY <1>1, FS_AddElement DEF FinanceInv, CancellationsOK
  <2>2. CancellationOK(row)'
    BY <1>1, <1>2, <1>3, <1>4, <1>6 DEF CancellationOK
  <2>3. \A x \in cancellations : CancellationOK(x)'
    BY <1>1, <1>4, <1>5 DEF FinanceInv, CancellationsOK, CancellationOK
  <2>4. \A x, y \in cancellations' : x.invoice = y.invoice => x = y
    BY <1>1, <1>5, <1>6 DEF FinanceInv, CancellationsOK
  <2>5. QED
    <3>1. \A x \in cancellations' : CancellationOK(x)'
      BY <1>1, <2>2, <2>3
    <3>2. QED
      BY <2>1, <2>4, <3>1 DEF CancellationsOK
<1>13. ClaimsOK' /\ ApplicationsOK' /\ BillsOK' /\ PurchaseLimitsOK'
  BY <1>1, <1>8, GrowthKeeps
<1>14. SalesLimitsOK'
  <2>1. /\ \A w : Paid(w)' = Paid(w) /\ \A adv : AdvanceRemaining(adv)' = AdvanceRemaining(adv)
        /\ \A x : RefundRemaining(x)' = RefundRemaining(x)
        /\ Advances' = Advances
    BY <1>1 DEF Paid, Advances, AdvanceRemaining, RefundRemaining, RefundedFrom
  <2>2. /\ \A c \in claims : c.doc = <<"receipt", v.id>> => c.line.date <= date
        /\ \A a \in applications : a.invoice = v.id => a.date <= date
    <3>1. /\ \A c \in claims : c.line.date \in Nat
          /\ \A a \in applications : a.date \in Nat
      BY LedgerAssumption DEF FinanceInv, BankInv, ClaimOK, BankLine, Days, ApplicationsOK,
                              ApplicationOK
    <3>2. QED
      BY <1>1, <1>2, <3>1
  <2>3. RefundRemaining(row) >= 0
    <3>1. {c \in claims : c.kind = "customer_refund" /\ c.doc = <<"cancellation", v.id>>} = {}
      <4> SUFFICES ASSUME NEW c \in claims, c.kind = "customer_refund",
                          c.doc = <<"cancellation", v.id>>
                   PROVE  FALSE
        OBVIOUS
      <4>1. c.doc[1] = "cancellation" /\ c.doc[2] = v.id
        OBVIOUS
      <4>2. SalesUse(c)
        BY DEF FinanceInv, ClaimsOK, UseOK, PurchaseUse, BankUse
      <4>3. \/ \E adv \in Advances : c.doc = <<"advance", adv.key>>
            \/ \E x \in cancellations : c.doc = <<"cancellation", x.invoice>>
        BY <4>2 DEF SalesUse
      <4>4. QED
        BY <1>5, <4>1, <4>3
    <3>2. RefundedFrom(<<"cancellation", v.id>>) = 0
      BY <3>1, TotalEmpty DEF RefundedFrom
    <3>3. QED
      BY <1>3, <1>6, <3>2 DEF RefundRemaining
  <2>4. ASSUME NEW x \in cancellations', NEW w \in invoices', w.id = x.invoice
        PROVE  /\ x.refundable = Paid(w)'
               /\ \A c \in claims' : c.doc = <<"receipt", w.id>> => c.line.date <= x.date
               /\ \A a \in applications' : a.invoice = w.id => a.date <= x.date
    <3>1. CASE x = row
      <4>1. w = v
        BY <1>1, <1>2, <1>6, <2>4, <3>1
      <4>2. QED
        BY <1>0, <1>1, <1>6, <2>1, <2>2, <3>1, <4>1
    <3>2. CASE x # row
      BY <1>1, <2>1, <2>4, <3>2 DEF FinanceInv, SalesLimitsOK
    <3>3. QED
      BY <3>1, <3>2
  <2>5. \A x \in cancellations' : RefundRemaining(x)' >= 0
    BY <1>1, <2>1, <2>3 DEF FinanceInv, SalesLimitsOK
  <2>6. \A w \in invoices' : Paid(w)' <= w.amount
    BY <1>1, <2>1 DEF FinanceInv, SalesLimitsOK
  <2>7. \A adv \in Advances' : AdvanceRemaining(adv)' >= 0
    BY <2>1 DEF FinanceInv, SalesLimitsOK
  <2>8. QED
    BY <2>4, <2>5, <2>6, <2>7 DEF SalesLimitsOK
<1>15. TiesOK'
  <2> SUFFICES ASSUME NEW d \in Days PROVE BankTies(d)' /\ SalesTies(d)' /\ PurchaseTies(d)'
    BY DEF TiesOK, Days
  <2>1. BankTies(d) /\ SalesTies(d) /\ PurchaseTies(d)
    BY DEF FinanceInv, TiesOK
  <2>2. OpeningsSame(d) /\ ClaimsSame(d) /\ BillsSame(d) /\ SettledSame(d)
    BY <1>1, SameSums
  <2>3. /\ Invoiced(d)' = Invoiced(d) /\ Applied(d)' = Applied(d) /\ Delivered(d)' = Delivered(d)
    BY <1>1, <1>7 DEF Invoiced, Applied, Delivered
  <2>4. /\ IsFiniteSet(cancellations)
        /\ \A x \in cancellations : x.amount \in Nat
        /\ \A x \in cancellations : x.unpaid \in Nat
        /\ \A x \in cancellations : x.refundable \in Nat
    BY DEF FinanceInv, CancellationsOK, CancellationOK
  <2>5. Reversed(d)' = Reversed(d) + (IF date <= d THEN v.amount ELSE 0)
    <3>1. row.amount \in Nat /\ row \notin cancellations
      BY <1>2, <1>6
    <3>2. Total(Upto(cancellations \cup {row}, d))
            = Total(Upto(cancellations, d)) + (IF row.date <= d THEN row.amount ELSE 0)
      BY <2>4, <3>1, UptoAdded
    <3>3. QED
      BY <1>1, <1>6, <3>2 DEF Reversed
  <2>6. NeverPaid(d)' = NeverPaid(d) + (IF date <= d THEN unpaid ELSE 0)
    <3>0. PICK col : col = "unpaid"
      OBVIOUS
    <3>1. PICK rows, more : rows = cancellations /\ more = cancellations \cup {row}
      OBVIOUS
    <3>2. AddsTo(rows, more, col, row, unpaid)
      BY <1>3, <1>6, <2>4, <3>0, <3>1 DEF AddsTo
    <3>3. Total(Column(Upto(more, d), col))
            = Total(Column(Upto(rows, d), col)) + (IF row.date <= d THEN unpaid ELSE 0)
      BY <3>2, ColumnAdded
    <3>4. QED
      BY <1>1, <1>6, <3>0, <3>1, <3>3 DEF NeverPaid
  <2>7. Refundable(d)' = Refundable(d) + (IF date <= d THEN paid ELSE 0)
    <3>0. PICK col : col = "refundable"
      OBVIOUS
    <3>1. PICK rows, more : rows = cancellations /\ more = cancellations \cup {row}
      OBVIOUS
    <3>2. AddsTo(rows, more, col, row, paid)
      BY <1>3, <1>6, <2>4, <3>0, <3>1 DEF AddsTo
    <3>3. Total(Column(Upto(more, d), col))
            = Total(Column(Upto(rows, d), col)) + (IF row.date <= d THEN paid ELSE 0)
      BY <3>2, ColumnAdded
    <3>4. QED
      BY <1>1, <1>6, <3>0, <3>1, <3>3 DEF Refundable
  <2>8. /\ Invoiced(d) \in Nat /\ NeverPaid(d) \in Nat /\ Applied(d) \in Nat
        /\ Delivered(d) \in Nat /\ Reversed(d) \in Nat /\ Refundable(d) \in Nat
        /\ ClaimsOf("receipt", d) \in Nat /\ RefundsOf("cancellation", d) \in Nat
    BY SumTypes, ClaimSumTypes
  <2>9. BankTies(d)'
    BY <1>9, <2>1, <2>2 DEF BankTies, Shift, OpeningsSame, ClaimsSame
  <2>10. SalesTies(d)'
    BY <1>3, <1>9, <2>1, <2>2, <2>3, <2>5, <2>6, <2>7, <2>8 DEF SalesTies, Shift, ClaimsSame
  <2>11. PurchaseTies(d)'
    BY <1>9, <2>1, <2>2 DEF PurchaseTies, Shift, ClaimsSame, BillsSame, SettledSame
  <2>12. QED
    BY <2>9, <2>10, <2>11
<1>16. IsFiniteSet(openings)'
  BY <1>1 DEF FinanceInv
<1>17. QED
  BY <1>9, <1>10, <1>11, <1>12, <1>13, <1>14, <1>15, <1>16 DEF FinanceInv

-----------------------------------------------------------------------------
(* The services on bills. *)

\* Nothing is paid, settled, released or remitted for a bill that was not approved, nor
\* settled or remitted for one whose tax is undecided.
LEMMA NotYetApproved ==
  ASSUME FinanceInv, NEW i
  PROVE  /\ i \notin approved =>
              /\ \A c \in claims : c.doc # <<"bill", i>>
              /\ \A d \in decisions : d.bill # i
              /\ \A r \in releases : r.bill # i
         /\ (\A d \in decisions : d.bill # i) =>
              /\ \A c \in claims : c.kind = "withheld_supplier" => c.doc # <<"bill", i>>
              /\ \A c \in claims : c.doc # <<"obligation", i>>
<1>1. ASSUME NEW c \in claims, c.doc = <<"bill", i>>
      PROVE  /\ i \in approved
             /\ c.kind = "withheld_supplier" => \E d \in decisions : d.bill = i
  <2>1. c.doc[1] = "bill" /\ c.doc[2] = i
    BY <1>1
  <2>2. UseOK(c)
    BY DEF FinanceInv, ClaimsOK
  <2>3. \E b \in ApprovedBills : c.doc = <<"bill", b.id>>
    BY <2>1, <2>2 DEF UseOK, SalesUse, PurchaseUse, BankUse
  <2>4. c.kind = "withheld_supplier" =>
          \E b \in ApprovedBills : \E d \in decisions : c.doc = <<"bill", b.id>> /\ d.bill = b.id
    BY <2>2 DEF UseOK, SalesUse, PurchaseUse, BankUse
  <2>5. QED
    BY <2>1, <2>3, <2>4 DEF ApprovedBills
<1>2. ASSUME NEW c \in claims, c.doc = <<"obligation", i>>
      PROVE  \E d \in decisions : d.bill = i
  <2>1. c.doc[1] = "obligation" /\ c.doc[2] = i
    BY <1>2
  <2>2. UseOK(c)
    BY DEF FinanceInv, ClaimsOK
  <2>3. \E d \in decisions : c.doc = <<"obligation", d.bill>>
    BY <2>1, <2>2 DEF UseOK, SalesUse, PurchaseUse, BankUse
  <2>4. QED
    BY <2>1, <2>3
<1>3. \A d \in decisions : d.bill \in approved
  BY DEF FinanceInv, BillsOK, DecisionOK, ApprovedBills
<1>4. \A r \in releases : r.bill \in approved
  BY DEF FinanceInv, BillsOK, ReleaseOK, ApprovedBills
<1>5. QED
  BY <1>1, <1>2, <1>3, <1>4

\* A draft bill is in no sum of the ledger.
LEMMA CreateBillKeeps ==
  ASSUME FinanceInv, NEW b \in Bill, CreateBill(b), UNCHANGED invoiceVars
  PROVE  BankBookStep /\ FinanceInv'
<1>1. /\ \A x \in bills : x.id # b.id
      /\ bills' = bills \cup {b}
      /\ UNCHANGED <<today, journal, closings, bank, claims, openings, invoices, status, deliveries,
                     cancellations, applications, approved, decisions, releases>>
  BY DEF CreateBill, BillCreated, ledgerVars, bankVars, invoiceVars
<1>2. b.id \notin approved /\ b.amount \in Nat
  BY <1>1 DEF FinanceInv, BillsOK, Bill
<1>3. /\ \A c \in claims : c.doc # <<"bill", b.id>>
      /\ \A d \in decisions : d.bill # b.id
      /\ \A r \in releases : r.bill # b.id
  BY <1>2, NotYetApproved
<1>4. ApprovedBills' = ApprovedBills
  BY <1>1, <1>2 DEF ApprovedBills
<1>5. /\ PaymentsOf(b) = {} /\ SettlementsOf(b) = {}
      /\ \A x : PaymentsOf(x)' = PaymentsOf(x) /\ SettlementsOf(x)' = SettlementsOf(x)
  BY <1>1, <1>3 DEF PaymentsOf, SettlementsOf
<1>6. Grows
  BY <1>1 DEF Grows, PostedInvoices
<1>7. BankBookStep /\ BankInv'
  <2>1. BankBookStep
    BY <1>1, QuietIsStep, NoClaimStep
       DEF BankBookStep, LedgerStep, RowsStep, FinanceInv, BankInv, LedgerInv
  <2>2. QED
    BY <2>1, BankInvStep DEF FinanceInv
<1>8. /\ ClaimsOK' /\ InvoicesOK' /\ DeliveriesOK' /\ CancellationsOK' /\ ApplicationsOK'
      /\ SalesLimitsOK' /\ KeysOK'
  BY <1>1, <1>6, GrowthKeeps, SameKeys
<1>9. BillsOK'
  <2>1. IsFiniteSet(bills') /\ bills' \subseteq Bill
    BY <1>1, FS_AddElement DEF FinanceInv, BillsOK
  <2>2. \A x, y \in bills' : x.id = y.id => x = y
    BY <1>1 DEF FinanceInv, BillsOK
  <2>3. \A d \in decisions' : DecisionOK(d)'
    BY <1>1, <1>6, BillRowsStay DEF FinanceInv, BillsOK
  <2>4. \A r \in releases' : ReleaseOK(r)'
    BY <1>1, <1>6, BillRowsStay DEF FinanceInv, BillsOK
  <2>5. QED
    BY <1>1, <2>1, <2>2, <2>3, <2>4 DEF FinanceInv, BillsOK
<1>10. PurchaseLimitsOK'
  <2>1. PurchaseLimitsOK /\ PaidOnce
    BY DEF FinanceInv, PurchaseLimitsOK
  <2>2. Total(PaymentsOf(b)) = 0 /\ Cardinality(SettlementsOf(b)) = 0
    BY <1>5, TotalEmpty, FS_EmptySet
  <2>3. ASSUME NEW x \in bills'
        PROVE  /\ Total(PaymentsOf(x)) <= x.amount /\ Cardinality(SettlementsOf(x)) <= 1
               /\ SettlementsOf(x) # {} => PaymentsOf(x) = {}
    BY <1>1, <1>2, <1>5, <2>1, <2>2 DEF PaidOnce
  <2>4. PaidOnce'
    BY <1>5, <2>3 DEF PaidOnce
  <2>5. ReleasedFrom(b) = 0
    <3>1. {r \in releases : r.bill = b.id} = {}
      BY <1>3
    <3>2. QED
      BY <3>1, TotalEmpty DEF ReleasedFrom
  <2>6. \A x \in bills' : ReleasedFrom(x)' <= x.amount
    BY <1>1, <1>2, <2>1, <2>5 DEF PurchaseLimitsOK, ReleasedFrom
  <2>7. \A d \in decisions' : RemittedFor(d)' <= d.amount
    BY <1>1, <2>1 DEF PurchaseLimitsOK, RemittedFor
  <2>8. QED
    BY <2>4, <2>6, <2>7 DEF PurchaseLimitsOK
<1>11. TiesOK'
  <2> SUFFICES ASSUME NEW d \in Days PROVE BankTies(d)' /\ SalesTies(d)' /\ PurchaseTies(d)'
    BY DEF TiesOK, Days
  <2>1. OpeningsSame(d) /\ ClaimsSame(d) /\ OrdersSame(d)
    BY <1>1, SameSums
  <2>2. BillsSame(d)
    BY <1>1, <1>4 DEF BillsSame, PrepaidBilled, Expensed, ReleasedBy, Prepaid
  <2>3. SettledSame(d)
    <3>1. {x \in bills' : \E c \in SettlementsOf(x) : c.line.date <= d}
            = {x \in bills : \E c \in SettlementsOf(x) : c.line.date <= d}
      BY <1>1, <1>5
    <3>2. {y \in decisions : \E x \in bills' : /\ x.id = y.bill
                                               /\ \E c \in SettlementsOf(x) : c.line.date <= d}
            = {y \in decisions : \E x \in bills : /\ x.id = y.bill
                                                  /\ \E c \in SettlementsOf(x) : c.line.date <= d}
      BY <1>1, <1>3
    <3>3. QED
      BY <1>1, <1>5, <3>1, <3>2 DEF SettledSame, SettledGross, SettledTax
  <2>4. QED
    BY <1>1, <2>1, <2>2, <2>3, SameTies
<1>12. IsFiniteSet(openings)'
  BY <1>1 DEF FinanceInv
<1>13. QED
  BY <1>7, <1>8, <1>9, <1>10, <1>11, <1>12 DEF FinanceInv

\* A tax decision moves no account until the supplier is paid.
LEMMA ReviewTaxKeeps ==
  ASSUME FinanceInv, NEW b \in bills, NEW month \in MonthEnds, NEW withheld \in Withholdings,
         ReviewBillTax(b, month, withheld), UNCHANGED invoiceVars
  PROVE  BankBookStep /\ FinanceInv'
<1> DEFINE row == [bill |-> b.id, month |-> month, amount |-> withheld]
<1>1. /\ b.id \in approved /\ \A d \in decisions : d.bill # b.id
      /\ withheld < b.amount /\ withheld \in Nat
      /\ decisions' = decisions \cup {row}
      /\ UNCHANGED <<today, journal, closings, bank, claims, openings, invoices, status, deliveries,
                     cancellations, applications, bills, approved, releases>>
  BY PayablesAssumption
     DEF ReviewBillTax, BillTaxDecided, DecisionsOn, ledgerVars, bankVars, invoiceVars
<1>2. /\ row.bill = b.id /\ row.month = month /\ row.amount = withheld
      /\ row = [bill |-> row.bill, month |-> row.month, amount |-> row.amount]
  OBVIOUS
<1> HIDE DEF row
<1>3. /\ \A c \in claims : c.kind = "withheld_supplier" => c.doc # <<"bill", b.id>>
      /\ \A c \in claims : c.doc # <<"obligation", b.id>>
  BY <1>1, NotYetApproved
<1>4. Grows
  BY <1>1 DEF Grows, PostedInvoices
<1>5. BankBookStep /\ BankInv'
  <2>1. BankBookStep
    BY <1>1, QuietIsStep, NoClaimStep
       DEF BankBookStep, LedgerStep, RowsStep, FinanceInv, BankInv, LedgerInv
  <2>2. QED
    BY <2>1, BankInvStep DEF FinanceInv
<1>6. /\ ClaimsOK' /\ InvoicesOK' /\ DeliveriesOK' /\ CancellationsOK' /\ ApplicationsOK'
      /\ SalesLimitsOK' /\ KeysOK'
  BY <1>1, <1>4, GrowthKeeps, SameKeys
<1>7. BillsOK'
  <2>1. IsFiniteSet(decisions')
    BY <1>1, FS_AddElement DEF FinanceInv, BillsOK
  <2>2. DecisionOK(row)'
    <3>1. b \in ApprovedBills'
      BY <1>1 DEF ApprovedBills
    <3>2. QED
      BY <1>1, <1>2, <3>1 DEF DecisionOK
  <2>3. \A d \in decisions' : DecisionOK(d)'
    BY <1>1, <1>4, <2>2, BillRowsStay DEF FinanceInv, BillsOK
  <2>4. \A r \in releases' : ReleaseOK(r)'
    BY <1>1, <1>4, BillRowsStay DEF FinanceInv, BillsOK
  <2>5. \A d, e \in decisions' : d.bill = e.bill => d = e
    BY <1>1, <1>2 DEF FinanceInv, BillsOK
  <2>6. QED
    BY <1>1, <2>1, <2>3, <2>4, <2>5 DEF FinanceInv, BillsOK
<1>8. PurchaseLimitsOK'
  <2>1. PurchaseLimitsOK
    BY DEF FinanceInv
  <2>2. RemittedFor(row) = 0
    <3>1. {c \in claims : c.doc = <<"obligation", row.bill>>} = {}
      BY <1>2, <1>3
    <3>2. QED
      BY <3>1, TotalEmpty DEF RemittedFor
  <2>3. \A d \in decisions' : RemittedFor(d)' <= d.amount
    <3>1. \A d : RemittedFor(d)' = RemittedFor(d)
      BY <1>1 DEF RemittedFor
    <3>2. RemittedFor(row) <= row.amount
      BY <1>1, <1>2, <2>2
    <3>3. \A d \in decisions : RemittedFor(d) <= d.amount
      BY <2>1 DEF PurchaseLimitsOK
    <3>4. QED
      BY <1>1, <3>1, <3>2, <3>3
  <2>4. PaidOnce'
    BY <1>1, <2>1 DEF PurchaseLimitsOK, PaidOnce, PaymentsOf, SettlementsOf
  <2>5. \A x \in bills' : ReleasedFrom(x)' <= x.amount
    BY <1>1, <2>1 DEF PurchaseLimitsOK, ReleasedFrom
  <2>6. QED
    BY <2>3, <2>4, <2>5 DEF PurchaseLimitsOK
<1>9. TiesOK'
  <2> SUFFICES ASSUME NEW d \in Days PROVE BankTies(d)' /\ SalesTies(d)' /\ PurchaseTies(d)'
    BY DEF TiesOK, Days
  <2>1. OpeningsSame(d) /\ ClaimsSame(d) /\ OrdersSame(d) /\ BillsSame(d)
    BY <1>1, SameSums
  <2>2. SettledSame(d)
    <3>1. \A x : SettlementsOf(x)' = SettlementsOf(x)
      BY <1>1 DEF SettlementsOf
    <3>2. \A x : x.id = b.id => SettlementsOf(x) = {}
      BY <1>3 DEF SettlementsOf
    <3>3. {y \in decisions' : \E x \in bills : /\ x.id = y.bill
                                               /\ \E c \in SettlementsOf(x) : c.line.date <= d}
            = {y \in decisions : \E x \in bills : /\ x.id = y.bill
                                                  /\ \E c \in SettlementsOf(x) : c.line.date <= d}
      BY <1>1, <1>2, <3>2
    <3>4. QED
      BY <1>1, <3>1, <3>3 DEF SettledSame, SettledGross, SettledTax
  <2>3. QED
    BY <1>1, <2>1, <2>2, SameTies
<1>10. IsFiniteSet(openings)'
  BY <1>1 DEF FinanceInv
<1>11. QED
  BY <1>5, <1>6, <1>7, <1>8, <1>9, <1>10 DEF FinanceInv

\* Approval: the bill's cost is an expense, or prepaid cost, and is owed.
LEMMA ApproveKeeps ==
  ASSUME FinanceInv, NEW b \in bills, ApproveBill(b), UNCHANGED invoiceVars
  PROVE  BankBookStep /\ FinanceInv'
<1> DEFINE key == <<"bill", b.id>>
<1>0. PICK account \in {"PREPAID", "EXPENSE"} : account = (IF Prepaid(b) THEN "PREPAID" ELSE "EXPENSE")
  OBVIOUS
<1>1. /\ b.id \notin approved /\ approved' = approved \cup {b.id}
      /\ Post(key, b.date, {Dr(account, b.amount), Cr("AP", b.amount)})
      /\ UNCHANGED <<today, closings, bank, claims, openings, invoices, status, deliveries,
                     cancellations, applications, bills, decisions, releases>>
  BY <1>0 DEF ApproveBill, BillApproved, bankVars, invoiceVars
<1>2. b.date \in Days /\ b.amount \in Nat \ {0}
  BY DEF FinanceInv, BillsOK, Bill
<1>3. b \notin ApprovedBills /\ ApprovedBills' = ApprovedBills \cup {b}
  BY <1>1 DEF ApprovedBills, FinanceInv, BillsOK
<1>4. Grows
  BY <1>1 DEF Grows, PostedInvoices
<1>5. /\ BankBookStep /\ BankInv' /\ KeysOK'
      /\ \A x, d : Balance(x, d)' = Balance(x, d) + Shift(account, "AP", b.amount, b.date, x, d)
      /\ \A x, d : Balance(x, d) \in Int
  <2>1. ~KeyOK(key)
    BY <1>1 DEF KeyOK, ClaimKeys, FinanceInv, ClaimsOK, UseOK
  <2>2. KeyOK(key)'
    BY <1>1 DEF KeyOK
  <2>3. RowsStep
    BY <1>1 DEF RowsStep, FinanceInv, BankInv
  <2>4. account \in Accounts /\ "AP" \in Accounts
    BY DEF Accounts
  <2> HIDE DEF key
  <2>5. QED
    BY <1>1, <1>2, <1>4, <2>1, <2>2, <2>3, <2>4, DocumentPosts
<1>6. /\ ClaimsOK' /\ InvoicesOK' /\ DeliveriesOK' /\ CancellationsOK' /\ ApplicationsOK'
      /\ SalesLimitsOK' /\ PurchaseLimitsOK'
  BY <1>1, <1>4, GrowthKeeps
<1>7. BillsOK'
  <2>1. \A d \in decisions' : DecisionOK(d)'
    BY <1>1, <1>4, BillRowsStay DEF FinanceInv, BillsOK
  <2>2. \A r \in releases' : ReleaseOK(r)'
    BY <1>1, <1>4, BillRowsStay DEF FinanceInv, BillsOK
  <2>3. QED
    BY <1>1, <2>1, <2>2 DEF FinanceInv, BillsOK
<1>8. TiesOK'
  <2> SUFFICES ASSUME NEW d \in Days PROVE BankTies(d)' /\ SalesTies(d)' /\ PurchaseTies(d)'
    BY DEF TiesOK, Days
  <2>1. BankTies(d) /\ SalesTies(d) /\ PurchaseTies(d)
    BY DEF FinanceInv, TiesOK
  <2>2. OpeningsSame(d) /\ ClaimsSame(d) /\ OrdersSame(d) /\ SettledSame(d)
    BY <1>1, SameSums
  <2>3. ReleasedBy(d)' = ReleasedBy(d)
    BY <1>1 DEF ReleasedBy
  <2>4. /\ IsFiniteSet(Upto(ApprovedBills, d))
        /\ \A r \in Upto(ApprovedBills, d) : r.amount \in Nat
    BY RowsFinite
  <2>5. PrepaidBilled(d)'
          = PrepaidBilled(d) + (IF Prepaid(b) /\ b.date <= d THEN b.amount ELSE 0)
    <3> DEFINE old == {x \in Upto(ApprovedBills, d) : Prepaid(x)}
               new == {x \in Upto(ApprovedBills', d) : Prepaid(x)}
    <3>1. /\ old \in SUBSET Upto(ApprovedBills, d) /\ b \notin old
          /\ new = old \/ new = old \cup {b}
          /\ b \in new <=> Prepaid(b) /\ b.date <= d
      BY <1>3 DEF Upto
    <3>2. PrepaidBilled(d) = Total(old) /\ PrepaidBilled(d)' = Total(new)
      BY DEF PrepaidBilled, Prepaid
    <3> HIDE DEF old, new
    <3>3. IsFiniteSet(old) /\ \A x \in old : x.amount \in Nat
      BY <2>4, <3>1, FS_Subset
    <3>4. Total(new) = Total(old) + (IF b \in new THEN b.amount ELSE 0)
      BY <1>2, <3>1, <3>3, TotalOfMore
    <3>5. QED
      BY <3>1, <3>2, <3>4
  <2>6. Expensed(d)' = Expensed(d) + (IF ~Prepaid(b) /\ b.date <= d THEN b.amount ELSE 0)
    <3> DEFINE old == {x \in Upto(ApprovedBills, d) : ~Prepaid(x)}
               new == {x \in Upto(ApprovedBills', d) : ~Prepaid(x)}
    <3>1. /\ old \in SUBSET Upto(ApprovedBills, d) /\ b \notin old
          /\ new = old \/ new = old \cup {b}
          /\ b \in new <=> ~Prepaid(b) /\ b.date <= d
      BY <1>3 DEF Upto
    <3>2. Expensed(d) = Total(old) /\ Expensed(d)' = Total(new)
      BY DEF Expensed, Prepaid
    <3> HIDE DEF old, new
    <3>3. IsFiniteSet(old) /\ \A x \in old : x.amount \in Nat
      BY <2>4, <3>1, FS_Subset
    <3>4. Total(new) = Total(old) + (IF b \in new THEN b.amount ELSE 0)
      BY <1>2, <3>1, <3>3, TotalOfMore
    <3>5. QED
      BY <3>1, <3>2, <3>4
  <2>7. /\ PrepaidBilled(d) \in Nat /\ Expensed(d) \in Nat /\ ReleasedBy(d) \in Nat
        /\ SettledGross(d) \in Nat /\ ClaimsOf("bank_fee", d) \in Nat
        /\ ClaimsOf("bill_payment", d) \in Nat
    BY SumTypes, ClaimSumTypes
  <2>8. BankTies(d)'
    BY <1>0, <1>5, <2>1, <2>2 DEF BankTies, Shift, OpeningsSame, ClaimsSame
  <2>9. SalesTies(d)'
    BY <1>0, <1>5, <2>1, <2>2 DEF SalesTies, Shift, ClaimsSame, OrdersSame
  <2>10. PurchaseTies(d)'
    <3>1. CASE Prepaid(b)
      BY <1>0, <1>2, <1>5, <2>1, <2>2, <2>3, <2>5, <2>6, <2>7, <3>1
         DEF PurchaseTies, Shift, ClaimsSame, SettledSame
    <3>2. CASE ~Prepaid(b)
      BY <1>0, <1>2, <1>5, <2>1, <2>2, <2>3, <2>5, <2>6, <2>7, <3>2
         DEF PurchaseTies, Shift, ClaimsSame, SettledSame
    <3>3. QED
      BY <3>1, <3>2
  <2>11. QED
    BY <2>8, <2>9, <2>10
<1>9. IsFiniteSet(openings)'
  BY <1>1 DEF FinanceInv
<1>10. QED
  BY <1>5, <1>6, <1>7, <1>8, <1>9 DEF FinanceInv

\* A release moves prepaid cost of an approved bill, within what is left of it.
LEMMA ReleaseKeeps ==
  ASSUME FinanceInv, NEW b \in bills, NEW date \in Days, NEW amount \in Amounts,
         NEW reference \in Releases, ReleasePrepayment(b, date, amount, reference),
         UNCHANGED invoiceVars
  PROVE  BankBookStep /\ FinanceInv'
<1> DEFINE key == <<"prepayment", reference>>
           row == [reference |-> reference, bill |-> b.id, date |-> date, amount |-> amount]
<1>1. /\ releases' = releases \cup {row}
      /\ \A r \in releases : r.reference # reference
      /\ date >= b.date /\ date >= b.service
      /\ amount <= PrepaidRemaining(b)
      /\ Post(key, date, {Dr("EXPENSE", amount), Cr("PREPAID", amount)})
      /\ UNCHANGED <<today, closings, bank, claims, openings, invoices, status, deliveries,
                     cancellations, applications, bills, approved, decisions>>
  BY DEF ReleasePrepayment, PrepaymentReleased, bankVars, invoiceVars
<1>2. amount \in Nat \ {0} /\ b.date \in Nat /\ b.service \in Nat /\ date \in Nat /\ b.amount \in Nat
  BY BankAssumption DEF FinanceInv, BillsOK, Bill, Days
<1>3. b.id \in approved /\ Prepaid(b) /\ amount <= b.amount - ReleasedFrom(b)
  BY <1>1, <1>2 DEF PrepaidRemaining, ReleasedFrom
<1>4. b \in ApprovedBills /\ ApprovedBills' = ApprovedBills /\ \A x : Prepaid(x)' = Prepaid(x)
  BY <1>1, <1>3 DEF ApprovedBills, Prepaid
<1>5. Grows
  BY <1>1 DEF Grows, PostedInvoices
<1>6. /\ row \notin releases /\ row.amount = amount /\ row.date = date /\ row.bill = b.id
      /\ row.reference = reference
      /\ row = [reference |-> row.reference, bill |-> row.bill, date |-> row.date,
                amount |-> row.amount]
  BY <1>1
<1> HIDE DEF row
<1>7. /\ BankBookStep /\ BankInv' /\ KeysOK'
      /\ \A x, d : Balance(x, d)' = Balance(x, d) + Shift("EXPENSE", "PREPAID", amount, date, x, d)
      /\ \A x, d : Balance(x, d) \in Int
  <2>1. ~KeyOK(key)
    BY <1>1 DEF KeyOK, ClaimKeys, FinanceInv, ClaimsOK, UseOK
  <2>2. KeyOK(key)'
    <3>1. row \in releases' /\ key = <<"prepayment", row.reference>>
      BY <1>1, <1>6
    <3>2. QED
      BY <3>1 DEF KeyOK
  <2>3. RowsStep
    BY <1>1 DEF RowsStep, FinanceInv, BankInv
  <2>4. "EXPENSE" \in Accounts /\ "PREPAID" \in Accounts
    BY DEF Accounts
  <2> HIDE DEF key
  <2>5. QED
    BY <1>1, <1>2, <1>5, <2>1, <2>2, <2>3, <2>4, DocumentPosts
<1>8. ClaimsOK' /\ InvoicesOK' /\ DeliveriesOK' /\ CancellationsOK' /\ ApplicationsOK' /\ SalesLimitsOK'
  BY <1>1, <1>5, GrowthKeeps
<1>9. BillsOK'
  <2>1. IsFiniteSet(releases')
    BY <1>1, FS_AddElement DEF FinanceInv, BillsOK
  <2>2. ReleaseOK(row)'
    <3>1. /\ row.reference \in Releases /\ row.date \in Days /\ row.amount \in Nat \ {0}
          /\ b.id = row.bill /\ b.date <= row.date /\ b.service <= row.date
      BY <1>1, <1>2, <1>6
    <3>2. QED
      BY <1>3, <1>4, <1>6, <3>1 DEF ReleaseOK
  <2>3. \A r \in releases' : ReleaseOK(r)'
    BY <1>1, <1>5, <2>2, BillRowsStay DEF FinanceInv, BillsOK
  <2>4. \A d \in decisions' : DecisionOK(d)'
    BY <1>1, <1>5, BillRowsStay DEF FinanceInv, BillsOK
  <2>5. \A r, s \in releases' : r.reference = s.reference => r = s
    BY <1>1, <1>6 DEF FinanceInv, BillsOK
  <2>6. QED
    BY <1>1, <2>1, <2>3, <2>4, <2>5 DEF FinanceInv, BillsOK
<1>10. PurchaseLimitsOK'
  <2>1. PurchaseLimitsOK
    BY DEF FinanceInv
  <2>2. ReleasedFrom(b)' = ReleasedFrom(b) + amount
    <3> DEFINE old == {r \in releases : r.bill = b.id}
               new == {r \in releases' : r.bill = b.id}
    <3>1. old \in SUBSET releases /\ row \notin old /\ new = old \cup {row}
      BY <1>1, <1>6
    <3>2. ReleasedFrom(b) = Total(old) /\ ReleasedFrom(b)' = Total(new)
      BY DEF ReleasedFrom
    <3> HIDE DEF old, new
    <3>3. IsFiniteSet(old) /\ \A x \in old : x.amount \in Nat
      BY <3>1, FS_Subset DEF FinanceInv, BillsOK, ReleaseOK
    <3>4. Total(new) = Total(old) + (IF row \in new THEN row.amount ELSE 0)
      BY <1>2, <1>6, <3>1, <3>3, TotalOfMore
    <3>5. QED
      BY <1>6, <3>1, <3>2, <3>4
  <2>3. ASSUME NEW x \in bills, x # b PROVE ReleasedFrom(x)' = ReleasedFrom(x)
    <3>1. x.id # b.id
      BY <2>3 DEF FinanceInv, BillsOK
    <3>2. {r \in releases' : r.bill = x.id} = {r \in releases : r.bill = x.id}
      BY <1>1, <1>6, <3>1
    <3>3. QED
      BY <3>2 DEF ReleasedFrom
  <2>4. \A x \in bills' : ReleasedFrom(x)' <= x.amount
    <3>1. ReleasedFrom(b) \in Nat
      <4>1. {r \in releases : r.bill = b.id} \in SUBSET releases
        OBVIOUS
      <4>2. \A r \in releases : r.amount \in Nat
        BY DEF FinanceInv, BillsOK, ReleaseOK
      <4>3. QED
        BY <4>1, <4>2, FS_Subset, TotalType DEF ReleasedFrom, FinanceInv, BillsOK
    <3>2. QED
      BY <1>1, <1>2, <1>3, <2>1, <2>2, <2>3, <3>1 DEF PurchaseLimitsOK
  <2>5. PaidOnce'
    BY <1>1, <2>1 DEF PurchaseLimitsOK, PaidOnce, PaymentsOf, SettlementsOf
  <2>6. \A d \in decisions' : RemittedFor(d)' <= d.amount
    BY <1>1, <2>1 DEF PurchaseLimitsOK, RemittedFor
  <2>7. QED
    BY <2>4, <2>5, <2>6 DEF PurchaseLimitsOK
<1>11. TiesOK'
  <2> SUFFICES ASSUME NEW d \in Days PROVE BankTies(d)' /\ SalesTies(d)' /\ PurchaseTies(d)'
    BY DEF TiesOK, Days
  <2>1. BankTies(d) /\ SalesTies(d) /\ PurchaseTies(d)
    BY DEF FinanceInv, TiesOK
  <2>2. OpeningsSame(d) /\ ClaimsSame(d) /\ OrdersSame(d) /\ SettledSame(d)
    BY <1>1, SameSums
  <2>3. PrepaidBilled(d)' = PrepaidBilled(d) /\ Expensed(d)' = Expensed(d)
    BY <1>4 DEF PrepaidBilled, Expensed
  <2>4. ReleasedBy(d)' = ReleasedBy(d) + (IF date <= d THEN amount ELSE 0)
    <3>1. IsFiniteSet(releases) /\ \A r \in releases : r.amount \in Nat
      BY DEF FinanceInv, BillsOK, ReleaseOK
    <3>2. Total(Upto(releases \cup {row}, d))
            = Total(Upto(releases, d)) + (IF row.date <= d THEN row.amount ELSE 0)
      BY <1>2, <1>6, <3>1, UptoAdded
    <3>3. QED
      BY <1>1, <1>6, <3>2 DEF ReleasedBy
  <2>5. /\ PrepaidBilled(d) \in Nat /\ Expensed(d) \in Nat /\ ReleasedBy(d) \in Nat
        /\ ClaimsOf("bank_fee", d) \in Nat
    BY SumTypes, ClaimSumTypes
  <2>6. BankTies(d)'
    BY <1>7, <2>1, <2>2 DEF BankTies, Shift, OpeningsSame, ClaimsSame
  <2>7. SalesTies(d)'
    BY <1>7, <2>1, <2>2 DEF SalesTies, Shift, ClaimsSame, OrdersSame
  <2>8. PurchaseTies(d)'
    <3> DEFINE moved == IF date <= d THEN amount ELSE 0
    <3>0. /\ moved \in Nat /\ ReleasedBy(d)' = ReleasedBy(d) + moved
          /\ Balance("EXPENSE", d)' = Balance("EXPENSE", d) + moved
          /\ Balance("PREPAID", d)' = Balance("PREPAID", d) - moved
      BY <1>2, <1>7, <2>4 DEF Shift
    <3>1. Balance("EXPENSE", d)' = Expensed(d)' + ReleasedBy(d)' + ClaimsOf("bank_fee", d)'
      <4> HIDE DEF moved
      <4>1. Balance("EXPENSE", d) = Expensed(d) + ReleasedBy(d) + ClaimsOf("bank_fee", d)
        BY <2>1 DEF PurchaseTies
      <4>2. ClaimsOf("bank_fee", d)' = ClaimsOf("bank_fee", d)
        BY <2>2 DEF ClaimsSame
      <4>3. QED
        BY <2>3, <2>5, <3>0, <4>1, <4>2
    <3>2. Balance("PREPAID", d)' = PrepaidBilled(d)' - ReleasedBy(d)'
      <4> HIDE DEF moved
      <4>1. Balance("PREPAID", d) = PrepaidBilled(d) - ReleasedBy(d)
        BY <2>1 DEF PurchaseTies
      <4>2. QED
        BY <2>3, <2>5, <3>0, <4>1
    <3>3. Balance("AP", d)' = Balance("AP", d) /\ Balance("TAX_PAYABLE", d)' = Balance("TAX_PAYABLE", d)
      BY <1>7 DEF Shift
    <3>4. QED
      BY <2>1, <2>2, <2>3, <3>1, <3>2, <3>3 DEF PurchaseTies, ClaimsSame, SettledSame
  <2>9. QED
    BY <2>6, <2>7, <2>8
<1>12. IsFiniteSet(openings)'
  BY <1>1 DEF FinanceInv
<1>13. QED
  BY <1>7, <1>8, <1>9, <1>10, <1>11, <1>12 DEF FinanceInv

\* A journal of one debit and two credits shifts each credit to the debited account.
LEMMA SplitShifts ==
  ASSUME LedgerInv, NEW key, NEW date \in Nat, NEW a \in Accounts, NEW b \in Accounts,
         NEW c \in Accounts, b # c, NEW amount \in Nat \ {0}, NEW m \in Nat \ {0},
         NEW n \in Nat \ {0}, amount = m + n, key \notin Keys,
         Post(key, date, {Dr(a, amount), Cr(b, m), Cr(c, n)}), UNCHANGED <<today, closings>>
  PROVE  /\ LedgerStep /\ Keys' \subseteq Keys \cup {key}
         /\ \A x, d : Balance(x, d)' = Balance(x, d) + Shift(a, b, m, date, x, d)
                                                     + Shift(a, c, n, date, x, d)
         /\ \A x, d : Balance(x, d) \in Int
<1> DEFINE e == Dr(a, amount)
           f == Cr(b, m)
           g == Cr(c, n)
<1>1. /\ e.account = a /\ e.side = "debit" /\ e.amount = amount
      /\ f.account = b /\ f.side = "credit" /\ f.amount = m
      /\ g.account = c /\ g.side = "credit" /\ g.amount = n
  BY DEF Dr, Cr
<1>2. EntryOK(e) /\ EntryOK(f) /\ EntryOK(g)
  BY <1>1 DEF EntryOK
<1>3. Post(key, date, {e, f, g})
  OBVIOUS
<1> HIDE DEF e, f, g
<1>4. IsFiniteSet({e, f, g}) /\ \A h \in {e, f, g} : EntryOK(h)
  <2>1. IsFiniteSet({e} \cup {f} \cup {g})
    BY FS_Singleton, FS_Union
  <2>2. {e, f, g} = {e} \cup {f} \cup {g}
    OBVIOUS
  <2>3. QED
    BY <1>2, <2>1, <2>2
<1>5. journal' = journal \cup Lines(key, date, {e, f, g})
  BY <1>3 DEF Post
<1>6. LedgerStep
  <2>1. PICK entries : entries = {e, f, g}
    OBVIOUS
  <2>2. PostingStep
    BY <1>3, <1>4, <2>1, PostIsStep DEF EntryOK
  <2>3. QED
    BY <2>2 DEF LedgerStep
<1>7. Keys' \subseteq Keys \cup {key}
  BY <1>5 DEF Keys, Lines
<1>8. \A x, d : Balance(x, d) \in Int
  BY BalanceType
<1>9. /\ \A x, d : Effect(e, date, x, d) \in Int
      /\ \A x, d : Effect(f, date, x, d) \in Int
      /\ \A x, d : Effect(g, date, x, d) \in Int
      /\ \A x, d : Effect(e, date, x, d) + Effect(f, date, x, d) + Effect(g, date, x, d)
           = Shift(a, b, m, date, x, d) + Shift(a, c, n, date, x, d)
      /\ \A x, d : Shift(a, b, m, date, x, d) \in Int
      /\ \A x, d : Shift(a, c, n, date, x, d) \in Int
  BY <1>1 DEF Effect, Shift
<1>10. ASSUME NEW x, NEW d
       PROVE  Balance(x, d)' = Balance(x, d) + Shift(a, b, m, date, x, d)
                                             + Shift(a, c, n, date, x, d)
  <2>1. Balance(x, d)' = Balance(x, d) + Effect(e, date, x, d)
                   + Effect(f, date, x, d) + Effect(g, date, x, d)
    BY <1>1, <1>2, <1>5, ThreeMoreLines
  <2>2. /\ Effect(e, date, x, d) \in Int /\ Effect(f, date, x, d) \in Int
        /\ Effect(g, date, x, d) \in Int /\ Balance(x, d) \in Int
        /\ Shift(a, b, m, date, x, d) \in Int /\ Shift(a, c, n, date, x, d) \in Int
    BY <1>8, <1>9
  <2>3. QED
    BY <1>9, <2>1, <2>2
<1>11. QED
  BY <1>6, <1>7, <1>8, <1>10

\* A net payment settles the whole bill and makes the withheld tax payable.
LEMMA WithheldKeeps ==
  ASSUME FinanceInv, NEW b \in bills, NEW line \in bank,
         ReconcileWithheldBillPayment(b, line), UNCHANGED invoiceVars
  PROVE  BankBookStep /\ FinanceInv'
<1> DEFINE key == <<"bank-event", "withheld-bill", b.id>>
<1>1. PICK dec \in DecisionsOn(b) :
         /\ b.id \in approved /\ dec.amount > 0
         /\ PaymentsOf(b) = {} /\ BillOutstanding(b) = b.amount
         /\ line.date >= b.date /\ line.direction = "out"
         /\ key \notin ClaimKeys /\ b.amount - dec.amount <= Unallocated(line)
         /\ Post(key, line.date, {Dr("AP", b.amount), Cr("BANK", b.amount - dec.amount),
                                  Cr("TAX_PAYABLE", dec.amount)})
         /\ claims' = claims \cup {Claim("withheld_supplier", key, <<"bill", b.id>>, line,
                                         b.amount - dec.amount)}
         /\ UNCHANGED <<today, closings, bank, openings, billVars>>
  BY DEF ReconcileWithheldBillPayment
<1>2. PICK c, net : /\ net = b.amount - dec.amount
                    /\ c = Claim("withheld_supplier", key, <<"bill", b.id>>, line, net)
  OBVIOUS
<1>3. /\ c.kind = "withheld_supplier" /\ c.key = key /\ c.key[1] = "bank-event"
      /\ c.doc = <<"bill", b.id>> /\ c.doc[1] = "bill" /\ c.doc[2] = b.id
      /\ c.line = line /\ c.amount = net
  BY <1>2 DEF Claim
<1>4. /\ dec \in decisions /\ dec.bill = b.id /\ b \in ApprovedBills
      /\ \A x \in decisions : x.bill = b.id => x = dec
      /\ \A x \in bills : x.id = b.id => x = b
  BY <1>1 DEF DecisionsOn, ApprovedBills, FinanceInv, BillsOK
<1>5. /\ b.amount \in Nat \ {0} /\ net \in Nat \ {0} /\ dec.amount \in Nat \ {0}
      /\ b.amount = net + dec.amount
      /\ line.date \in Days /\ line.date \in Nat /\ b.date <= line.date
  <2>1. line.date \in Days /\ line.date \in Nat /\ b.date \in Nat /\ b.amount \in Nat \ {0}
    BY DEF FinanceInv, BankInv, BankLine, Days, BillsOK, Bill
  <2>2. dec.amount \in Nat /\ dec.amount < b.amount
    BY <1>4 DEF FinanceInv, BillsOK, DecisionOK, ApprovedBills
  <2>3. QED
    BY <1>1, <1>2, <2>1, <2>2
<1>6. SettlementsOf(b) = {}
  BY <1>1, <1>5, TotalEmpty DEF BillOutstanding
<1>7. UseOK(c)
  BY <1>1, <1>2, <1>3, <1>4, <1>5 DEF UseOK, PurchaseUse
<1>8. NewClaim(c)
  BY <1>1, <1>2, <1>3, <1>5, <1>7 DEF NewClaim, ClaimOK, ClaimKinds, invoiceVars, billVars
<1>9. /\ Grows /\ ClaimStep /\ RowsStep /\ c \notin claims
      /\ InvoicesOK' /\ DeliveriesOK' /\ CancellationsOK' /\ ApplicationsOK' /\ BillsOK'
      /\ ClaimsOK'
  BY <1>8, NewClaimKeeps
<1>10. SalesLimitsOK'
  <2>1. \A i : c.doc # <<"receipt", i>>
    BY <1>3
  <2>2. QED
    BY <1>3, <1>8, <2>1, SalesLimitsKept
<1>11. PurchaseLimitsOK'
  <2>1. \A x \in bills : c.doc = <<"bill", x.id>> => x = b
    <3>1. ASSUME NEW x \in bills, c.doc = <<"bill", x.id>> PROVE x.id = b.id
      BY <1>3, <3>1
    <3>2. QED
      BY <1>4, <3>1
  <2>2. \A i : c.doc # <<"obligation", i>>
    BY <1>3
  <2>3. QED
    BY <1>1, <1>3, <1>6, <1>8, <2>1, <2>2, PurchaseLimitsKept
<1>12. /\ claims' = claims \cup {c}
       /\ UNCHANGED <<today, closings, bank, openings, invoices, status, deliveries,
                      cancellations, applications, bills, approved, decisions, releases>>
  BY <1>8 DEF NewClaim
<1>13. /\ LedgerStep /\ Keys' \subseteq Keys \cup {c.key}
       /\ \A x, d : Balance(x, d)' = Balance(x, d)
            + Shift("AP", "BANK", net, line.date, x, d)
            + Shift("AP", "TAX_PAYABLE", dec.amount, line.date, x, d)
       /\ \A x, d : Balance(x, d) \in Int
  <2>1. c.key \notin Keys
    BY <1>1, <1>3, KeyIsNew DEF FinanceInv
  <2>2. "AP" \in Accounts /\ "BANK" \in Accounts /\ "TAX_PAYABLE" \in Accounts
    BY DEF Accounts
  <2>3. Post(c.key, line.date, {Dr("AP", b.amount), Cr("BANK", net), Cr("TAX_PAYABLE", dec.amount)})
    BY <1>1, <1>2, <1>3
  <2>4. LedgerInv
    BY DEF FinanceInv, BankInv
  <2>5. QED
    BY <1>5, <1>12, <2>1, <2>2, <2>3, <2>4, SplitShifts
<1>14. BankBookStep /\ BankInv'
  BY <1>9, <1>13, BankInvStep DEF BankBookStep, FinanceInv
<1>15. KeysOK'
  <2>1. KeyOK(c.key)'
    BY <1>12 DEF KeyOK, ClaimKeys
  <2>2. QED
    <3>1. PICK new : new = {c.key}
      OBVIOUS
    <3>2. KeysOK /\ Grows /\ Keys' \subseteq Keys \cup new /\ \A k \in new : KeyOK(k)'
      BY <1>9, <1>13, <2>1, <3>1 DEF FinanceInv
    <3>3. QED
      BY <3>2, KeysStay
<1>16. TiesOK'
  <2> SUFFICES ASSUME NEW d \in Days PROVE BankTies(d)' /\ SalesTies(d)' /\ PurchaseTies(d)'
    BY DEF TiesOK, Days
  <2> DEFINE paid == IF line.date <= d THEN net ELSE 0
             taxed == IF line.date <= d THEN dec.amount ELSE 0
             gross == IF line.date <= d THEN b.amount ELSE 0
  <2>0. paid \in Nat /\ taxed \in Nat /\ gross \in Nat /\ gross = paid + taxed
    BY <1>5
  <2>1. BankTies(d) /\ SalesTies(d) /\ PurchaseTies(d)
    BY DEF FinanceInv, TiesOK
  <2>2. OpeningsSame(d) /\ OrdersSame(d) /\ BillsSame(d)
    BY <1>12, SameSums
  <2>3. /\ \A k : k # "withheld_supplier" => ClaimsOf(k, d)' = ClaimsOf(k, d)
        /\ \A o : RefundsOf(o, d)' = RefundsOf(o, d)
        /\ ClaimedLines("in", d)' = ClaimedLines("in", d)
        /\ ClaimedLines("out", d)' = ClaimedLines("out", d) + paid
        /\ ClaimedLines("out", d) \in Nat /\ ClaimedLines("in", d) \in Nat
    <3>1. c.amount \in Nat /\ BankInv
      BY <1>3, <1>5 DEF FinanceInv
    <3>2. /\ \A k : /\ ClaimsOf(k, d) \in Nat
                    /\ ClaimsOf(k, d)' = ClaimsOf(k, d) + Part(c, c.kind = k, d)
          /\ \A o : /\ RefundsOf(o, d) \in Nat
                    /\ RefundsOf(o, d)' = RefundsOf(o, d)
                         + Part(c, c.kind = "customer_refund" /\ c.doc[1] = o, d)
          /\ \A x : /\ ClaimedLines(x, d) \in Nat
                    /\ ClaimedLines(x, d)' = ClaimedLines(x, d) + Part(c, c.line.direction = x, d)
      BY <1>9, <1>12, <3>1, ClaimAdded
    <3>3. QED
      BY <1>1, <1>3, <3>2 DEF Part
  <2>4. ASSUME NEW x, x.id # b.id PROVE SettlementsOf(x)' = SettlementsOf(x)
    <3>1. c.doc # <<"bill", x.id>>
      BY <1>3, <2>4
    <3>2. QED
      BY <1>12, <3>1 DEF SettlementsOf
  <2>5. SettlementsOf(b)' = {c}
    BY <1>3, <1>6, <1>12 DEF SettlementsOf
  <2>6. SettledGross(d)' = SettledGross(d) + gross
    <3> DEFINE old == {x \in bills : \E s \in SettlementsOf(x) : s.line.date <= d}
               new == {x \in bills' : \E s \in SettlementsOf(x)' : s.line.date <= d}
    <3>1. /\ old \in SUBSET bills /\ b \notin old
          /\ new = old \/ new = old \cup {b}
          /\ b \in new <=> line.date <= d
      <4>1. \A x \in bills : x # b => (x \in new <=> x \in old)
        BY <1>4, <1>12, <2>4
      <4>2. b \notin old /\ (b \in new <=> line.date <= d)
        BY <1>3, <1>6, <1>12, <2>5
      <4>3. new \subseteq bills /\ old \subseteq bills
        BY <1>12
      <4> HIDE DEF old, new
      <4>4. QED
        BY <4>1, <4>2, <4>3
    <3>2. SettledGross(d) = Total(old) /\ SettledGross(d)' = Total(new)
      BY DEF SettledGross
    <3> HIDE DEF old, new
    <3>3. IsFiniteSet(old) /\ \A x \in old : x.amount \in Nat
      BY <3>1, FS_Subset DEF FinanceInv, BillsOK, Bill
    <3>4. Total(new) = Total(old) + (IF b \in new THEN b.amount ELSE 0)
      BY <1>5, <3>1, <3>3, TotalOfMore
    <3>5. QED
      BY <3>1, <3>2, <3>4
  <2>7. SettledTax(d)' = SettledTax(d) + taxed
    <3> DEFINE old == {y \in decisions : \E x \in bills : /\ x.id = y.bill
                          /\ \E s \in SettlementsOf(x) : s.line.date <= d}
               new == {y \in decisions' : \E x \in bills' : /\ x.id = y.bill
                          /\ \E s \in SettlementsOf(x)' : s.line.date <= d}
    <3>1. /\ old \in SUBSET decisions /\ dec \notin old
          /\ new = old \/ new = old \cup {dec}
          /\ dec \in new <=> line.date <= d
      <4>1. ASSUME NEW y \in decisions, y # dec PROVE y \in new <=> y \in old
        <5>1. y.bill # b.id
          BY <1>4, <4>1
        <5>2. \A x : x.id = y.bill => SettlementsOf(x)' = SettlementsOf(x)
          BY <2>4, <5>1
        <5>3. QED
          BY <1>12, <5>2
      <4>2. dec \notin old /\ (dec \in new <=> line.date <= d)
        BY <1>3, <1>4, <1>6, <1>12, <2>5
      <4>3. new \subseteq decisions /\ old \subseteq decisions
        BY <1>12
      <4>4. dec \in decisions
        BY <1>4
      <4> HIDE DEF old, new
      <4>5. new = old \/ new = old \cup {dec}
        <5>1. CASE dec \in new
          BY <4>1, <4>2, <4>3, <4>4, <5>1
        <5>2. CASE dec \notin new
          BY <4>1, <4>2, <4>3, <4>4, <5>2
        <5>3. QED
          BY <5>1, <5>2
      <4>6. QED
        BY <4>2, <4>3, <4>5
    <3>2. SettledTax(d) = Total(old) /\ SettledTax(d)' = Total(new)
      BY DEF SettledTax
    <3> HIDE DEF old, new
    <3>3. IsFiniteSet(old) /\ \A x \in old : x.amount \in Nat
      BY <3>1, FS_Subset DEF FinanceInv, BillsOK, DecisionOK
    <3>4. Total(new) = Total(old) + (IF dec \in new THEN dec.amount ELSE 0)
      BY <1>5, <3>1, <3>3, TotalOfMore
    <3>5. QED
      BY <3>1, <3>2, <3>4
  <2>8. /\ SettledGross(d) \in Nat /\ SettledTax(d) \in Nat /\ Expensed(d) \in Nat
        /\ PrepaidBilled(d) \in Nat /\ \A x : Opened(x, d) \in Nat /\ \A k : ClaimsOf(k, d) \in Nat
    BY SumTypes, ClaimSumTypes
  <2>9. /\ Balance("BANK", d)' = Balance("BANK", d) - paid
        /\ Balance("AP", d)' = Balance("AP", d) + gross
        /\ Balance("TAX_PAYABLE", d)' = Balance("TAX_PAYABLE", d) - taxed
        /\ \A x : x \notin {"BANK", "AP", "TAX_PAYABLE"} => Balance(x, d)' = Balance(x, d)
    <3>1. \A x : /\ Balance(x, d) \in Int
                 /\ Balance(x, d)' = Balance(x, d)
                      + Shift("AP", "BANK", net, line.date, x, d)
                      + Shift("AP", "TAX_PAYABLE", dec.amount, line.date, x, d)
      BY <1>13
    <3>2. /\ Shift("AP", "BANK", net, line.date, "BANK", d) = - paid
          /\ Shift("AP", "TAX_PAYABLE", dec.amount, line.date, "BANK", d) = 0
          /\ Shift("AP", "BANK", net, line.date, "AP", d) = paid
          /\ Shift("AP", "TAX_PAYABLE", dec.amount, line.date, "AP", d) = taxed
          /\ Shift("AP", "BANK", net, line.date, "TAX_PAYABLE", d) = 0
          /\ Shift("AP", "TAX_PAYABLE", dec.amount, line.date, "TAX_PAYABLE", d) = - taxed
          /\ \A x : x \notin {"BANK", "AP", "TAX_PAYABLE"} =>
               /\ Shift("AP", "BANK", net, line.date, x, d) = 0
               /\ Shift("AP", "TAX_PAYABLE", dec.amount, line.date, x, d) = 0
      BY <1>5 DEF Shift
    <3> HIDE DEF paid, taxed, gross
    <3>3. QED
      BY <2>0, <3>1, <3>2
  <2> HIDE DEF paid, taxed, gross
  <2>10. BankTies(d)'
    BY <2>0, <2>1, <2>2, <2>3, <2>8, <2>9 DEF BankTies, OpeningsSame
  <2>11. SalesTies(d)'
    BY <2>1, <2>2, <2>3, <2>9 DEF SalesTies, OrdersSame
  <2>12. PurchaseTies(d)'
    <3>1. /\ Balance("EXPENSE", d)' = Expensed(d)' + ReleasedBy(d)' + ClaimsOf("bank_fee", d)'
          /\ Balance("PREPAID", d)' = PrepaidBilled(d)' - ReleasedBy(d)'
      BY <2>1, <2>2, <2>3, <2>9 DEF PurchaseTies, BillsSame
    <3>2. Balance("AP", d)' = ClaimsOf("bill_payment", d)' + SettledGross(d)'
                                - Expensed(d)' - PrepaidBilled(d)'
      <4>1. /\ Balance("AP", d) = ClaimsOf("bill_payment", d) + SettledGross(d)
                                   - Expensed(d) - PrepaidBilled(d)
            /\ ClaimsOf("bill_payment", d)' = ClaimsOf("bill_payment", d)
            /\ Expensed(d)' = Expensed(d) /\ PrepaidBilled(d)' = PrepaidBilled(d)
        BY <2>1, <2>2, <2>3 DEF PurchaseTies, BillsSame
      <4>2. QED
        BY <2>0, <2>6, <2>8, <2>9, <4>1
    <3>3. Balance("TAX_PAYABLE", d)' = ClaimsOf("tax_remittance", d)' - SettledTax(d)'
      <4>1. /\ Balance("TAX_PAYABLE", d) = ClaimsOf("tax_remittance", d) - SettledTax(d)
            /\ ClaimsOf("tax_remittance", d)' = ClaimsOf("tax_remittance", d)
        BY <2>1, <2>3 DEF PurchaseTies
      <4>2. QED
        BY <2>0, <2>7, <2>8, <2>9, <4>1
    <3>4. QED
      BY <3>1, <3>2, <3>3 DEF PurchaseTies
  <2>13. QED
    BY <2>10, <2>11, <2>12
<1>17. IsFiniteSet(openings)'
  BY <1>12 DEF FinanceInv
<1>18. QED
  BY <1>9, <1>10, <1>11, <1>14, <1>15, <1>16, <1>17 DEF FinanceInv

-----------------------------------------------------------------------------
(* The invariant. *)

\* Every table is empty at first, and every account too.
LEMMA FinanceInvInit == FinanceInit => FinanceInv
<1> SUFFICES ASSUME FinanceInit PROVE FinanceInv
  OBVIOUS
<1>1. /\ journal = {} /\ claims = {} /\ openings = {} /\ invoices = {}
      /\ deliveries = {} /\ cancellations = {} /\ applications = {}
      /\ bills = {} /\ approved = {} /\ decisions = {} /\ releases = {}
      /\ status = [i \in Invoices |-> "none"]
  BY DEF FinanceInit, ReceivablesInit, PayablesInit, BankInit, LedgerInit
<1>2. BankInv
  BY BankInvInit DEF FinanceInit, ReceivablesInit
<1>3. /\ IsFiniteSet(openings) /\ IsFiniteSet(invoices) /\ IsFiniteSet(deliveries)
      /\ IsFiniteSet(cancellations) /\ IsFiniteSet(applications) /\ IsFiniteSet(bills)
      /\ IsFiniteSet(decisions) /\ IsFiniteSet(releases)
  BY <1>1, FS_EmptySet
<1>4. InvoicesOK /\ DeliveriesOK /\ CancellationsOK /\ ApplicationsOK
  BY <1>1, <1>3 DEF InvoicesOK, DeliveriesOK, CancellationsOK, ApplicationsOK, Statuses
<1>5. BillsOK /\ ClaimsOK /\ KeysOK
  BY <1>1, <1>3 DEF BillsOK, ClaimsOK, KeysOK, Keys
<1>6. SalesLimitsOK /\ PurchaseLimitsOK
  BY <1>1 DEF SalesLimitsOK, PurchaseLimitsOK, PaidOnce, Advances
<1>7. TiesOK
  <2> SUFFICES ASSUME NEW d \in Days PROVE BankTies(d) /\ SalesTies(d) /\ PurchaseTies(d)
    BY DEF TiesOK
  <2>1. Total({}) = 0
    BY TotalEmpty
  <2>2. \A x : Balance(x, d) = 0
    <3>1. \A x, side : {l \in journal : l.account = x /\ l.side = side /\ l.date <= d} = {}
      BY <1>1
    <3>2. \A x, side : Side(x, side, d) = 0
      BY <2>1, <3>1 DEF Side
    <3>3. QED
      BY <3>2 DEF Balance
  <2>3. /\ \A k : ClaimsOf(k, d) = 0 /\ \A o : RefundsOf(o, d) = 0
        /\ \A x : ClaimedLines(x, d) = 0
    <3>1. /\ \A k : {c \in claims : c.kind = k /\ c.line.date <= d} = {}
          /\ \A o : {c \in claims : /\ c.kind = "customer_refund" /\ c.doc[1] = o
                                    /\ c.line.date <= d} = {}
          /\ \A x : {c \in claims : c.line.direction = x /\ c.line.date <= d} = {}
      BY <1>1
    <3>2. QED
      BY <2>1, <3>1 DEF ClaimsOf, RefundsOf, ClaimedLines
  <2>4. \A x : Opened(x, d) = 0
    <3>1. \A x : {o \in Upto(openings, d) : o.direction = x} = {}
      BY <1>1 DEF Upto
    <3>2. QED
      BY <2>1, <3>1 DEF Opened, Moved
  <2>5. Invoiced(d) = 0 /\ Delivered(d) = 0 /\ Reversed(d) = 0 /\ Applied(d) = 0 /\ ReleasedBy(d) = 0
    <3>1. /\ Upto(PostedInvoices, d) = {} /\ Upto(deliveries, d) = {}
          /\ Upto(cancellations, d) = {} /\ Upto(applications, d) = {} /\ Upto(releases, d) = {}
      BY <1>1 DEF Upto, PostedInvoices
    <3>2. QED
      BY <2>1, <3>1 DEF Invoiced, Delivered, Reversed, Applied, ReleasedBy
  <2>6. NeverPaid(d) = 0 /\ Refundable(d) = 0
    <3>1. \A col : Column(Upto(cancellations, d), col) = {}
      BY <1>1 DEF Upto, Column
    <3>2. QED
      BY <2>1, <3>1 DEF NeverPaid, Refundable
  <2>7. PrepaidBilled(d) = 0 /\ Expensed(d) = 0
    <3>1. /\ {b \in Upto(ApprovedBills, d) : Prepaid(b)} = {}
          /\ {b \in Upto(ApprovedBills, d) : ~Prepaid(b)} = {}
      BY <1>1 DEF Upto, ApprovedBills
    <3>2. QED
      BY <2>1, <3>1 DEF PrepaidBilled, Expensed
  <2>8. SettledGross(d) = 0 /\ SettledTax(d) = 0
    <3>1. /\ {b \in bills : \E c \in SettlementsOf(b) : c.line.date <= d} = {}
          /\ {x \in decisions : \E b \in bills : /\ b.id = x.bill
                                                 /\ \E c \in SettlementsOf(b) : c.line.date <= d} = {}
      BY <1>1
    <3>2. QED
      BY <2>1, <3>1 DEF SettledGross, SettledTax
  <2>9. BankTies(d)
    BY <2>2, <2>3, <2>4 DEF BankTies
  <2>10. SalesTies(d)
    BY <2>2, <2>3, <2>5, <2>6 DEF SalesTies
  <2>11. PurchaseTies(d)
    BY <2>2, <2>3, <2>5, <2>7, <2>8 DEF PurchaseTies
  <2>12. QED
    BY <2>9, <2>10, <2>11
<1>8. QED
  BY <1>2, <1>3, <1>4, <1>5, <1>6, <1>7 DEF FinanceInv

\* A stuttering step changes nothing.
LEMMA FinanceStutter ==
  ASSUME FinanceInv, UNCHANGED financeVars
  PROVE  BankBookStep /\ FinanceInv'
<1>1. UNCHANGED <<today, journal, closings, bank, claims, openings, invoices, status, deliveries,
                  cancellations, applications, bills, approved, decisions, releases>>
  BY DEF financeVars, ledgerVars, bankVars, invoiceVars, billVars
<1>2. BankBookStep
  BY <1>1, QuietIsStep, NoClaimStep
     DEF BankBookStep, LedgerStep, RowsStep, FinanceInv, BankInv, LedgerInv
<1>3. QED
  BY <1>1, <1>2, QuietKeeps

\* Every service is a step of the bank book that keeps the invariant.
LEMMA FinanceNextKeeps ==
  ASSUME FinanceInv, [FinanceNext]_financeVars
  PROVE  BankBookStep /\ FinanceInv'
<1>1. CASE NextDay /\ UNCHANGED documentVars
  BY <1>1, NextDayKeeps
<1>2. CASE \E end \in MonthEnds : CloseMonth(end)
  BY <1>2, CloseMonthKeeps
<1>3. CASE \E file \in Statements : ImportBankCsv(file) /\ UNCHANGED <<invoiceVars, billVars>>
  BY <1>3, ImportKeeps
<1>4. CASE BankStep /\ UNCHANGED <<invoiceVars, billVars>>
  BY <1>4, FeeKeeps, FundingKeeps, TransferKeeps, OpeningKeeps DEF BankStep
<1>5. CASE InvoiceStep /\ UNCHANGED billVars
  <2>1. CASE \E i \in Invoices, p \in Parties, date, service \in Days, total \in InvoiceTotals :
               CreateInvoice([id |-> i, party |-> p, date |-> date, service |-> service,
                              amount |-> total])
    <3>1. PICK i \in Invoices, p \in Parties, date, service \in Days, total \in InvoiceTotals :
               CreateInvoice([id |-> i, party |-> p, date |-> date, service |-> service,
                              amount |-> total])
      BY <2>1
    <3>2. [id |-> i, party |-> p, date |-> date, service |-> service, amount |-> total] \in Invoice
      BY ReceivablesAssumption DEF Invoice
    <3>3. QED
      BY <1>5, <3>1, <3>2, CreateInvoiceKeeps
  <2>2. CASE \E v \in invoices : IssueInvoice(v)
    BY <1>5, <2>2, IssueKeeps
  <2>3. CASE \E v \in invoices, date \in Days :
               RecordDelivery(v, date) \/ CancelDraft(v, date) \/ CancelIssued(v, date)
    BY <1>5, <2>3, DeliveryKeeps, CancelDraftKeeps, CancelIssuedKeeps
  <2>4. QED
    BY <1>5, <2>1, <2>2, <2>3 DEF InvoiceStep
<1>6. CASE CollectionStep /\ UNCHANGED billVars
  BY <1>6, ReceiptKeeps, CustomerAdvanceKeeps, ApplyAdvanceKeeps, AdvanceRefundKeeps,
     CancelledRefundKeeps DEF CollectionStep
<1>7. CASE BillStep /\ UNCHANGED invoiceVars
  <2>1. CASE \E i \in Bills, date, service \in Days, category \in {"expense", "prepayment"},
                total \in BillTotals :
               CreateBill([id |-> i, date |-> date, service |-> service, category |-> category,
                           amount |-> total])
    <3>1. PICK i \in Bills, date, service \in Days, category \in {"expense", "prepayment"},
               total \in BillTotals :
               CreateBill([id |-> i, date |-> date, service |-> service, category |-> category,
                           amount |-> total])
      BY <2>1
    <3>2. [id |-> i, date |-> date, service |-> service, category |-> category,
           amount |-> total] \in Bill
      BY PayablesAssumption DEF Bill
    <3>3. QED
      BY <1>7, <3>1, <3>2, CreateBillKeeps
  <2>2. CASE \E b \in bills : ApproveBill(b)
    BY <1>7, <2>2, ApproveKeeps
  <2>3. CASE \E b \in bills, month \in MonthEnds, withheld \in Withholdings :
               ReviewBillTax(b, month, withheld)
    BY <1>7, <2>3, ReviewTaxKeeps
  <2>4. CASE \E b \in bills, date \in Days, amount \in Amounts, reference \in Releases :
               ReleasePrepayment(b, date, amount, reference)
    BY <1>7, <2>4, ReleaseKeeps
  <2>5. QED
    BY <1>7, <2>1, <2>2, <2>3, <2>4 DEF BillStep
<1>8. CASE PaymentStep /\ UNCHANGED invoiceVars
  BY <1>8, PaymentKeeps, WithheldKeeps, RemittanceKeeps DEF PaymentStep
<1>9. CASE UNCHANGED financeVars
  BY <1>9, FinanceStutter
<1>10. QED
  BY <1>1, <1>2, <1>3, <1>4, <1>5, <1>6, <1>7, <1>8, <1>9 DEF FinanceNext

\* The inductive invariant of the finance services.
LEMMA FinanceInvariant == FinanceSpec => [](FinanceInv /\ SnapshotsHold /\ NoLineOverclaimed)
<1>1. FinanceInit => FinanceInv /\ SnapshotsHold /\ NoLineOverclaimed
  BY FinanceInvInit, BankInvInit DEF FinanceInit, ReceivablesInit
<1>2. FinanceInv /\ SnapshotsHold /\ NoLineOverclaimed /\ [FinanceNext]_financeVars
        => (FinanceInv /\ SnapshotsHold /\ NoLineOverclaimed)'
  <2> SUFFICES ASSUME FinanceInv, SnapshotsHold, NoLineOverclaimed, [FinanceNext]_financeVars
               PROVE  (FinanceInv /\ SnapshotsHold /\ NoLineOverclaimed)'
    OBVIOUS
  <2>1. BankBookStep /\ FinanceInv'
    BY FinanceNextKeeps
  <2>2. BankInv /\ LedgerInv /\ LedgerStep
    BY <2>1 DEF FinanceInv, BankInv, BankBookStep
  <2>3. QED
    BY <2>1, <2>2, SnapshotsHoldStep, NoLineOverclaimedStep
<1>3. QED
  BY <1>1, <1>2, PTL DEF FinanceSpec

-----------------------------------------------------------------------------
(* What a step may do to the rows. *)

\* The cost journals of a bill: its approval for a past service, its releases otherwise.
CostLineOK(l) ==
  /\ l.account = "EXPENSE" /\ l.key[1] = "bill" =>
       \E b \in ApprovedBills :
         /\ ~Prepaid(b)
         /\ l = [key |-> <<"bill", b.id>>, date |-> b.date, account |-> "EXPENSE",
                 side |-> "debit", amount |-> b.amount]
  /\ l.account = "EXPENSE" /\ l.key[1] = "prepayment" =>
       \E r \in releases :
         l = [key |-> <<"prepayment", r.reference>>, date |-> r.date, account |-> "EXPENSE",
              side |-> "debit", amount |-> r.amount]

\* Documents grow, and new ones respect the period and the payments they stand on.
SalesShape ==
  /\ invoices \subseteq invoices' /\ PostedInvoices \subseteq PostedInvoices'
  /\ deliveries \subseteq deliveries' /\ cancellations \subseteq cancellations'
  /\ applications \subseteq applications'
  /\ \A i \in Invoices : status[i] \in {"issued", "delivered", "cancelled"}
                           => status'[i] \in {"issued", "delivered", "cancelled"}
  /\ \A v \in invoices' \ invoices : OpenPeriod(v.date)
  /\ \A i \in Invoices : status'[i] = "draft" =>
       status[i] = "draft" \/ \E v \in invoices' \ invoices : v.id = i
  /\ \A x \in deliveries' \ deliveries : \A v \in invoices :
       v.id = x.invoice /\ v.party \in Resellers => PaidBy(v, x.date) >= v.amount
  /\ invoices' = invoices \/ deliveries' = deliveries
PurchaseShape ==
  /\ bills \subseteq bills' /\ approved \subseteq approved'
  /\ decisions \subseteq decisions' /\ releases \subseteq releases'
  /\ \A b \in bills' \ bills : OpenPeriod(b.date)
BankShape ==
  /\ openings \subseteq openings'
  /\ \A line \in bank' \ bank :
       OpenPeriod(line.date) /\ \A o \in OpeningOf(line.account) : o.date <= line.date
  /\ \A o \in openings' \ openings : \A line \in bank : line.account = o.account => o.date <= line.date
  /\ bank' = bank \/ openings' = openings
CloseShape ==
  /\ today' \in {today, today + 1} /\ (today' # today => today < MaxDay)
  /\ \A c \in closings' \ closings : c.end < today /\ ~CloseBlockers(c.end)
  /\ closings' # closings =>
       UNCHANGED <<journal, documentVars>> /\ \E c : closings' = closings \cup {c}
LinesShape == \A l \in journal' \ journal : CostLineOK(l)'
StepShape == SalesShape /\ PurchaseShape /\ BankShape /\ CloseShape /\ LinesShape

\* The lines of a journal carry its key.
LEMMA PostedLines ==
  ASSUME NEW key, NEW date, NEW entries, Post(key, date, entries)
  PROVE  \A l \in journal' \ journal :
           /\ l.key = key /\ l.date = date
           /\ \E e \in entries : l = [key |-> key, date |-> date, account |-> e.account,
                                      side |-> e.side, amount |-> e.amount]
BY DEF Post, Lines

\* A service on bank lines or orders makes no cost journal of a bill.
LEMMA OtherLines ==
  ASSUME NEW key, NEW date, NEW entries, Post(key, date, entries),
         key[1] \notin {"bill", "prepayment"}
  PROVE  LinesShape
BY PostedLines DEF LinesShape, CostLineOK

\* A step that leaves the documents alone has the shape of a step.
LEMMA SameDocuments ==
  /\ UNCHANGED invoiceVars => SalesShape
  /\ UNCHANGED billVars => PurchaseShape
  /\ UNCHANGED <<bank, openings>> => BankShape
  /\ UNCHANGED <<today, closings>> => CloseShape
  /\ UNCHANGED journal => LinesShape
<1>1. UNCHANGED invoiceVars => SalesShape
  BY DEF invoiceVars, SalesShape, PostedInvoices
<1>2. UNCHANGED billVars => PurchaseShape
  BY DEF billVars, PurchaseShape
<1>3. UNCHANGED <<bank, openings>> => BankShape
  BY DEF BankShape
<1>4. UNCHANGED <<today, closings>> => CloseShape
  BY DEF CloseShape
<1>5. UNCHANGED journal => LinesShape
  BY DEF LinesShape
<1>6. QED
  BY <1>1, <1>2, <1>3, <1>4, <1>5

\* A posting on a bank line leaves every document and adds one use of the line.
LEMMA BankPostShape ==
  ASSUME NEW line, NEW direction, NEW amount, NEW kind, NEW reference, NEW doc, NEW entries,
         BankPost(line, direction, amount, kind, reference, doc, entries),
         UNCHANGED <<today, closings, bank, openings, invoiceVars, billVars>>
  PROVE  StepShape
<1>1. Post(<<"bank-event", reference>>, line.date, entries)
  BY DEF BankPost, BankPosted
<1>2. <<"bank-event", reference>>[1] \notin {"bill", "prepayment"}
  OBVIOUS
<1>3. LinesShape
  BY <1>1, <1>2, OtherLines
<1>4. QED
  BY <1>3, SameDocuments DEF StepShape

\* Every step has the shape.
LEMMA FinanceStepShape ==
  ASSUME FinanceInv, [FinanceNext]_financeVars
  PROVE  StepShape
<1>1. CASE NextDay /\ UNCHANGED documentVars
  <2>1. CloseShape
    BY <1>1 DEF NextDay, CloseShape
  <2>2. QED
    BY <1>1, <2>1, SameDocuments DEF StepShape, NextDay, documentVars, bankVars
<1>2. CASE \E end \in MonthEnds : CloseMonth(end)
  <2>1. CloseShape
    BY <1>2 DEF CloseMonth, Close, CloseShape
  <2>2. QED
    BY <1>2, <2>1, SameDocuments DEF StepShape, CloseMonth, Close, documentVars, bankVars
<1>3. CASE \E file \in Statements : ImportBankCsv(file) /\ UNCHANGED <<invoiceVars, billVars>>
  <2>1. BankShape
    BY <1>3 DEF ImportBankCsv, Importable, BankShape
  <2>2. QED
    BY <1>3, <2>1, SameDocuments DEF StepShape, ImportBankCsv
<1>4. CASE BankStep /\ UNCHANGED <<invoiceVars, billVars>>
  <2>1. CASE \E line \in bank, amount \in Amounts, reference \in References :
               ReconcileBankFee(line, amount, reference) \/ ReconcileOwnerFunding(line, amount, reference)
    BY <1>4, <2>1, BankPostShape DEF ReconcileBankFee, ReconcileOwnerFunding
  <2>2. CASE \E out, inc \in bank, amount \in Amounts, reference \in References :
               ReconcileBankTransfer(out, inc, amount, reference)
    <3>1. PICK out, inc, amount, reference : TransferPosted(out, inc, amount, reference)
      BY <2>2 DEF ReconcileBankTransfer
    <3>2. \A l \in journal' \ journal : l.key[1] = "bank-event"
      BY <3>1 DEF TransferPosted, Lines
    <3>3. LinesShape
      BY <3>2 DEF LinesShape, CostLineOK
    <3>4. QED
      BY <1>4, <3>1, <3>3, SameDocuments DEF StepShape, TransferPosted
  <2>3. CASE \E account \in BankAccounts, date \in Days, direction \in {"in", "out"},
                amount \in Amounts : RecordBankOpening(account, date, direction, amount)
    <3>1. PICK account \in BankAccounts, date \in Days, direction \in {"in", "out"},
               amount \in Amounts : RecordBankOpening(account, date, direction, amount)
      BY <2>3
    <3>2. PICK entries : OpeningPosted(account, date, direction, amount, entries)
      BY <3>1 DEF RecordBankOpening
    <3>3. Post(<<"bank-opening", account>>, date, entries)
          /\ <<"bank-opening", account>>[1] \notin {"bill", "prepayment"}
      BY <3>2 DEF OpeningPosted
    <3>4. LinesShape
      BY <3>3, OtherLines
    <3>5. \A line \in bank : line.account = account => date <= line.date
      BY <3>1 DEF RecordBankOpening, FinanceInv, BankInv, BankLine, Days
    <3>6. BankShape
      BY <3>2, <3>5 DEF OpeningPosted, BankShape
    <3>7. QED
      BY <1>4, <3>2, <3>4, <3>6, SameDocuments DEF StepShape, OpeningPosted
  <2>4. QED
    BY <1>4, <2>1, <2>2, <2>3 DEF BankStep
<1>5. CASE InvoiceStep /\ UNCHANGED billVars
  <2>0. /\ status \in [Invoices -> Statuses]
        /\ \A v \in invoices : v.id \in Invoices
        /\ \A v, w \in invoices : v.id = w.id => v = w
    BY DEF FinanceInv, InvoicesOK, Invoice
  <2>1. CASE \E v : v.id \in Invoices /\ CreateInvoice(v)
    <3>1. PICK v : v.id \in Invoices /\ CreateInvoice(v)
      BY <2>1
    <3>2. /\ OpenPeriod(v.date) /\ status[v.id] = "none" /\ invoices' = invoices \cup {v}
          /\ status' = [status EXCEPT ![v.id] = "draft"]
          /\ UNCHANGED <<ledgerVars, bankVars, deliveries, cancellations, applications>>
      BY <3>1 DEF CreateInvoice, DraftCreated
    <3>3. \A i \in Invoices : i # v.id => status'[i] = status[i]
      BY <2>0, <3>2
    <3>4. PostedInvoices \subseteq PostedInvoices'
      BY <2>0, <3>2, <3>3 DEF PostedInvoices
    <3>5. v \notin invoices
      BY <3>1, <3>2 DEF FinanceInv, InvoicesOK
    <3>6. SalesShape
      BY <2>0, <3>2, <3>3, <3>4, <3>5 DEF SalesShape
    <3>7. QED
      BY <1>5, <3>2, <3>6, SameDocuments DEF StepShape, ledgerVars, bankVars
  <2>2. CASE \E v \in invoices : IssueInvoice(v)
    <3>1. PICK v \in invoices : IssueInvoice(v)
      BY <2>2
    <3>2. /\ status[v.id] = "draft" /\ status' = [status EXCEPT ![v.id] = "issued"]
          /\ Post(<<"invoice", v.id, "issue">>, v.date,
                  {Dr("AR", v.amount), Cr("DEFERRED_REVENUE", v.amount)})
          /\ <<"invoice", v.id, "issue">>[1] \notin {"bill", "prepayment"}
          /\ UNCHANGED <<today, closings, bankVars, invoices, deliveries, cancellations, applications>>
      BY <3>1 DEF IssueInvoice
    <3>3. /\ \A i \in Invoices : i # v.id => status'[i] = status[i]
          /\ status'[v.id] = "issued"
      BY <2>0, <3>2
    <3>4. PostedInvoices \subseteq PostedInvoices'
      BY <2>0, <3>2, <3>3 DEF PostedInvoices
    <3>5. SalesShape
      BY <2>0, <3>2, <3>3, <3>4 DEF SalesShape
    <3>6. LinesShape
      BY <3>2, OtherLines
    <3>7. QED
      BY <1>5, <3>2, <3>5, <3>6, SameDocuments DEF StepShape, bankVars
  <2>3. CASE \E v \in invoices, date \in Days : RecordDelivery(v, date)
    <3>1. PICK v \in invoices, date \in Days : RecordDelivery(v, date)
      BY <2>3
    <3>2. /\ status[v.id] = "issued" /\ status' = [status EXCEPT ![v.id] = "delivered"]
          /\ v.party \in Resellers => PaidBy(v, date) >= v.amount
          /\ deliveries' = deliveries \cup {[invoice |-> v.id, date |-> date, amount |-> v.amount]}
          /\ Post(<<"invoice", v.id, "delivery">>, date,
                  {Dr("DEFERRED_REVENUE", v.amount), Cr("REVENUE", v.amount)})
          /\ <<"invoice", v.id, "delivery">>[1] \notin {"bill", "prepayment"}
          /\ UNCHANGED <<today, closings, bankVars, invoices, cancellations, applications>>
      BY <3>1 DEF RecordDelivery, DeliveryPosted
    <3>3. /\ \A i \in Invoices : i # v.id => status'[i] = status[i]
          /\ status'[v.id] = "delivered"
      BY <2>0, <3>2
    <3>4. PostedInvoices \subseteq PostedInvoices'
      BY <2>0, <3>2, <3>3 DEF PostedInvoices
    <3>5. \A x \in deliveries' \ deliveries : \A w \in invoices :
             w.id = x.invoice /\ w.party \in Resellers => PaidBy(w, x.date) >= w.amount
      <4> SUFFICES ASSUME NEW x \in deliveries' \ deliveries, NEW w \in invoices,
                          w.id = x.invoice, w.party \in Resellers
                   PROVE  PaidBy(w, x.date) >= w.amount
        OBVIOUS
      <4>1. x.invoice = v.id /\ x.date = date
        BY <3>2
      <4>2. w = v
        BY <2>0, <4>1
      <4>3. QED
        BY <3>2, <4>1, <4>2
    <3>6. SalesShape
      BY <2>0, <3>2, <3>3, <3>4, <3>5 DEF SalesShape
    <3>7. LinesShape
      BY <3>2, OtherLines
    <3>8. QED
      BY <1>5, <3>2, <3>6, <3>7, SameDocuments DEF StepShape, bankVars
  <2>4. CASE \E v \in invoices, date \in Days : CancelDraft(v, date)
    <3>1. PICK v \in invoices, date \in Days : CancelDraft(v, date)
      BY <2>4
    <3>2. /\ status[v.id] = "draft" /\ status' = [status EXCEPT ![v.id] = "cancelled"]
          /\ UNCHANGED <<ledgerVars, bankVars, invoices, deliveries, cancellations, applications>>
      BY <3>1 DEF CancelDraft
    <3>3. /\ \A i \in Invoices : i # v.id => status'[i] = status[i]
          /\ status'[v.id] = "cancelled"
      BY <2>0, <3>2
    <3>4. PostedInvoices \subseteq PostedInvoices'
      BY <2>0, <3>2, <3>3 DEF PostedInvoices
    <3>5. SalesShape
      BY <2>0, <3>2, <3>3, <3>4 DEF SalesShape
    <3>6. QED
      BY <1>5, <3>2, <3>5, SameDocuments DEF StepShape, ledgerVars, bankVars
  <2>5. CASE \E v \in invoices, date \in Days : CancelIssued(v, date)
    <3>0. PICK v \in invoices, date \in Days : CancelIssued(v, date)
      BY <2>5
    <3>1. PICK unpaid, paid : status[v.id] = "issued" /\ Cancelled(v, date, unpaid, paid)
      BY <3>0 DEF CancelIssued
    <3>2. PICK entries, row :
             /\ status' = [status EXCEPT ![v.id] = "cancelled"]
             /\ cancellations' = cancellations \cup {row} /\ row.invoice = v.id
             /\ Post(<<"invoice", v.id, "cancellation">>, date, entries)
             /\ <<"invoice", v.id, "cancellation">>[1] \notin {"bill", "prepayment"}
             /\ UNCHANGED <<today, closings, bankVars, invoices, deliveries, applications>>
      <4>1. PICK row : row = [invoice |-> v.id, date |-> date, amount |-> v.amount,
                              unpaid |-> unpaid, refundable |-> paid]
        OBVIOUS
      <4>2. row.invoice = v.id
        BY <4>1
      <4>3. QED
        BY <3>1, <4>1, <4>2 DEF Cancelled
    <3>3. /\ \A i \in Invoices : i # v.id => status'[i] = status[i]
          /\ status'[v.id] = "cancelled"
      BY <2>0, <3>2
    <3>4. PostedInvoices \subseteq PostedInvoices'
      BY <2>0, <3>1, <3>2, <3>3 DEF PostedInvoices
    <3>5. SalesShape
      BY <2>0, <3>1, <3>2, <3>3, <3>4 DEF SalesShape
    <3>6. LinesShape
      BY <3>2, OtherLines
    <3>7. QED
      BY <1>5, <3>2, <3>5, <3>6, SameDocuments DEF StepShape, bankVars
  <2>6. ASSUME NEW i \in Invoices, NEW p, NEW date, NEW service, NEW total
        PROVE  [id |-> i, party |-> p, date |-> date, service |-> service,
                amount |-> total].id \in Invoices
    OBVIOUS
  <2>7. QED
    BY <1>5, <2>1, <2>2, <2>3, <2>4, <2>5, <2>6 DEF InvoiceStep
<1>6. CASE CollectionStep /\ UNCHANGED billVars
  <2>1. CASE \E v \in invoices, line \in bank, amount \in Amounts : ReconcileReceipt(v, line, amount)
    <3>1. PICK v, line, amount : ReceiptPosted(v, line, amount)
      BY <2>1 DEF ReconcileReceipt
    <3>2. /\ Post(<<"allocation", v.id, line.account, line.reference>>, line.date,
                  {Dr("BANK", amount), Cr("AR", amount)})
          /\ <<"allocation", v.id, line.account, line.reference>>[1] \notin {"bill", "prepayment"}
          /\ UNCHANGED <<today, closings, bank, openings, invoiceVars>>
      BY <3>1 DEF ReceiptPosted
    <3>3. LinesShape
      BY <3>2, OtherLines
    <3>4. QED
      BY <1>6, <3>2, <3>3, SameDocuments DEF StepShape
  <2>2. CASE \E adv \in Advances, v \in invoices, date \in Days, amount \in Amounts,
        reference \in Applications : ApplyCustomerAdvance(adv, v, date, amount, reference)
    <3>1. PICK adv, v, date, amount, reference : AdvanceApplied(adv, v, date, amount, reference)
      BY <2>2 DEF ApplyCustomerAdvance
    <3>2. /\ Post(<<"advance-apply", reference>>, date,
                  {Dr("CUSTOMER_ADVANCE", amount), Cr("AR", amount)})
          /\ <<"advance-apply", reference>>[1] \notin {"bill", "prepayment"}
          /\ applications \subseteq applications'
          /\ UNCHANGED <<today, closings, bankVars, invoices, status, deliveries, cancellations>>
      BY <3>1 DEF AdvanceApplied
    <3>3. LinesShape
      BY <3>2, OtherLines
    <3>4. SalesShape
      BY <3>2 DEF SalesShape, PostedInvoices
    <3>5. QED
      BY <1>6, <3>2, <3>3, <3>4, SameDocuments DEF StepShape, bankVars
  <2>3. CASE \/ \E p \in Parties, line \in bank, amount \in Amounts, reference \in References :
                   RecordCustomerAdvance(p, line, amount, reference)
             \/ \E line \in bank, amount \in Amounts, reference \in References :
                  \/ \E adv \in Advances : RefundCustomerAdvance(adv, line, amount, reference)
                  \/ \E x \in cancellations : RefundCancelledInvoice(x, line, amount, reference)
    BY <1>6, <2>3, BankPostShape
       DEF RecordCustomerAdvance, RefundCustomerAdvance, RefundCancelledInvoice
  <2>4. QED
    BY <1>6, <2>1, <2>2, <2>3 DEF CollectionStep
<1>7. CASE BillStep /\ UNCHANGED invoiceVars
  <2>1. CASE \E b : CreateBill(b)
    <3>1. PICK b : OpenPeriod(b.date) /\ bills' = bills \cup {b}
                   /\ UNCHANGED <<ledgerVars, bankVars, approved, decisions, releases>>
      BY <2>1 DEF CreateBill, BillCreated
    <3>2. PurchaseShape
      BY <3>1 DEF PurchaseShape
    <3>3. QED
      BY <1>7, <3>1, <3>2, SameDocuments DEF StepShape, ledgerVars, bankVars
  <2>2. CASE \E b \in bills : ApproveBill(b)
    <3>0. PICK b \in bills : ApproveBill(b)
      BY <2>2
    <3>1. PICK account :
             /\ account = (IF Prepaid(b) THEN "PREPAID" ELSE "EXPENSE")
             /\ Post(<<"bill", b.id>>, b.date, {Dr(account, b.amount), Cr("AP", b.amount)})
             /\ approved' = approved \cup {b.id}
             /\ UNCHANGED <<today, closings, bankVars, bills, decisions, releases>>
      BY <3>0 DEF ApproveBill, BillApproved
    <3>2. b \in ApprovedBills' /\ Prepaid(b)' = Prepaid(b)
      BY <3>1 DEF ApprovedBills, Prepaid
    <3>3. ASSUME NEW l \in journal' \ journal PROVE CostLineOK(l)'
      <4>1. /\ l.key = <<"bill", b.id>> /\ l.key[1] = "bill"
            /\ \E e \in {Dr(account, b.amount), Cr("AP", b.amount)} :
                 l = [key |-> <<"bill", b.id>>, date |-> b.date, account |-> e.account,
                      side |-> e.side, amount |-> e.amount]
        BY <3>1, PostedLines
      <4>2. l.account = "EXPENSE" => /\ ~Prepaid(b)
                                     /\ l = [key |-> <<"bill", b.id>>, date |-> b.date,
                                             account |-> "EXPENSE", side |-> "debit",
                                             amount |-> b.amount]
        BY <3>1, <4>1 DEF Dr, Cr
      <4>3. QED
        BY <3>2, <4>1, <4>2 DEF CostLineOK
    <3>4. LinesShape
      BY <3>3 DEF LinesShape
    <3>5. PurchaseShape
      BY <3>1 DEF PurchaseShape
    <3>6. QED
      BY <1>7, <3>1, <3>4, <3>5, SameDocuments DEF StepShape, bankVars
  <2>3. CASE \E b \in bills, month \in MonthEnds, withheld \in Withholdings :
               ReviewBillTax(b, month, withheld)
    <3>1. /\ decisions \subseteq decisions'
          /\ UNCHANGED <<ledgerVars, bankVars, bills, approved, releases>>
      BY <2>3 DEF ReviewBillTax, BillTaxDecided
    <3>2. PurchaseShape
      BY <3>1 DEF PurchaseShape
    <3>3. QED
      BY <1>7, <3>1, <3>2, SameDocuments DEF StepShape, ledgerVars, bankVars
  <2>4. CASE \E b \in bills, date \in Days, amount \in Amounts, reference \in Releases :
               ReleasePrepayment(b, date, amount, reference)
    <3>1. PICK b, date, amount, reference : PrepaymentReleased(b, date, amount, reference)
      BY <2>4 DEF ReleasePrepayment
    <3>2. PICK row :
             /\ row.reference = reference /\ row.date = date /\ row.amount = amount
             /\ releases' = releases \cup {row}
             /\ Post(<<"prepayment", reference>>, date, {Dr("EXPENSE", amount), Cr("PREPAID", amount)})
             /\ UNCHANGED <<today, closings, bankVars, bills, approved, decisions>>
      BY <3>1 DEF PrepaymentReleased
    <3>3. ASSUME NEW l \in journal' \ journal PROVE CostLineOK(l)'
      <4>1. /\ l.key = <<"prepayment", reference>> /\ l.key[1] = "prepayment"
            /\ \E e \in {Dr("EXPENSE", amount), Cr("PREPAID", amount)} :
                 l = [key |-> <<"prepayment", reference>>, date |-> date, account |-> e.account,
                      side |-> e.side, amount |-> e.amount]
        BY <3>2, PostedLines
      <4>2. l.account = "EXPENSE" => l = [key |-> <<"prepayment", row.reference>>, date |-> row.date,
                                          account |-> "EXPENSE", side |-> "debit",
                                          amount |-> row.amount]
        BY <3>2, <4>1 DEF Dr, Cr
      <4>3. row \in releases'
        BY <3>2
      <4>4. QED
        BY <4>1, <4>2, <4>3 DEF CostLineOK
    <3>4. LinesShape
      BY <3>3 DEF LinesShape
    <3>5. PurchaseShape
      BY <3>2 DEF PurchaseShape
    <3>6. QED
      BY <1>7, <3>2, <3>4, <3>5, SameDocuments DEF StepShape, bankVars
  <2>5. QED
    BY <1>7, <2>1, <2>2, <2>3, <2>4 DEF BillStep
<1>8. CASE PaymentStep /\ UNCHANGED invoiceVars
  <2>1. CASE \E b \in bills, line \in bank, amount \in Amounts : ReconcileBillPayment(b, line, amount)
    <3>1. PICK b, line, amount : PaymentPosted(b, line, amount)
      BY <2>1 DEF ReconcileBillPayment
    <3>2. /\ Post(<<"bill-payment", b.id, line.account, line.reference>>, line.date,
                  {Dr("AP", amount), Cr("BANK", amount)})
          /\ <<"bill-payment", b.id, line.account, line.reference>>[1] \notin {"bill", "prepayment"}
          /\ UNCHANGED <<today, closings, bank, openings, billVars>>
      BY <3>1 DEF PaymentPosted
    <3>3. LinesShape
      BY <3>2, OtherLines
    <3>4. QED
      BY <1>8, <3>2, <3>3, SameDocuments DEF StepShape
  <2>2. CASE \E b \in bills, line \in bank : ReconcileWithheldBillPayment(b, line)
    <3>1. PICK b, line, entries :
             /\ Post(<<"bank-event", "withheld-bill", b.id>>, line.date, entries)
             /\ <<"bank-event", "withheld-bill", b.id>>[1] \notin {"bill", "prepayment"}
             /\ UNCHANGED <<today, closings, bank, openings, billVars>>
      BY <2>2 DEF ReconcileWithheldBillPayment
    <3>2. LinesShape
      BY <3>1, OtherLines
    <3>3. QED
      BY <1>8, <3>1, <3>2, SameDocuments DEF StepShape
  <2>3. CASE \E d \in decisions, line \in bank, amount \in Amounts, reference \in References :
               ReconcileTaxRemittance(d, line, amount, reference)
    BY <1>8, <2>3, BankPostShape DEF ReconcileTaxRemittance, TaxRemitted
  <2>4. QED
    BY <1>8, <2>1, <2>2, <2>3 DEF PaymentStep
<1>9. CASE UNCHANGED financeVars
  BY <1>9, SameDocuments DEF StepShape, financeVars, ledgerVars, bankVars
<1>10. QED
  BY <1>1, <1>2, <1>3, <1>4, <1>5, <1>6, <1>7, <1>8, <1>9 DEF FinanceNext

-----------------------------------------------------------------------------
(* The invariants that say what a step may do. *)

\* The second part of the inductive invariant: what the journals of a bill are, what a
\* reseller had paid, which bank lines an account has and which months are closed.
CostLines == \A l \in journal : CostLineOK(l)
ResellersPaid ==
  \A x \in deliveries : \A v \in invoices :
    v.id = x.invoice /\ v.party \in Resellers => PaidBy(v, x.date) >= v.amount
OpeningsFirst ==
  \A o \in openings : \A line \in bank : line.account = o.account => o.date <= line.date
Calendar ==
  /\ today <= MaxDay \/ today = 1
  /\ \A c \in closings : c.end < today
  /\ closings = {} \/ \E c \in closings : \A e \in closings : e.end <= c.end
HistoryInv ==
  /\ FinanceInv /\ SnapshotsHold /\ NoLineOverclaimed
  /\ CostLines /\ ResellersPaid /\ OpeningsFirst /\ Calendar /\ ClosedMonthsStayComplete

\* New cost journals belong to their bill, old ones still do.
LEMMA CostLinesKept ==
  ASSUME CostLines, PurchaseShape, LinesShape
  PROVE  CostLines'
<1>1. \A b \in ApprovedBills : b \in ApprovedBills' /\ Prepaid(b)' = Prepaid(b)
  BY DEF PurchaseShape, ApprovedBills, Prepaid
<1>2. \A l : CostLineOK(l) => CostLineOK(l)'
  BY <1>1 DEF CostLineOK, PurchaseShape
<1>3. QED
  BY <1>2 DEF CostLines, LinesShape

\* What was paid by a day only grows.
LEMMA PaidByGrows ==
  ASSUME FinanceInv, FinanceInv', claims \subseteq claims', applications \subseteq applications',
         NEW v, NEW d
  PROVE  PaidBy(v, d) \in Nat /\ PaidBy(v, d)' \in Nat /\ PaidBy(v, d) <= PaidBy(v, d)'
<1> DEFINE c == {x \in claims : x.doc = <<"receipt", v.id>> /\ x.line.date <= d}
           c2 == {x \in claims' : x.doc = <<"receipt", v.id>> /\ x.line.date <= d}
           a == {x \in applications : x.invoice = v.id /\ x.date <= d}
           a2 == {x \in applications' : x.invoice = v.id /\ x.date <= d}
<1>1. /\ IsFiniteSet(claims') /\ \A x \in claims' : x.amount \in Nat
      /\ IsFiniteSet(applications') /\ \A x \in applications' : x.amount \in Nat
  BY DEF FinanceInv, BankInv, ClaimOK, ApplicationsOK, ApplicationOK
<1>2. /\ c \in SUBSET claims' /\ c2 \in SUBSET claims' /\ c \in SUBSET c2
      /\ a \in SUBSET applications' /\ a2 \in SUBSET applications' /\ a \in SUBSET a2
  OBVIOUS
<1>3. PaidBy(v, d) = Total(c) + Total(a) /\ PaidBy(v, d)' = Total(c2) + Total(a2)
  BY DEF PaidBy
<1> HIDE DEF c, c2, a, a2
<1>4. /\ Total(c) \in Nat /\ Total(c2) \in Nat /\ Total(a) \in Nat /\ Total(a2) \in Nat
      /\ IsFiniteSet(c2) /\ IsFiniteSet(a2)
  BY <1>1, <1>2, TotalType
<1>5. Total(c) <= Total(c2)
  BY <1>1, <1>2, <1>4, TotalMonotone
<1>6. Total(a) <= Total(a2)
  BY <1>1, <1>2, <1>4, TotalMonotone
<1>7. QED
  BY <1>3, <1>4, <1>5, <1>6

\* A reseller's delivered order stays paid as of its day.
LEMMA ResellersPaidKept ==
  ASSUME FinanceInv, FinanceInv', ResellersPaid, SalesShape, claims \subseteq claims'
  PROVE  ResellersPaid'
<1> SUFFICES ASSUME NEW x \in deliveries', NEW v \in invoices', v.id = x.invoice,
                    v.party \in Resellers
             PROVE  PaidBy(v, x.date)' >= v.amount
  BY DEF ResellersPaid
<1>1. /\ PaidBy(v, x.date) \in Nat /\ PaidBy(v, x.date)' \in Nat
      /\ PaidBy(v, x.date) <= PaidBy(v, x.date)' /\ v.amount \in Nat
  BY PaidByGrows DEF SalesShape, FinanceInv, InvoicesOK, Invoice
<1>2. v \in invoices /\ PaidBy(v, x.date) >= v.amount
  <2>1. CASE x \in deliveries
    <3>1. PICK w \in invoices : w.id = x.invoice
      BY <2>1 DEF FinanceInv, DeliveriesOK, DeliveryOK
    <3>2. w = v
      BY <3>1 DEF SalesShape, FinanceInv, InvoicesOK
    <3>3. QED
      BY <2>1, <3>1, <3>2 DEF ResellersPaid
  <2>2. CASE x \notin deliveries
    BY <2>2 DEF SalesShape
  <2>3. QED
    BY <2>1, <2>2
<1>3. QED
  BY <1>1, <1>2

\* The opening of an account stays before its bank lines.
LEMMA OpeningsFirstKept ==
  ASSUME OpeningsFirst, BankShape, bank \subseteq bank'
  PROVE  OpeningsFirst'
<1> SUFFICES ASSUME NEW o \in openings', NEW line \in bank', line.account = o.account
             PROVE  o.date <= line.date
  BY DEF OpeningsFirst
<1>1. CASE o \in openings /\ line \in bank
  BY <1>1 DEF OpeningsFirst
<1>2. CASE o \in openings /\ line \notin bank
  BY <1>2 DEF BankShape, OpeningOf
<1>3. CASE o \notin openings
  BY <1>3 DEF BankShape
<1>4. QED
  BY <1>1, <1>2, <1>3

\* Closed months lie before today, and there is a last one.
LEMMA CalendarKept ==
  ASSUME Calendar, CloseShape, BankInv, BankInv'
  PROVE  Calendar'
<1>1. today \in Nat /\ today' \in Nat /\ MaxDay \in Nat /\ today <= today'
  BY LedgerAssumption DEF CloseShape, BankInv, LedgerInv
<1>2. \A c \in closings' : c.end \in Nat
  BY LedgerAssumption DEF BankInv, LedgerInv
<1>3. today' <= MaxDay \/ today' = 1
  BY <1>1 DEF Calendar, CloseShape
<1>4. \A c \in closings' : c.end < today'
  BY <1>1, <1>2 DEF Calendar, CloseShape
<1>5. closings' = {} \/ \E c \in closings' : \A e \in closings' : e.end <= c.end
  <2>1. CASE closings' = closings
    BY <2>1 DEF Calendar
  <2>2. CASE closings' # closings
    <3>1. PICK new : closings' = closings \cup {new}
      BY <2>2 DEF CloseShape
    <3>2. CASE closings = {}
      BY <1>2, <3>1, <3>2
    <3>3. CASE closings # {}
      <4>1. PICK last \in closings : \A e \in closings : e.end <= last.end
        BY <3>3 DEF Calendar
      <4>2. CASE new.end <= last.end
        BY <3>1, <4>1, <4>2
      <4>3. CASE ~(new.end <= last.end)
        <5>1. last.end \in Nat /\ new.end \in Nat /\ last.end < new.end
          BY <1>2, <3>1, <4>1, <4>3
        <5>2. \A e \in closings' : e.end <= new.end
          BY <1>2, <3>1, <4>1, <5>1
        <5>3. QED
          BY <3>1, <5>2
      <4>4. QED
        BY <4>2, <4>3
    <3>4. QED
      BY <3>2, <3>3
  <2>3. QED
    BY <2>1, <2>2
<1>6. QED
  BY <1>3, <1>4, <1>5 DEF Calendar

\* A closed month's bank lines stay used up, whatever is imported or claimed later.
LEMMA BankStaysSettled ==
  ASSUME BankInv, BankBookStep, NoLineOverclaimed', BankShape,
         NEW end \in ClosedMonths, ~BankBlocked(end)
  PROVE  ~BankBlocked(end)'
<1> SUFFICES ASSUME NEW line \in bank', line.date <= end
             PROVE  Unallocated(line)' = 0
  BY DEF BankBlocked, PendingBankTransactions
<1>1. line \in bank
  <2>1. CASE line \notin bank
    BY <2>1 DEF BankShape, OpenPeriod, Frozen, ClosedMonths
  <2>2. QED
    BY <2>1
<1>2. Unallocated(line) = 0
  BY <1>1 DEF BankBlocked, PendingBankTransactions
<1>3. Claimed(line) <= Claimed(line)' /\ Claimed(line) \in Nat /\ Claimed(line)' \in Nat
  <2> DEFINE old == {c \in claims : c.line = line}
             new == {c \in claims' : c.line = line}
  <2>1. BankInv'
    BY BankInvStep
  <2>2. IsFiniteSet(claims') /\ \A c \in claims' : c.amount \in Nat
    BY <2>1 DEF BankInv, ClaimOK
  <2>3. old \in SUBSET new /\ new \in SUBSET claims' /\ old \in SUBSET claims'
    BY DEF BankBookStep, ClaimStep
  <2>4. Claimed(line) = Total(old) /\ Claimed(line)' = Total(new)
    BY DEF Claimed
  <2> HIDE DEF old, new
  <2>5. Total(old) \in Nat /\ Total(new) \in Nat /\ IsFiniteSet(new)
    BY <2>2, <2>3, TotalType
  <2>6. Total(old) <= Total(new)
    BY <2>2, <2>3, <2>5, TotalMonotone
  <2>7. QED
    BY <2>4, <2>5, <2>6
<1>4. Claimed(line)' <= line.amount /\ line.amount \in Nat
  BY <1>1 DEF NoLineOverclaimed, BankInv, BankLine
<1>5. Claimed(line) = line.amount
  BY <1>2, <1>3, <1>4 DEF Unallocated
<1>6. QED
  BY <1>3, <1>4, <1>5 DEF Unallocated

\* No draft order turns up in a closed month.
LEMMA NoLateDraft ==
  ASSUME FinanceInv, FinanceInv', SalesShape, NEW end \in ClosedMonths,
         ~ \E v \in invoices : status[v.id] = "draft" /\ v.date <= end
  PROVE  ~ \E v \in invoices' : status'[v.id] = "draft" /\ v.date <= end
<1> SUFFICES ASSUME NEW v \in invoices', status'[v.id] = "draft", v.date <= end
             PROVE  FALSE
  OBVIOUS
<1>1. v.id \in Invoices /\ \A w \in invoices' : w.id = v.id => w = v
  BY DEF FinanceInv, InvoicesOK, Invoice
<1>2. ~OpenPeriod(v.date)
  BY DEF OpenPeriod, Frozen, ClosedMonths
<1>3. CASE v \in invoices
  <2>1. status[v.id] # "draft"
    BY <1>3
  <2>2. \E w \in invoices' \ invoices : w.id = v.id
    BY <1>1, <2>1 DEF SalesShape
  <2>3. QED
    BY <1>1, <1>3, <2>2
<1>4. CASE v \notin invoices
  BY <1>2, <1>4 DEF SalesShape
<1>5. QED
  BY <1>3, <1>4

\* A finished bill stays finished: it keeps its approval, its one tax decision, its
\* settlement and its releases.
LEMMA BillStaysFinished ==
  ASSUME FinanceInv, FinanceInv', PurchaseShape, claims \subseteq claims',
         NEW b \in bills, NEW end, ~BillUnfinished(b, end)
  PROVE  ~BillUnfinished(b, end)'
<1>1. b.id \in approved'
  BY DEF BillUnfinished, PurchaseShape
<1>2. PICK d \in DecisionsOn(b) : TRUE
  BY DEF BillUnfinished
<1>3. d \in DecisionsOn(b)' /\ \A e \in DecisionsOn(b)' : e = d
  BY <1>2 DEF DecisionsOn, PurchaseShape, FinanceInv, BillsOK
<1>4. \A c \in SettlementsOf(b) : c \in SettlementsOf(b)'
  BY DEF SettlementsOf
<1>5. Released(b, end) \in Nat /\ Released(b, end)' \in Nat /\ Released(b, end) <= Released(b, end)'
  <2> DEFINE old == {r \in releases : r.bill = b.id /\ r.date <= end}
             new == {r \in releases' : r.bill = b.id /\ r.date <= end}
  <2>1. IsFiniteSet(releases') /\ \A r \in releases' : r.amount \in Nat
    BY DEF FinanceInv, BillsOK, ReleaseOK
  <2>2. old \in SUBSET new /\ new \in SUBSET releases' /\ old \in SUBSET releases'
    BY DEF PurchaseShape
  <2>3. Released(b, end) = Total(old) /\ Released(b, end)' = Total(new)
    BY DEF Released
  <2> HIDE DEF old, new
  <2>4. Total(old) \in Nat /\ Total(new) \in Nat /\ IsFiniteSet(new)
    BY <2>1, <2>2, TotalType
  <2>5. Total(old) <= Total(new)
    BY <2>1, <2>2, <2>4, TotalMonotone
  <2>6. QED
    BY <2>3, <2>4, <2>5
<1>6. b.amount \in Nat
  BY DEF FinanceInv, BillsOK, Bill
<1>7. ~(Prepaid(b)' /\ b.service <= end /\ Released(b, end)' < b.amount)
  BY <1>5, <1>6 DEF BillUnfinished, Prepaid
<1>8. ~(/\ \E e \in DecisionsOn(b)' : e.amount > 0 /\ e.month <= end
        /\ ~ \E c \in SettlementsOf(b)' : c.line.date <= end)
  BY <1>2, <1>3, <1>4 DEF BillUnfinished
<1>9. QED
  BY <1>1, <1>3, <1>7, <1>8 DEF BillUnfinished

\* What close_month found complete stays complete.
LEMMA ClosedMonthsKept ==
  ASSUME HistoryInv, BankBookStep, FinanceInv', NoLineOverclaimed', StepShape
  PROVE  ClosedMonthsStayComplete'
<1> SUFFICES ASSUME NEW end \in ClosedMonths'
             PROVE  /\ ~BankBlocked(end)'
                    /\ ~ \E v \in invoices' : status'[v.id] = "draft" /\ v.date <= end
                    /\ \A b \in bills' : b.date <= end => ~BillUnfinished(b, end)'
  BY DEF ClosedMonthsStayComplete, ClosedMonthsStaySettled, ClosedMonthsStayFinished
<1>1. CASE end \in ClosedMonths
  <2>1. /\ ~BankBlocked(end)
        /\ ~ \E v \in invoices : status[v.id] = "draft" /\ v.date <= end
        /\ \A b \in bills : b.date <= end => ~BillUnfinished(b, end)
    BY <1>1 DEF HistoryInv, ClosedMonthsStayComplete, ClosedMonthsStaySettled,
                ClosedMonthsStayFinished
  <2>2. ~BankBlocked(end)'
    BY <1>1, <2>1, BankStaysSettled DEF HistoryInv, FinanceInv, StepShape
  <2>3. ~ \E v \in invoices' : status'[v.id] = "draft" /\ v.date <= end
    BY <1>1, <2>1, NoLateDraft DEF HistoryInv, StepShape
  <2>4. ASSUME NEW b \in bills', b.date <= end PROVE ~BillUnfinished(b, end)'
    <3>1. ~OpenPeriod(b.date)
      BY <1>1, <2>4 DEF OpenPeriod, Frozen, ClosedMonths
    <3>2. b \in bills
      BY <3>1 DEF StepShape, PurchaseShape
    <3>3. QED
      BY <2>1, <2>4, <3>2, BillStaysFinished
         DEF HistoryInv, StepShape, BankBookStep, ClaimStep
  <2>5. QED
    BY <2>2, <2>3, <2>4
<1>2. CASE end \notin ClosedMonths
  <2>1. PICK c \in closings' \ closings : c.end = end
    BY <1>2 DEF ClosedMonths
  <2>2. ~CloseBlockers(end) /\ UNCHANGED documentVars
    BY <2>1 DEF StepShape, CloseShape
  <2>3. UNCHANGED <<bank, claims, openings, invoices, status, deliveries, cancellations,
                    applications, bills, approved, decisions, releases>>
    BY <2>2 DEF documentVars, bankVars, invoiceVars, billVars
  <2>4. ~BankBlocked(end)'
    BY <2>2, <2>3 DEF CloseBlockers, BankBlocked, PendingBankTransactions, Unallocated, Claimed
  <2>5. ~ \E v \in invoices' : status'[v.id] = "draft" /\ v.date <= end
    BY <2>2, <2>3 DEF CloseBlockers, ReceivablesBlocked
  <2>6. \A b \in bills' : b.date <= end => ~BillUnfinished(b, end)'
    <3>1. \A b \in bills : b.date <= end => ~BillUnfinished(b, end)
      BY <2>2 DEF CloseBlockers, PayablesBlocked
    <3>2. \A b : BillUnfinished(b, end)' = BillUnfinished(b, end)
      BY <2>3 DEF BillUnfinished, DecisionsOn, SettlementsOf, Released, Prepaid
    <3>3. QED
      BY <2>3, <3>1, <3>2
  <2>7. QED
    BY <2>4, <2>5, <2>6
<1>3. QED
  BY <1>1, <1>2

\* The whole invariant: amounts, limits and history.
LEMMA HistoryInvariant == FinanceSpec => []HistoryInv
<1>1. FinanceInit => HistoryInv
  <2> SUFFICES ASSUME FinanceInit PROVE HistoryInv
    OBVIOUS
  <2>1. FinanceInv /\ SnapshotsHold /\ NoLineOverclaimed
    BY FinanceInvInit, BankInvInit DEF FinanceInit, ReceivablesInit
  <2>2. today = 1 /\ journal = {} /\ closings = {} /\ deliveries = {} /\ openings = {}
    BY DEF FinanceInit, ReceivablesInit, BankInit, LedgerInit
  <2>3. ClosedMonthsStayComplete
    BY <2>2 DEF ClosedMonthsStayComplete, ClosedMonthsStaySettled, ClosedMonthsStayFinished,
                ClosedMonths
  <2>4. QED
    BY <2>1, <2>2, <2>3 DEF HistoryInv, CostLines, ResellersPaid, OpeningsFirst, Calendar
<1>2. HistoryInv /\ [FinanceNext]_financeVars => HistoryInv'
  <2> SUFFICES ASSUME HistoryInv, [FinanceNext]_financeVars PROVE HistoryInv'
    OBVIOUS
  <2>1. FinanceInv /\ BankInv
    BY DEF HistoryInv, FinanceInv
  <2>2. BankBookStep /\ FinanceInv' /\ BankInv'
    BY <2>1, FinanceNextKeeps DEF FinanceInv
  <2>3. StepShape
    BY <2>1, FinanceStepShape
  <2>4. SnapshotsHold' /\ NoLineOverclaimed'
    BY <2>1, <2>2, SnapshotsHoldStep, NoLineOverclaimedStep DEF HistoryInv, BankInv, BankBookStep
  <2>5. claims \subseteq claims' /\ bank \subseteq bank'
    BY <2>2 DEF BankBookStep, ClaimStep, RowsStep
  <2>6. CostLines' /\ ResellersPaid' /\ OpeningsFirst' /\ Calendar'
    BY <2>1, <2>2, <2>3, <2>5, CostLinesKept, ResellersPaidKept, OpeningsFirstKept, CalendarKept
       DEF HistoryInv, StepShape
  <2>7. ClosedMonthsStayComplete'
    BY <2>2, <2>3, <2>4, ClosedMonthsKept
  <2>8. QED
    BY <2>2, <2>4, <2>6, <2>7 DEF HistoryInv
<1>3. QED
  BY <1>1, <1>2, PTL DEF FinanceSpec

-----------------------------------------------------------------------------
(* Theorems that follow from the invariant part by part. *)

\* Rows have their columns and agree with the status of their document.
THEOREM FinanceTypeCorrect == FinanceSpec => [](ReceivablesTypeOK /\ PayablesTypeOK)
<1>1. HistoryInv => ReceivablesTypeOK /\ PayablesTypeOK
  <2> SUFFICES ASSUME FinanceInv PROVE ReceivablesTypeOK /\ PayablesTypeOK
    BY DEF HistoryInv
  <2>1. BankTypeOK
    BY BankInvImpliesTypeOK DEF FinanceInv
  <2>2. applications \subseteq [reference : Applications, advance : ClaimKeys, invoice : Invoices,
                                date : Days, amount : Nat \ {0}]
    <3> SUFFICES ASSUME NEW a \in applications
                 PROVE  a \in [reference : Applications, advance : ClaimKeys, invoice : Invoices,
                               date : Days, amount : Nat \ {0}]
      OBVIOUS
    <3>1. ApplicationOK(a)
      BY DEF FinanceInv, ApplicationsOK
    <3>2. a.advance \in ClaimKeys /\ a.invoice \in Invoices
      BY <3>1 DEF ApplicationOK, Advances, ClaimKeys, PostedInvoices, FinanceInv, InvoicesOK, Invoice
    <3>3. QED
      BY <3>1, <3>2 DEF ApplicationOK
  <2>3. /\ \A d \in deliveries : status[d.invoice] = "delivered"
        /\ \A x \in cancellations : status[x.invoice] = "cancelled" /\ x.amount = x.unpaid + x.refundable
    BY DEF FinanceInv, DeliveriesOK, DeliveryOK, CancellationsOK, CancellationOK
  <2>4. ReceivablesTypeOK
    BY <2>1, <2>2, <2>3 DEF ReceivablesTypeOK, FinanceInv, InvoicesOK, Statuses
  <2>5. approved \subseteq {b.id : b \in bills} /\ bills \subseteq Bill
    BY DEF FinanceInv, BillsOK
  <2>6. decisions \subseteq [bill : approved, month : MonthEnds, amount : Nat]
    <3> SUFFICES ASSUME NEW d \in decisions
                 PROVE  d \in [bill : approved, month : MonthEnds, amount : Nat]
      OBVIOUS
    <3>1. DecisionOK(d)
      BY DEF FinanceInv, BillsOK
    <3>2. d.bill \in approved
      BY <3>1 DEF DecisionOK, ApprovedBills
    <3>3. QED
      BY <3>1, <3>2 DEF DecisionOK
  <2>7. releases \subseteq [reference : Releases, bill : {b.id : b \in {x \in bills : Prepaid(x)}},
                            date : Days, amount : Nat \ {0}]
    <3> SUFFICES ASSUME NEW r \in releases
                 PROVE  r \in [reference : Releases, bill : {b.id : b \in {x \in bills : Prepaid(x)}},
                               date : Days, amount : Nat \ {0}]
      OBVIOUS
    <3>1. ReleaseOK(r)
      BY DEF FinanceInv, BillsOK
    <3>2. r.bill \in {b.id : b \in {x \in bills : Prepaid(x)}}
      BY <3>1 DEF ReleaseOK, ApprovedBills
    <3>3. QED
      BY <3>1, <3>2 DEF ReleaseOK
  <2>8. QED
    BY <2>1, <2>4, <2>5, <2>6, <2>7 DEF PayablesTypeOK
<1>2. QED
  BY <1>1, HistoryInvariant, PTL

\* However sales, purchases and bank services interleave, no bank line is used beyond its
\* amount.
THEOREM FinanceClaimsWithinLines == FinanceSpec => []NoLineOverclaimed
<1>1. HistoryInv => NoLineOverclaimed
  BY DEF HistoryInv
<1>2. QED
  BY <1>1, HistoryInvariant, PTL

\* The balances a month was closed with stay true, whatever is posted later.
THEOREM FinanceSnapshotsHold == FinanceSpec => []SnapshotsHold
<1>1. HistoryInv => SnapshotsHold
  BY DEF HistoryInv
<1>2. QED
  BY <1>1, HistoryInvariant, PTL

\* No service on documents changes a line of a closed month or reopens a month.
THEOREM FinanceHistoryFrozen == FinanceSpec => HistoryFrozen
<1>1. HistoryInv /\ [FinanceNext]_financeVars
        => [/\ closings \subseteq closings'
            /\ \A c \in closings : Upto(journal', c.end) = Upto(journal, c.end)]_ledgerVars
  <2> SUFFICES ASSUME HistoryInv, [FinanceNext]_financeVars
               PROVE  /\ closings \subseteq closings'
                      /\ \A c \in closings : Upto(journal', c.end) = Upto(journal, c.end)
    OBVIOUS
  <2>1. FinanceInv /\ LedgerInv
    BY DEF HistoryInv, FinanceInv, BankInv
  <2>2. LedgerStep
    BY <2>1, FinanceNextKeeps DEF BankBookStep
  <2>3. QED
    BY <2>1, <2>2, FrozenLinesStep
<1>2. QED
  BY <1>1, HistoryInvariant, PTL DEF FinanceSpec, HistoryFrozen

\* What close_month found complete on both sides of the books stays complete.
THEOREM ClosedMonthsAlwaysComplete == FinanceSpec => []ClosedMonthsStayComplete
<1>1. HistoryInv => ClosedMonthsStayComplete
  BY DEF HistoryInv
<1>2. QED
  BY <1>1, HistoryInvariant, PTL

\* Profit can be derived without the journal: revenue, expense and equity equal the
\* deliveries, bills, releases, fees, openings and fundings of every day.
THEOREM ResultAlwaysTiesOut == FinanceSpec => []ResultTiesOut
<1>1. HistoryInv => ResultTiesOut
  BY DEF HistoryInv, FinanceInv, TiesOK, BankTies, SalesTies, PurchaseTies, ResultTiesOut,
         Delivered, Expensed, ReleasedBy, Opened
<1>2. QED
  BY <1>1, HistoryInvariant, PTL

\* A day sees tax of a bill remitted only when its supplier was paid net by then.
LEMMA RemittedAfterWithheld ==
  ASSUME FinanceInv
  PROVE  RemittancesFollowWithholding
<1> SUFFICES ASSUME NEW d \in decisions, NEW day \in Days
             PROVE  Total({c \in claims : c.doc = <<"obligation", d.bill>> /\ c.line.date <= day})
                      <= (IF \E c \in claims : /\ c.kind = "withheld_supplier" /\ c.line.date <= day
                                               /\ c.doc = <<"bill", d.bill>>
                          THEN d.amount ELSE 0)
  BY DEF RemittancesFollowWithholding
<1> DEFINE early == {c \in claims : c.doc = <<"obligation", d.bill>> /\ c.line.date <= day}
           all == {c \in claims : c.doc = <<"obligation", d.bill>>}
<1>1. CASE \E c \in claims : /\ c.kind = "withheld_supplier" /\ c.line.date <= day
                             /\ c.doc = <<"bill", d.bill>>
  <2>1. IsFiniteSet(claims) /\ \A c \in claims : c.amount \in Nat
    BY DEF FinanceInv, BankInv, ClaimOK
  <2>2. early \in SUBSET all /\ all \in SUBSET claims
    OBVIOUS
  <2>3. Total(all) <= d.amount
    BY DEF FinanceInv, PurchaseLimitsOK, RemittedFor
  <2>4. d.amount \in Nat
    BY DEF FinanceInv, BillsOK, DecisionOK
  <2> HIDE DEF early, all
  <2>5. Total(all) \in Nat /\ IsFiniteSet(all)
    BY <2>1, <2>2, TotalType
  <2>6. Total(early) <= Total(all) /\ Total(early) \in Nat
    BY <2>1, <2>2, <2>5, TotalMonotone, TotalType
  <2>7. Total(early) <= d.amount
    BY <2>3, <2>4, <2>5, <2>6
  <2>8. QED
    BY <1>1, <2>7 DEF early
<1>2. CASE ~ \E c \in claims : /\ c.kind = "withheld_supplier" /\ c.line.date <= day
                               /\ c.doc = <<"bill", d.bill>>
  <2>1. ASSUME NEW c \in early PROVE FALSE
    <3>1. c.doc[1] = "obligation" /\ c.doc[2] = d.bill /\ c.line.date <= day /\ UseOK(c)
      BY DEF FinanceInv, ClaimsOK
    <3>2. PICK e \in decisions, s \in claims :
              /\ c.doc = <<"obligation", e.bill>>
              /\ s.kind = "withheld_supplier" /\ s.doc = <<"bill", e.bill>>
              /\ s.line.date <= c.line.date
      BY <3>1 DEF UseOK, SalesUse, PurchaseUse, BankUse
    <3>3. e.bill = d.bill
      BY <3>1, <3>2
    <3>4. s.line.date \in Nat /\ c.line.date \in Nat /\ day \in Nat
      BY DEF FinanceInv, BankInv, ClaimOK, BankLine, Days
    <3>5. s.line.date <= day
      BY <3>1, <3>2, <3>4
    <3>6. QED
      BY <1>2, <3>2, <3>3, <3>5
  <2>2. early = {}
    BY <2>1
  <2>3. Total(early) = 0
    BY <2>2, TotalEmpty
  <2>4. QED
    BY <1>2, <2>3
<1>3. QED
  BY <1>1, <1>2

\* No day sees more tax of a bill remitted than was withheld from its supplier by then.
THEOREM RemittancesAlwaysFollow == FinanceSpec => []RemittancesFollowWithholding
<1>1. HistoryInv => RemittancesFollowWithholding
  BY RemittedAfterWithheld DEF HistoryInv
<1>2. QED
  BY <1>1, HistoryInvariant, PTL

\* What a party is refunded of an order and what the order collects never pass its total
\* (the two last parts of NoPartyOverrefunded, by order).
LEMMA PaidWithin ==
  ASSUME FinanceInv
  PROVE  /\ \A v : Paid(v) \in Nat
         /\ \A v \in invoices : Paid(v) <= v.amount
         /\ \A x \in cancellations : \A v \in invoices : v.id = x.invoice => Paid(v) = x.refundable
<1>1. \A v : Paid(v) \in Nat
  <2> SUFFICES ASSUME NEW v PROVE Paid(v) \in Nat
    OBVIOUS
  <2>1. Paid(v) = AllForDoc(<<"receipt", v.id>>) + AppliedTo(v.id)
    BY LimitsByDoc
  <2>2. AllForDoc(<<"receipt", v.id>>) \in Nat /\ AppliedTo(v.id) \in Nat
    BY DocSumTypes, AppliedTypes
  <2>3. QED
    BY <2>1, <2>2
<1>2. QED
  BY <1>1 DEF FinanceInv, SalesLimitsOK

\* A reseller's order that counts as revenue had been paid in full by the day of delivery.
THEOREM ResellersPayBeforeDelivery == FinanceSpec => []ResellerPaidByDelivery
<1>1. HistoryInv => ResellerPaidByDelivery
  <2> SUFFICES ASSUME HistoryInv, NEW d \in deliveries, NEW v \in invoices,
                      v.id = d.invoice, v.party \in Resellers
               PROVE  PaidBy(v, d.date) = v.amount
    BY DEF ResellerPaidByDelivery
  <2>1. PaidBy(v, d.date) >= v.amount /\ Paid(v) <= v.amount /\ v.amount \in Nat /\ Paid(v) \in Nat
    BY PaidWithin DEF HistoryInv, ResellersPaid, FinanceInv, InvoicesOK, Invoice
  <2> DEFINE c == {x \in claims : x.doc = <<"receipt", v.id>> /\ x.line.date <= d.date}
             c2 == {x \in claims : x.doc = <<"receipt", v.id>>}
             a == {x \in applications : x.invoice = v.id /\ x.date <= d.date}
             a2 == {x \in applications : x.invoice = v.id}
  <2>2. /\ IsFiniteSet(claims) /\ \A x \in claims : x.amount \in Nat
        /\ IsFiniteSet(applications) /\ \A x \in applications : x.amount \in Nat
    BY DEF HistoryInv, FinanceInv, BankInv, ClaimOK, ApplicationsOK, ApplicationOK
  <2>3. /\ c \in SUBSET claims /\ c2 \in SUBSET claims /\ c \in SUBSET c2
        /\ a \in SUBSET applications /\ a2 \in SUBSET applications /\ a \in SUBSET a2
    OBVIOUS
  <2>4. PaidBy(v, d.date) = Total(c) + Total(a) /\ Paid(v) = Total(c2) + Total(a2)
    BY DEF PaidBy, Paid
  <2> HIDE DEF c, c2, a, a2
  <2>5. /\ Total(c) \in Nat /\ Total(c2) \in Nat /\ Total(a) \in Nat /\ Total(a2) \in Nat
        /\ IsFiniteSet(c2) /\ IsFiniteSet(a2)
    BY <2>2, <2>3, TotalType
  <2>6. Total(c) <= Total(c2)
    BY <2>2, <2>3, <2>5, TotalMonotone
  <2>7. Total(a) <= Total(a2)
    BY <2>2, <2>3, <2>5, TotalMonotone
  <2>8. QED
    BY <2>1, <2>4, <2>5, <2>6, <2>7
<1>2. QED
  BY <1>1, HistoryInvariant, PTL

\* A bill's cost is recognised once, never beyond its total, and never before the service.
THEOREM CostAlwaysFollowsService == FinanceSpec => []CostFollowsService
<1>1. HistoryInv => CostFollowsService
  <2> SUFFICES ASSUME HistoryInv, NEW b \in bills, NEW day \in Days
               PROVE  /\ CostOf(b, day) <= b.amount
                      /\ day < b.service => CostOf(b, day) = 0
    BY DEF CostFollowsService
  <2>1. FinanceInv /\ CostLines
    BY DEF HistoryInv
  <2>2. /\ b.amount \in Nat /\ b.date \in Nat /\ b.service \in Nat /\ day \in Nat
        /\ \A c \in bills : c.id = b.id => c = b
    BY <2>1 DEF FinanceInv, BillsOK, Bill, Days
  <2>3. /\ IsFiniteSet(journal) /\ \A l \in journal : l.amount \in Nat
        /\ IsFiniteSet(releases) /\ \A r \in releases : r.amount \in Nat
    BY <2>1 DEF FinanceInv, BankInv, LedgerInv, LineOK, BillsOK, ReleaseOK
  <2>4. ReleasedFrom(b) <= b.amount
    BY <2>1 DEF FinanceInv, PurchaseLimitsOK
  <2> DEFINE cost == {l \in journal :
                        /\ l.account = "EXPENSE" /\ l.date <= day
                        /\ \/ l.key = <<"bill", b.id>>
                           \/ \E r \in releases : r.bill = b.id /\ l.key = <<"prepayment", r.reference>>}
  <2>5. CostOf(b, day) = Total(cost)
    BY DEF CostOf
  <2>6. \A r \in releases : r.bill = b.id => Prepaid(b) /\ b.service <= r.date
    BY <2>1, <2>2 DEF FinanceInv, BillsOK, ReleaseOK, ApprovedBills
  \* A line of the approval: the bill is not prepaid.
  <2>7. ASSUME NEW l \in cost, l.key = <<"bill", b.id>>
        PROVE  /\ ~Prepaid(b)
               /\ l = [key |-> <<"bill", b.id>>, date |-> b.date, account |-> "EXPENSE",
                       side |-> "debit", amount |-> b.amount]
    <3>1. CostLineOK(l) /\ l.key[1] = "bill" /\ l.key[2] = b.id /\ l.account = "EXPENSE"
      BY <2>1, <2>7 DEF CostLines
    <3>2. PICK c \in ApprovedBills :
             /\ ~Prepaid(c)
             /\ l = [key |-> <<"bill", c.id>>, date |-> c.date, account |-> "EXPENSE",
                     side |-> "debit", amount |-> c.amount]
      BY <3>1 DEF CostLineOK
    <3>3. c.id = b.id
      BY <3>1, <3>2
    <3>4. c = b
      BY <2>2, <3>3 DEF ApprovedBills
    <3>5. QED
      BY <3>2, <3>4
  \* A line of a release, made for that release alone.
  <2>8. ASSUME NEW l \in cost, l.key # <<"bill", b.id>>
        PROVE  \E r \in releases :
                 /\ r.bill = b.id
                 /\ l = [key |-> <<"prepayment", r.reference>>, date |-> r.date,
                         account |-> "EXPENSE", side |-> "debit", amount |-> r.amount]
    <3>1. PICK r \in releases : r.bill = b.id /\ l.key = <<"prepayment", r.reference>>
      BY <2>8
    <3>2. CostLineOK(l) /\ l.key[1] = "prepayment" /\ l.key[2] = r.reference /\ l.account = "EXPENSE"
      BY <2>1, <3>1 DEF CostLines
    <3>3. PICK q \in releases :
             l = [key |-> <<"prepayment", q.reference>>, date |-> q.date, account |-> "EXPENSE",
                  side |-> "debit", amount |-> q.amount]
      BY <3>2 DEF CostLineOK
    <3>4. q.reference = r.reference
      BY <3>2, <3>3
    <3>5. q = r
      BY <2>1, <3>4 DEF FinanceInv, BillsOK
    <3>6. QED
      BY <3>1, <3>3, <3>5
  <2>9. IsFiniteSet(cost) /\ \A l \in cost : l.amount \in Nat
    BY <2>3, FS_Subset
  <2>10. CASE ~Prepaid(b)
    <3>1. \A l \in cost : l = [key |-> <<"bill", b.id>>, date |-> b.date, account |-> "EXPENSE",
                               side |-> "debit", amount |-> b.amount]
      BY <2>6, <2>7, <2>8, <2>10
    <3>2. PICK line : line = [key |-> <<"bill", b.id>>, date |-> b.date, account |-> "EXPENSE",
                              side |-> "debit", amount |-> b.amount]
      OBVIOUS
    <3>3. cost = {} \/ cost = {line}
      BY <3>1, <3>2
    <3>4. line.amount = b.amount /\ line.date = b.date
      BY <3>2
    <3>5. Total({line}) = b.amount /\ Total({}) = 0
      BY <2>2, <3>4, TotalOne, TotalEmpty
    <3>6. CostOf(b, day) <= b.amount
      <4>1. CASE cost = {}
        <5>1. CostOf(b, day) = Total({})
          BY <2>5, <4>1
        <5>2. QED
          BY <2>2, <3>5, <5>1
      <4>2. CASE cost = {line}
        <5>1. CostOf(b, day) = Total({line})
          BY <2>5, <4>2
        <5>2. QED
          BY <2>2, <3>5, <5>1
      <4>3. QED
        BY <3>3, <4>1, <4>2
    <3>7. day < b.service => cost = {}
      <4>1. b.service <= b.date
        BY <2>2, <2>10 DEF Prepaid
      <4>2. line \in cost => b.date <= day
        BY <3>4
      <4>3. QED
        BY <2>2, <3>3, <4>1, <4>2
    <3>8. QED
      BY <2>5, <3>5, <3>6, <3>7
  <2>11. CASE Prepaid(b)
    <3> DEFINE from == {r \in releases : r.bill = b.id}
               made == [l \in cost |-> CHOOSE r \in from :
                          l = [key |-> <<"prepayment", r.reference>>, date |-> r.date,
                               account |-> "EXPENSE", side |-> "debit", amount |-> r.amount]]
               same == [r \in from |-> r]
    <3>1. /\ IsFiniteSet(from) /\ \A r \in from : r.amount \in Nat
      BY <2>3, FS_Subset
    <3>2. \A l \in cost : /\ made[l] \in from
                          /\ l = [key |-> <<"prepayment", made[l].reference>>, date |-> made[l].date,
                                  account |-> "EXPENSE", side |-> "debit",
                                  amount |-> made[l].amount]
      <4> SUFFICES ASSUME NEW l \in cost
                   PROVE  /\ made[l] \in from
                          /\ l = [key |-> <<"prepayment", made[l].reference>>, date |-> made[l].date,
                                  account |-> "EXPENSE", side |-> "debit",
                                  amount |-> made[l].amount]
        OBVIOUS
      <4>1. l.key # <<"bill", b.id>>
        BY <2>7, <2>11
      <4>2. \E r \in from : l = [key |-> <<"prepayment", r.reference>>, date |-> r.date,
                                 account |-> "EXPENSE", side |-> "debit", amount |-> r.amount]
        BY <2>8, <4>1
      <4>3. QED
        BY <4>2
    <3>3. made \in [cost -> from] /\ same \in [from -> from]
      BY <3>2
    <3>4. \A l \in cost : l.amount = made[l].amount /\ l.date = made[l].date
      <4> HIDE DEF cost, from, made
      <4>1. SUFFICES ASSUME NEW l \in cost
                     PROVE  l.amount = made[l].amount /\ l.date = made[l].date
        OBVIOUS
      <4>2. l = [key |-> <<"prepayment", made[l].reference>>, date |-> made[l].date,
                 account |-> "EXPENSE", side |-> "debit", amount |-> made[l].amount]
        BY <3>2
      <4>3. QED
        BY <4>2
    <3>5. \A l, m \in cost : made[l] = made[m] => l = m
      <4> SUFFICES ASSUME NEW l \in cost, NEW m \in cost, made[l] = made[m] PROVE l = m
        OBVIOUS
      <4>1. l = [key |-> <<"prepayment", made[l].reference>>, date |-> made[l].date,
                 account |-> "EXPENSE", side |-> "debit", amount |-> made[l].amount]
        BY <3>2
      <4> HIDE DEF cost, from, made
      <4>2. m = [key |-> <<"prepayment", made[m].reference>>, date |-> made[m].date,
                 account |-> "EXPENSE", side |-> "debit", amount |-> made[m].amount]
        BY <3>2
      <4>3. QED
        BY <4>1, <4>2
    <3>6. \A r \in from : same[r] = r
      OBVIOUS
    <3>7. ReleasedFrom(b) = Total(from)
      BY DEF ReleasedFrom
    <3>8. \A l \in cost : l.date <= day
      OBVIOUS
    <3>9. \A r \in from : b.service <= r.date /\ r.date \in Nat
      BY <2>1, <2>6 DEF FinanceInv, BillsOK, ReleaseOK, Days
    <3> HIDE DEF cost, from, made, same
    <3>10. \A r \in from : Total(InGroup(cost, made, r)) <= Total(InGroup(from, same, r))
      <4> SUFFICES ASSUME NEW r \in from
                   PROVE  Total(InGroup(cost, made, r)) <= Total(InGroup(from, same, r))
        OBVIOUS
      <4>1. InGroup(from, same, r) = {r}
        BY <3>6 DEF InGroup
      <4>2. Total({r}) = r.amount /\ r.amount \in Nat /\ Total({}) = 0
        BY <3>1, TotalOne, TotalEmpty
      <4>3. CASE InGroup(cost, made, r) = {}
        BY <4>1, <4>2, <4>3
      <4>4. CASE InGroup(cost, made, r) # {}
        <5>1. PICK l \in cost : made[l] = r /\ InGroup(cost, made, r) = {l}
          BY <3>5, <4>4 DEF InGroup
        <5>2. Total({l}) = r.amount
          BY <2>9, <3>4, <5>1, TotalOne
        <5>3. QED
          BY <4>1, <4>2, <5>1, <5>2
      <4>5. QED
        BY <4>3, <4>4
    <3>11. Total(cost) <= Total(from)
      BY <2>9, <3>1, <3>3, <3>10, TotalByGroup
    <3>12. Total(cost) \in Nat /\ Total(from) \in Nat
      BY <2>9, <3>1, TotalType
    <3>13. CostOf(b, day) <= b.amount
      BY <2>2, <2>4, <2>5, <3>7, <3>11, <3>12
    <3>14. day < b.service => cost = {}
      <4>1. ASSUME NEW l \in cost, day < b.service PROVE FALSE
        <5>1. made[l] \in from
          BY <3>3
        <5>2. l.date <= day /\ l.date = made[l].date /\ b.service <= made[l].date /\ made[l].date \in Nat
          BY <3>4, <3>8, <3>9, <5>1
        <5>3. QED
          BY <2>2, <4>1, <5>2
      <4>2. QED
        BY <4>1
    <3>15. day < b.service => CostOf(b, day) = 0
      BY <2>5, <3>14, TotalEmpty
    <3>16. QED
      BY <3>13, <3>15
  <2>12. QED
    BY <2>10, <2>11
<1>2. QED
  BY <1>1, HistoryInvariant, PTL

-----------------------------------------------------------------------------
(* What tie-outs say beyond the equations: no account has the wrong sign. *)

\* The legs of transfers up to a day, and the document each belongs to.
UsesUpto(kind, d) == {c \in claims : c.kind = kind /\ c.line.date <= d}
DocOf(rows) == [r \in rows |-> r.doc]

\* A document has one leg of each kind at most, with its mate on the other side.
LEMMA LegsAlone ==
  ASSUME FinanceInv, NEW kind, NEW other, kind \in {"transfer_in", "transfer_out"},
         other \in {"transfer_in", "transfer_out"}, kind # other,
         NEW d, NEW e,
         \A c \in UsesUpto(kind, d) : \A o \in claims :
           o.kind = other /\ o.doc = c.doc /\ o.amount = c.amount
             /\ (kind = "transfer_in" => o.line.date <= c.line.date)
             => o.line.date <= e
  PROVE  ClaimsOf(kind, d) <= ClaimsOf(other, e)
<1> DEFINE R == UsesUpto(kind, d)
           S == UsesUpto(other, e)
           Groups == {c.doc : c \in claims}
<1>1. IsFiniteSet(claims) /\ \A c \in claims : c.amount \in Nat
  BY DEF FinanceInv, BankInv, ClaimOK
<1>2. R \in SUBSET claims /\ S \in SUBSET claims
  BY DEF UsesUpto
<1>3. /\ IsFiniteSet(R) /\ IsFiniteSet(S)
      /\ \A r \in R : r.amount \in Nat
      /\ \A s \in S : s.amount \in Nat
  BY <1>1, <1>2, FS_Subset
<1>4. DocOf(R) \in [R -> Groups] /\ DocOf(S) \in [S -> Groups]
  BY <1>2 DEF DocOf
<1>5. ClaimsOf(kind, d) = Total(R) /\ ClaimsOf(other, e) = Total(S)
  BY DEF ClaimsOf, UsesUpto
<1>6. ASSUME NEW c \in R
      PROVE  /\ c.key = <<"bank-event", c.doc[2], IF kind = "transfer_out" THEN "out" ELSE "in">>
             /\ \E o \in S : o.doc = c.doc /\ o.amount = c.amount
  <2>1. UseOK(c) /\ c.kind = kind /\ c.kind \in {"transfer_in", "transfer_out"} /\ c \in claims
    BY <1>2 DEF FinanceInv, ClaimsOK, UsesUpto
  <2>2. BankUse(c)
    BY <2>1 DEF UseOK, SalesUse, PurchaseUse
  <2>3. PICK reference \in References :
       /\ c.doc = <<"transfer", reference>>
       /\ \/ /\ c.kind = "transfer_out" /\ c.line.direction = "out"
             /\ c.key = <<"bank-event", reference, "out">>
             /\ \E i \in claims : /\ i.kind = "transfer_in" /\ i.doc = c.doc
                                  /\ i.amount = c.amount /\ c.line.date <= i.line.date
          \/ /\ c.kind = "transfer_in" /\ c.line.direction = "in"
             /\ c.key = <<"bank-event", reference, "in">>
             /\ \E o \in claims : /\ o.kind = "transfer_out" /\ o.doc = c.doc
                                  /\ o.amount = c.amount /\ o.line.date <= c.line.date
    BY <2>1, <2>2 DEF BankUse
  <2>4. \E o \in claims : /\ o.kind = other /\ o.doc = c.doc /\ o.amount = c.amount
                          /\ kind = "transfer_in" => o.line.date <= c.line.date
    BY <2>1, <2>3
  <2>5. \E o \in S : o.doc = c.doc /\ o.amount = c.amount
    BY <2>4 DEF UsesUpto
  <2>6. QED
    BY <2>1, <2>3, <2>5
<1>7. ASSUME NEW c1 \in R, NEW c2 \in R, c1.doc = c2.doc
      PROVE  c1 = c2
  <2>1. c1.key = c2.key
    BY <1>6, <1>7
  <2>2. QED
    BY <1>2, <2>1 DEF FinanceInv, ClaimsOK
<1> HIDE DEF R, S, Groups
<1>8. \A i \in Groups : Total(InGroup(R, DocOf(R), i)) <= Total(InGroup(S, DocOf(S), i))
  <2> SUFFICES ASSUME NEW i \in Groups
               PROVE  Total(InGroup(R, DocOf(R), i)) <= Total(InGroup(S, DocOf(S), i))
    OBVIOUS
  <2>1. InGroup(S, DocOf(S), i) \in SUBSET S /\ IsFiniteSet(InGroup(S, DocOf(S), i))
    BY <1>3, FS_Subset DEF InGroup
  <2>2. Total(InGroup(S, DocOf(S), i)) \in Nat
    BY <1>3, <2>1, TotalType
  <2>3. CASE InGroup(R, DocOf(R), i) = {}
    BY <2>2, <2>3, TotalEmpty
  <2>4. CASE InGroup(R, DocOf(R), i) # {}
    <3>1. PICK c \in R : c.doc = i /\ InGroup(R, DocOf(R), i) = {c}
      BY <1>7, <2>4 DEF InGroup, DocOf
    <3>2. PICK o \in S : o.doc = i /\ o.amount = c.amount
      BY <1>6, <3>1
    <3>3. {o} \in SUBSET InGroup(S, DocOf(S), i)
      BY <3>2 DEF InGroup, DocOf
    <3>4. Total({c}) = c.amount /\ Total({o}) = c.amount /\ c.amount \in Nat
      BY <1>3, <3>2, TotalOne
    <3>5. \A r \in InGroup(S, DocOf(S), i) : r.amount \in Nat
      BY <1>3, <2>1
    <3>6. Total({o}) <= Total(InGroup(S, DocOf(S), i))
      BY <2>1, <3>3, <3>5, TotalMonotone
    <3>7. QED
      BY <3>1, <3>4, <3>6
  <2>5. QED
    BY <2>3, <2>4
<1>9. Total(R) <= Total(S)
  BY <1>3, <1>4, <1>8, TotalByGroup
<1>10. QED
  BY <1>5, <1>9

\* Every day the bank account is the openings and the used lines; nothing was on the way
\* from one account to another before it left, and nothing stays on the way.
THEOREM BankAlwaysTiesOut == FinanceSpec => []BankTiesOut
<1>1. HistoryInv => BankTiesOut
  <2> SUFFICES ASSUME HistoryInv PROVE BankTiesOut
    OBVIOUS
  <2>1. FinanceInv /\ OpeningsFirst
    BY DEF HistoryInv
  <2>2. \A d \in Days : BankTies(d)
    BY <2>1 DEF FinanceInv, TiesOK
  <2>3. \A d : /\ ClaimsOf("transfer_out", d) \in Nat
               /\ ClaimsOf("transfer_in", d) \in Nat
    BY <2>1, ClaimSumTypes
  <2>4. \A d \in Days : ClaimsOf("transfer_in", d) <= ClaimsOf("transfer_out", d)
    <3> SUFFICES ASSUME NEW d \in Days
                 PROVE  ClaimsOf("transfer_in", d) <= ClaimsOf("transfer_out", d)
      OBVIOUS
    <3>1. \A c \in claims : c.line.date \in Nat
      BY <2>1 DEF FinanceInv, BankInv, ClaimOK, BankLine, Days
    <3>2. \A c \in UsesUpto("transfer_in", d) : \A o \in claims :
            o.line.date <= c.line.date => o.line.date <= d
      BY <3>1 DEF UsesUpto, Days
    <3>3. QED
      BY <2>1, <3>2, LegsAlone
  <2>5. MaxDay \in Days /\ ClaimsOf("transfer_out", MaxDay) <= ClaimsOf("transfer_in", MaxDay)
    <3>1. MaxDay \in Days /\ \A c \in claims : c.line.date <= MaxDay
      BY <2>1, LedgerAssumption DEF FinanceInv, BankInv, ClaimOK, BankLine, Days
    <3>2. QED
      BY <2>1, <3>1, LegsAlone
  <2>6. \A d \in Days : Balance("BANK_TRANSFER", d) >= 0
    BY <2>2, <2>3, <2>4 DEF BankTies
  <2>7. Balance("BANK_TRANSFER", MaxDay) = 0
    BY <2>2, <2>3, <2>4, <2>5 DEF BankTies
  <2>8. \A day \in Days : Balance("BANK", day)
           = Moved({o \in openings : o.date <= day}, "in")
             - Moved({o \in openings : o.date <= day}, "out")
             + ClaimedLines("in", day) - ClaimedLines("out", day)
    BY <2>2 DEF BankTies, Opened, Upto
  <2>9. QED
    BY <2>1, <2>6, <2>7, <2>8 DEF BankTiesOut, OpeningsFirst
<1>2. QED
  BY <1>1, HistoryInvariant, PTL

-----------------------------------------------------------------------------
(* The control accounts of purchases. *)

IdsOf(rows) == [r \in rows |-> r.id]
BillsOf(rows) == [r \in rows |-> r.bill]
SubjectsOf(rows) == [r \in rows |-> r.doc[2]]

\* The bills whose supplier was paid net by a day, and the decisions on them.
SettledBills(d) == {b \in bills : \E c \in SettlementsOf(b) : c.line.date <= d}
SettledDecisions(d) ==
  {x \in decisions : \E b \in bills : /\ b.id = x.bill
                                      /\ \E c \in SettlementsOf(b) : c.line.date <= d}

\* A group no row belongs to sums to zero.
LEMMA GroupOfNone ==
  ASSUME NEW R, NEW g, NEW i, \A q \in R : g[q] # i
  PROVE  Total(InGroup(R, g, i)) = 0
<1>1. InGroup(R, g, i) = {}
  BY DEF InGroup
<1>2. QED
  BY <1>1, TotalEmpty

\* By every day suppliers were paid, gross or net, no more than the bills of that day.
LEMMA PaidForWhatIsOwed ==
  ASSUME FinanceInv, NEW d \in Days
  PROVE  ClaimsOf("bill_payment", d) + SettledGross(d) <= Total(Upto(ApprovedBills, d))
<1> DEFINE A == UsesUpto("bill_payment", d)
           B == SettledBills(d)
           S == Upto(ApprovedBills, d)
           Groups == {c.doc[2] : c \in claims} \cup {b.id : b \in bills}
<1>1. /\ IsFiniteSet(claims) /\ IsFiniteSet(bills)
      /\ \A c \in claims : c.amount \in Nat
      /\ \A b \in bills : b.amount \in Nat
  BY DEF FinanceInv, BankInv, ClaimOK, BillsOK, Bill
<1>2. A \in SUBSET claims /\ B \in SUBSET bills /\ S \in SUBSET bills
  BY DEF UsesUpto, SettledBills, Upto, ApprovedBills
<1>3. ClaimsOf("bill_payment", d) = Total(A) /\ SettledGross(d) = Total(B)
  BY DEF ClaimsOf, SettledGross, UsesUpto, SettledBills
<1>4. /\ d \in Nat /\ \A b \in bills : b.date \in Nat
      /\ \A c \in claims : c.line.date \in Nat
  BY DEF FinanceInv, BankInv, ClaimOK, BankLine, BillsOK, Bill, Days
<1>5. \A b, c \in bills : b.id = c.id => b = c
  BY DEF FinanceInv, BillsOK
<1>6. ASSUME NEW c \in A
      PROVE  \E b \in S : c.doc = <<"bill", b.id>>
  <2>1. UseOK(c) /\ c.kind = "bill_payment" /\ c.line.date <= d
    BY DEF UsesUpto, FinanceInv, ClaimsOK
  <2>2. PICK b \in ApprovedBills : c.doc = <<"bill", b.id>> /\ b.date <= c.line.date
    BY <2>1 DEF UseOK, SalesUse, PurchaseUse, BankUse
  <2>3. b \in bills /\ b.date <= d
    BY <1>2, <1>4, <2>1, <2>2 DEF ApprovedBills
  <2>4. QED
    BY <2>2, <2>3 DEF Upto
<1>7. ASSUME NEW b \in B
      PROVE  b \in S /\ SettlementsOf(b) # {}
  <2>1. PICK c \in SettlementsOf(b) : c.line.date <= d
    BY DEF SettledBills
  <2>2. c \in claims /\ UseOK(c) /\ c.kind = "withheld_supplier" /\ c.doc = <<"bill", b.id>>
    BY DEF SettlementsOf, FinanceInv, ClaimsOK
  <2>3. PICK e \in ApprovedBills : c.doc = <<"bill", e.id>> /\ e.date <= c.line.date
    BY <2>2 DEF UseOK, SalesUse, PurchaseUse, BankUse
  <2>4. e.id = b.id
    BY <2>2, <2>3
  <2>5. e = b
    BY <1>2, <1>5, <2>4 DEF ApprovedBills
  <2>6. b.date <= d
    BY <1>2, <1>4, <2>1, <2>2, <2>3, <2>5
  <2>7. QED
    BY <2>3, <2>5, <2>6 DEF Upto
<1>8. /\ SubjectsOf(A) \in [A -> Groups] /\ IdsOf(B) \in [B -> Groups] /\ IdsOf(S) \in [S -> Groups]
  BY <1>2 DEF SubjectsOf, IdsOf
<1>9. /\ IsFiniteSet(A) /\ IsFiniteSet(B) /\ IsFiniteSet(S)
      /\ \A r \in A : r.amount \in Nat
      /\ \A r \in B : r.amount \in Nat
      /\ \A r \in S : r.amount \in Nat
  BY <1>1, <1>2, FS_Subset, FS_EmptySet
<1> HIDE DEF A, B, S, Groups
<1>10. ASSUME NEW i \in Groups
       PROVE  Total(InGroup(A, SubjectsOf(A), i)) + Total(InGroup(B, IdsOf(B), i)) <= Total(InGroup(S, IdsOf(S), i))
  <2>2. CASE ~ \E b \in S : b.id = i
    <3>1. \A c \in A : SubjectsOf(A)[c] # i
      BY <1>6, <2>2 DEF SubjectsOf
    <3>2. \A b \in B : IdsOf(B)[b] # i
      BY <1>7, <2>2 DEF IdsOf
    <3>3. \A b \in S : IdsOf(S)[b] # i
      BY <2>2 DEF IdsOf
    <3>4. QED
      BY <3>1, <3>2, <3>3, GroupOfNone
  <2>3. CASE \E b \in S : b.id = i
    <3>1. PICK b \in S : b.id = i
      BY <2>3
    <3>2. b \in bills /\ b.amount \in Nat
      BY <1>1, <1>2, <3>1
    <3>3. Total(InGroup(S, IdsOf(S), i)) = b.amount
      <4>1. IdsOf(S)[b] = i /\ \A q \in S : IdsOf(S)[q] = i => q = b
        BY <1>2, <1>5, <3>1 DEF IdsOf
      <4>2. InGroup(S, IdsOf(S), i) = {b}
        BY <3>1, <4>1 DEF InGroup
      <4>3. QED
        BY <3>2, <4>2, TotalOne
    <3>4. /\ Total(PaymentsOf(b)) <= b.amount
          /\ SettlementsOf(b) # {} => PaymentsOf(b) = {}
      BY <3>2 DEF FinanceInv, PurchaseLimitsOK, PaidOnce
    <3>5. InGroup(A, SubjectsOf(A), i) \in SUBSET PaymentsOf(b)
      <4> SUFFICES ASSUME NEW c \in InGroup(A, SubjectsOf(A), i) PROVE c \in PaymentsOf(b)
        OBVIOUS
      <4>1. c \in A /\ c.doc[2] = i
        BY DEF InGroup, SubjectsOf
      <4>2. c \in claims /\ c.kind = "bill_payment"
        BY <1>2, <4>1 DEF A, UsesUpto
      <4>3. PICK e \in S : c.doc = <<"bill", e.id>>
        BY <1>6, <4>1
      <4>4. c.doc = <<"bill", b.id>>
        BY <3>1, <4>1, <4>3
      <4>5. QED
        BY <4>2, <4>4 DEF PaymentsOf
    <3>6. IsFiniteSet(PaymentsOf(b)) /\ \A c \in PaymentsOf(b) : c.amount \in Nat
      BY <1>1, FS_Subset DEF PaymentsOf
    <3>7. CASE b \in B
      <4>1. InGroup(A, SubjectsOf(A), i) = {}
        BY <1>7, <3>4, <3>5, <3>7
      <4>2. IdsOf(B)[b] = i /\ \A q \in B : IdsOf(B)[q] = i => q = b
        BY <1>2, <1>5, <3>1, <3>7 DEF IdsOf
      <4>3. InGroup(B, IdsOf(B), i) = {b} /\ Total({b}) = b.amount
        BY <3>2, <3>7, <4>2, TotalOne DEF InGroup
      <4>4. Total(InGroup(A, SubjectsOf(A), i)) = 0
        BY <4>1, TotalEmpty
      <4>5. QED
        BY <3>2, <3>3, <4>3, <4>4
    <3>8. CASE b \notin B
      <4>1. \A q \in B : IdsOf(B)[q] # i
        BY <1>2, <1>5, <3>1, <3>2, <3>8 DEF IdsOf
      <4>2. Total(InGroup(B, IdsOf(B), i)) = 0
        BY <4>1, GroupOfNone
      <4>3. Total(InGroup(A, SubjectsOf(A), i)) <= Total(PaymentsOf(b))
        BY <3>5, <3>6, TotalMonotone
      <4>4. Total(InGroup(A, SubjectsOf(A), i)) \in Nat /\ Total(PaymentsOf(b)) \in Nat
        BY <3>5, <3>6, TotalType
      <4>5. QED
        BY <3>2, <3>3, <3>4, <4>2, <4>3, <4>4
    <3>9. QED
      BY <3>7, <3>8
  <2>4. QED
    BY <2>2, <2>3
<1>11. TwoWithin(Groups, A, SubjectsOf(A), B, IdsOf(B), S, IdsOf(S))
  BY <1>8, <1>10 DEF TwoWithin
<1>12. Total(A) + Total(B) <= Total(S)
  BY <1>9, <1>11, TwoTablesByGroup
<1>13. QED
  BY <1>3, <1>12 DEF S

\* By every day no more tax was remitted than had been withheld from suppliers by then.
LEMMA RemittedFromWithheld ==
  ASSUME FinanceInv, NEW d \in Days
  PROVE  ClaimsOf("tax_remittance", d) <= SettledTax(d)
<1> DEFINE R == UsesUpto("tax_remittance", d)
           S == SettledDecisions(d)
           Groups == {c.doc[2] : c \in claims} \cup {x.bill : x \in decisions}
<1>1. /\ IsFiniteSet(claims) /\ IsFiniteSet(decisions)
      /\ \A c \in claims : c.amount \in Nat
      /\ \A x \in decisions : x.amount \in Nat
  BY DEF FinanceInv, BankInv, ClaimOK, BillsOK, DecisionOK
<1>2. R \in SUBSET claims /\ S \in SUBSET decisions
  BY DEF UsesUpto, SettledDecisions
<1>3. ClaimsOf("tax_remittance", d) = Total(R) /\ SettledTax(d) = Total(S)
  BY DEF ClaimsOf, SettledTax, UsesUpto, SettledDecisions
<1>4. \A x, y \in decisions : x.bill = y.bill => x = y
  BY DEF FinanceInv, BillsOK
<1>5. ASSUME NEW c \in R
      PROVE  /\ \E x \in decisions : c.doc = <<"obligation", x.bill>>
             /\ c.line.date <= d
  <2>1. UseOK(c) /\ c.kind = "tax_remittance" /\ c.line.date <= d
    BY DEF UsesUpto, FinanceInv, ClaimsOK
  <2>2. QED
    BY <2>1 DEF UseOK, SalesUse, PurchaseUse, BankUse
<1>6. SubjectsOf(R) \in [R -> Groups] /\ BillsOf(S) \in [S -> Groups]
  BY <1>2 DEF SubjectsOf, BillsOf
<1>7. /\ IsFiniteSet(R) /\ IsFiniteSet(S)
      /\ \A r \in R : r.amount \in Nat
      /\ \A s \in S : s.amount \in Nat
  BY <1>1, <1>2, FS_Subset
<1> HIDE DEF R, S, Groups
<1>8. ASSUME NEW i \in Groups
      PROVE  Total(InGroup(R, SubjectsOf(R), i)) <= Total(InGroup(S, BillsOf(S), i))
  <2> DEFINE paid == InGroup(R, SubjectsOf(R), i)
  <2>1. /\ InGroup(S, BillsOf(S), i) \in SUBSET S
        /\ paid \in SUBSET R
    BY DEF InGroup
  <2>2. Total(InGroup(S, BillsOf(S), i)) \in Nat /\ Total(paid) \in Nat
    BY <1>7, <2>1, TotalType
  <2>3. CASE paid = {}
    BY <2>2, <2>3, TotalEmpty
  <2>4. CASE paid # {}
    <3>1. PICK c \in R : c.doc[2] = i
      BY <2>4 DEF InGroup, SubjectsOf
    <3>2. PICK x \in decisions : c.doc = <<"obligation", x.bill>>
      BY <1>5, <3>1
    <3>3. x.bill = i
      BY <3>1, <3>2
    <3>4. PICK upto : upto = {q \in claims : q.doc = <<"obligation", x.bill>> /\ q.line.date <= d}
      OBVIOUS
    <3>5. paid \in SUBSET upto
      <4> SUFFICES ASSUME NEW q \in paid PROVE q \in upto
        OBVIOUS
      <4>1. q \in R /\ q.doc[2] = i
        BY DEF InGroup, SubjectsOf
      <4>2. PICK y \in decisions : q.doc = <<"obligation", y.bill>>
        BY <1>5, <4>1
      <4>3. q.doc = <<"obligation", x.bill>> /\ q.line.date <= d
        BY <1>5, <3>3, <4>1, <4>2
      <4>4. QED
        BY <1>2, <3>4, <4>1, <4>3
    <3>6. upto \in SUBSET claims
      BY <3>4
    <3> HIDE DEF paid
    <3>7. Total(upto) \in Nat /\ IsFiniteSet(upto)
      BY <1>1, <3>6, TotalType, FS_Subset
    <3>8. Total(paid) <= Total(upto)
      BY <1>1, <3>5, <3>6, <3>7, TotalMonotone
    <3>9. Total(upto) <= (IF \E q \in claims : /\ q.kind = "withheld_supplier" /\ q.line.date <= d
                                               /\ q.doc = <<"bill", x.bill>>
                          THEN x.amount ELSE 0)
      BY <3>4, RemittedAfterWithheld DEF RemittancesFollowWithholding
    <3>10. CASE x \in S
      <4>1. BillsOf(S)[x] = i /\ \A q \in S : BillsOf(S)[q] = i => q = x
        BY <1>2, <1>4, <3>3, <3>10 DEF BillsOf
      <4>2. InGroup(S, BillsOf(S), i) = {x}
        BY <3>10, <4>1 DEF InGroup
      <4>3. Total({x}) = x.amount /\ x.amount \in Nat
        BY <1>1, TotalOne
      <4>4. Total(upto) <= x.amount
        BY <3>7, <3>9, <4>3
      <4>5. QED
        BY <2>2, <3>7, <3>8, <4>2, <4>3, <4>4 DEF paid
    <3>11. CASE x \notin S
      <4>1. ~ \E q \in claims : /\ q.kind = "withheld_supplier" /\ q.line.date <= d
                                /\ q.doc = <<"bill", x.bill>>
        <5> SUFFICES ASSUME NEW q \in claims, q.kind = "withheld_supplier", q.line.date <= d,
                            q.doc = <<"bill", x.bill>>
                     PROVE  FALSE
          OBVIOUS
        <5>1. PICK b \in ApprovedBills : b.id = x.bill
          BY DEF FinanceInv, BillsOK, DecisionOK
        <5>2. q \in SettlementsOf(b) /\ b \in bills
          BY <5>1 DEF SettlementsOf, ApprovedBills
        <5>3. QED
          BY <3>11, <5>1, <5>2 DEF S, SettledDecisions
      <4>2. Total(upto) <= 0
        BY <3>9, <4>1
      <4>3. QED
        BY <2>2, <3>7, <3>8, <4>2 DEF paid
    <3>12. QED
      BY <3>10, <3>11
  <2>5. QED
    BY <2>3, <2>4
<1>9. Total(R) <= Total(S)
  BY <1>6, <1>7, <1>8, TotalByGroup
<1>10. QED
  BY <1>3, <1>9

\* By every day no more prepaid cost was released than had been billed.
LEMMA ReleasedFromBilled ==
  ASSUME FinanceInv, NEW d \in Days
  PROVE  ReleasedBy(d) <= PrepaidBilled(d)
<1> DEFINE R == Upto(releases, d)
           S == {b \in Upto(ApprovedBills, d) : Prepaid(b)}
           Groups == {r.bill : r \in releases} \cup {b.id : b \in bills}
<1>1. /\ IsFiniteSet(releases) /\ IsFiniteSet(bills)
      /\ \A r \in releases : r.amount \in Nat /\ r.date \in Nat
      /\ \A b \in bills : b.amount \in Nat /\ b.date \in Nat
      /\ d \in Nat
  BY DEF FinanceInv, BillsOK, Bill, ReleaseOK, Days
<1>2. R \in SUBSET releases /\ S \in SUBSET bills
  BY DEF Upto, ApprovedBills
<1>3. ReleasedBy(d) = Total(R) /\ PrepaidBilled(d) = Total(S)
  BY DEF ReleasedBy, PrepaidBilled
<1>4. \A b, c \in bills : b.id = c.id => b = c
  BY DEF FinanceInv, BillsOK
<1>5. ASSUME NEW r \in R
      PROVE  \E b \in S : b.id = r.bill
  <2>1. PICK b \in ApprovedBills : b.id = r.bill /\ Prepaid(b) /\ b.date <= r.date
    BY <1>2 DEF FinanceInv, BillsOK, ReleaseOK
  <2>2. b \in bills /\ r.date <= d
    BY <2>1 DEF ApprovedBills, Upto
  <2>3. b.date <= d
    BY <1>1, <1>2, <2>1, <2>2
  <2>4. QED
    BY <2>1, <2>3 DEF Upto
<1>6. BillsOf(R) \in [R -> Groups] /\ IdsOf(S) \in [S -> Groups]
  BY <1>2 DEF IdsOf, BillsOf
<1>7. /\ IsFiniteSet(R) /\ IsFiniteSet(S)
      /\ \A r \in R : r.amount \in Nat
      /\ \A s \in S : s.amount \in Nat
  BY <1>1, <1>2, FS_Subset
<1> HIDE DEF R, S, Groups
<1>8. ASSUME NEW i \in Groups
      PROVE  Total(InGroup(R, BillsOf(R), i)) <= Total(InGroup(S, IdsOf(S), i))
  <2> DEFINE part == InGroup(R, BillsOf(R), i)
  <2>1. InGroup(S, IdsOf(S), i) \in SUBSET S
    BY DEF InGroup
  <2>2. Total(InGroup(S, IdsOf(S), i)) \in Nat
    BY <1>7, <2>1, TotalType
  <2>3. CASE part = {}
    BY <2>2, <2>3, TotalEmpty
  <2>4. CASE part # {}
    <3>1. PICK r \in R : r.bill = i
      BY <2>4 DEF InGroup, BillsOf
    <3>2. PICK b \in S : b.id = i
      BY <1>5, <3>1
    <3>3. PICK all : all = {q \in releases : q.bill = b.id}
      OBVIOUS
    <3>4. part \in SUBSET all /\ all \in SUBSET releases
      BY <1>2, <3>2, <3>3 DEF InGroup, BillsOf
    <3>5. Total(all) <= b.amount /\ b.amount \in Nat
      BY <1>1, <1>2, <3>2, <3>3 DEF FinanceInv, PurchaseLimitsOK, ReleasedFrom
    <3>6. Total(InGroup(S, IdsOf(S), i)) = b.amount
      <4>1. IdsOf(S)[b] = i /\ \A q \in S : IdsOf(S)[q] = i => q = b
        BY <1>2, <1>4, <3>2 DEF IdsOf
      <4>2. InGroup(S, IdsOf(S), i) = {b}
        BY <3>2, <4>1 DEF InGroup
      <4>3. QED
        BY <3>5, <4>2, TotalOne
    <3> HIDE DEF part
    <3>7. Total(all) \in Nat /\ IsFiniteSet(all) /\ Total(part) \in Nat
      BY <1>1, <3>4, TotalType, FS_Subset
    <3>8. Total(part) <= Total(all)
      BY <1>1, <3>4, <3>7, TotalMonotone
    <3>9. QED
      BY <3>5, <3>6, <3>7, <3>8 DEF part
  <2>5. QED
    BY <2>3, <2>4
<1>9. Total(R) <= Total(S)
  BY <1>6, <1>7, <1>8, TotalByGroup
<1>10. QED
  BY <1>3, <1>9

\* The releases a close counts are all of them, and the bills are prepaid or not.
LEMMA PayableTieOutBySums ==
  ASSUME FinanceInv, NEW d \in Days
  PROVE  /\ Total(Upto(ApprovedBills, d)) = PrepaidBilled(d) + Expensed(d)
         /\ PayableTieOut("PREPAID", d) = PrepaidBilled(d) - ReleasedBy(d)
         /\ PayableTieOut("AP", d)
              = - (PrepaidBilled(d) + Expensed(d) - ClaimsOf("bill_payment", d) - SettledGross(d))
         /\ PayableTieOut("TAX_PAYABLE", d) = - (SettledTax(d) - ClaimsOf("tax_remittance", d))
<1> DEFINE owed == Upto(ApprovedBills, d)
           prepaid == {b \in owed : Prepaid(b)}
           other == {b \in owed : ~Prepaid(b)}
           released == {r \in releases : r.date <= d /\ \E b \in prepaid : r.bill = b.id}
<1>1. /\ IsFiniteSet(bills) /\ \A b \in bills : b.amount \in Nat /\ b.date \in Nat
      /\ d \in Nat /\ \A r \in releases : r.date \in Nat
  BY DEF FinanceInv, BillsOK, Bill, ReleaseOK, Days
<1>2. /\ prepaid \in SUBSET bills /\ other \in SUBSET bills
      /\ prepaid \cap other = {} /\ prepaid \cup other = owed
  BY DEF Upto, ApprovedBills
<1>3. released = Upto(releases, d)
  <2> SUFFICES ASSUME NEW r \in releases, r.date <= d PROVE \E b \in prepaid : r.bill = b.id
    BY DEF Upto
  <2>1. PICK b \in ApprovedBills : b.id = r.bill /\ Prepaid(b) /\ b.date <= r.date
    BY DEF FinanceInv, BillsOK, ReleaseOK
  <2>2. b \in bills
    BY <2>1 DEF ApprovedBills
  <2>3. b.date <= d
    BY <1>1, <2>1, <2>2
  <2>4. QED
    BY <2>1, <2>3 DEF Upto
<1>4. /\ PayableTieOut("PREPAID", d) = Total(prepaid) - Total(released)
      /\ PayableTieOut("AP", d) = - (Total(owed) - ClaimsOf("bill_payment", d) - SettledGross(d))
      /\ PayableTieOut("TAX_PAYABLE", d) = - (SettledTax(d) - ClaimsOf("tax_remittance", d))
  BY DEF PayableTieOut
<1>5. PrepaidBilled(d) = Total(prepaid) /\ Expensed(d) = Total(other)
      /\ ReleasedBy(d) = Total(Upto(releases, d))
  BY DEF PrepaidBilled, Expensed, ReleasedBy
<1>6. Total(owed) = Total(prepaid) + Total(other)
  <2> HIDE DEF prepaid, other, owed
  <2>1. IsFiniteSet(prepaid) /\ IsFiniteSet(other) /\ \A b \in prepaid \cup other : b.amount \in Nat
    BY <1>1, <1>2, FS_Subset
  <2>2. QED
    BY <1>2, <2>1, TotalUnion
<1> HIDE DEF prepaid, other, owed, released
<1>7. /\ PrepaidBilled(d) \in Nat /\ Expensed(d) \in Nat /\ SettledGross(d) \in Nat
      /\ ClaimsOf("bill_payment", d) \in Nat
  BY SumTypes, ClaimSumTypes
<1>8. Upto(ApprovedBills, d) = owed
  BY DEF owed
<1>9. Total(released) = ReleasedBy(d)
  BY <1>3, <1>5
<1>10. Total(owed) = PrepaidBilled(d) + Expensed(d)
  BY <1>5, <1>6
<1>11. PayableTieOut("PREPAID", d) = PrepaidBilled(d) - ReleasedBy(d)
  BY <1>4, <1>5, <1>9
<1>12. PayableTieOut("AP", d)
         = - (PrepaidBilled(d) + Expensed(d) - ClaimsOf("bill_payment", d) - SettledGross(d))
  BY <1>4, <1>7, <1>10
<1>13. QED
  BY <1>4, <1>8, <1>10, <1>11, <1>12

\* Bills are paid once, and every day the ledger owes suppliers and the state what the
\* bills say, and holds as prepaid what was not yet had.
THEOREM PurchasesAlwaysTieOut == FinanceSpec => []PayablesTieOut
<1>1. HistoryInv => PayablesTieOut
  <2> SUFFICES ASSUME FinanceInv PROVE PayablesTieOut
    BY DEF HistoryInv
  <2>1. \A d \in Days : PurchaseTies(d)
    BY DEF FinanceInv, TiesOK
  <2>2. ASSUME NEW d \in Days
        PROVE  /\ \A account \in PayableAccounts : Balance(account, d) = PayableTieOut(account, d)
               /\ Balance("AP", d) <= 0
               /\ Balance("TAX_PAYABLE", d) <= 0
               /\ Balance("PREPAID", d) >= 0
    <3>1. /\ PrepaidBilled(d) \in Nat /\ Expensed(d) \in Nat /\ ReleasedBy(d) \in Nat
          /\ SettledGross(d) \in Nat /\ SettledTax(d) \in Nat
          /\ ClaimsOf("bill_payment", d) \in Nat /\ ClaimsOf("tax_remittance", d) \in Nat
      BY SumTypes, ClaimSumTypes
    <3>2. PurchaseTies(d)
      BY <2>1
    <3>3. /\ Balance("PREPAID", d) = PayableTieOut("PREPAID", d)
          /\ Balance("AP", d) = PayableTieOut("AP", d)
          /\ Balance("TAX_PAYABLE", d) = PayableTieOut("TAX_PAYABLE", d)
      BY <3>1, <3>2, PayableTieOutBySums DEF PurchaseTies
    <3>4. /\ ClaimsOf("bill_payment", d) + SettledGross(d) <= PrepaidBilled(d) + Expensed(d)
          /\ ClaimsOf("tax_remittance", d) <= SettledTax(d)
          /\ ReleasedBy(d) <= PrepaidBilled(d)
      BY PaidForWhatIsOwed, RemittedFromWithheld, ReleasedFromBilled, PayableTieOutBySums
    <3>5. Balance("AP", d) <= 0 /\ Balance("TAX_PAYABLE", d) <= 0 /\ Balance("PREPAID", d) >= 0
      BY <3>1, <3>2, <3>4 DEF PurchaseTies
    <3>6. QED
      BY <3>3, <3>5 DEF PayableAccounts
  <2>3. PaidOnce
    BY DEF FinanceInv, PurchaseLimitsOK
  <2>4. QED
    BY <2>2, <2>3 DEF PayablesTieOut
<1>2. QED
  BY <1>1, HistoryInvariant, PTL

-----------------------------------------------------------------------------
(* The control accounts of sales. *)

OrdersOf(rows) == [r \in rows |-> r.invoice]
AdvancesOf(rows) == [r \in rows |-> r.advance]
KeysOf(rows) == [r \in rows |-> r.key]
CellOrders(cells) == [c \in cells |-> c.row.invoice]

\* Part of a table sums to no more than the table.
LEMMA TotalWithin ==
  ASSUME NEW all, IsFiniteSet(all), \A r \in all : r.amount \in Nat, NEW part \in SUBSET all
  PROVE  Total(part) <= Total(all) /\ Total(part) \in Nat /\ Total(all) \in Nat
BY TotalMonotone, TotalType

\* The one cell of a row in a column.
LEMMA CellOfOne ==
  ASSUME NEW rows, NEW col, NEW x \in rows, x[col] \in Nat,
         \A y \in rows : y.invoice = x.invoice => y = x
  PROVE  Total(InGroup(Column(rows, col), CellOrders(Column(rows, col)), x.invoice)) = x[col]
<1>1. PICK cell : cell = [row |-> x, amount |-> x[col]]
  OBVIOUS
<1>2. cell \in Column(rows, col) /\ cell.row = x /\ cell.amount = x[col]
  BY <1>1 DEF Column
<1>3. \A c \in Column(rows, col) : c.row \in rows /\ c = [row |-> c.row, amount |-> c.row[col]]
  BY DEF Column
<1>4. \A c \in Column(rows, col) : c.row.invoice = x.invoice => c = cell
  BY <1>1, <1>3
<1>5. InGroup(Column(rows, col), CellOrders(Column(rows, col)), x.invoice) = {cell}
  BY <1>2, <1>4 DEF InGroup, CellOrders
<1>6. QED
  BY <1>2, <1>5, TotalOne

\* What an order collects is at most its total: by receipts, by advances, and, once it is
\* cancelled, in the remainder that is written off.
LEMMA CollectedByOrder ==
  ASSUME FinanceInv, NEW v \in invoices,
         NEW paid \in SUBSET {c \in claims : c.doc = <<"receipt", v.id>>},
         NEW used \in SUBSET {a \in applications : a.invoice = v.id}
  PROVE  /\ Total(paid) \in Nat /\ Total(used) \in Nat /\ v.amount \in Nat
         /\ Total(paid) + Total(used) <= v.amount
         /\ \A x \in cancellations : x.invoice = v.id =>
              x.unpaid \in Nat /\ Total(paid) + Total(used) + x.unpaid <= v.amount
<1> DEFINE c == {q \in claims : q.doc = <<"receipt", v.id>>}
           a == {q \in applications : q.invoice = v.id}
<1>1. /\ IsFiniteSet(claims) /\ \A q \in claims : q.amount \in Nat
      /\ IsFiniteSet(applications) /\ \A q \in applications : q.amount \in Nat
      /\ v.amount \in Nat
  BY DEF FinanceInv, BankInv, ClaimOK, ApplicationsOK, ApplicationOK, InvoicesOK, Invoice
<1>2. Paid(v) = Total(c) + Total(a)
  BY DEF Paid
<1>3. c \in SUBSET claims /\ a \in SUBSET applications /\ paid \in SUBSET c /\ used \in SUBSET a
  OBVIOUS
<1> HIDE DEF c, a
<1>4. /\ IsFiniteSet(c) /\ \A q \in c : q.amount \in Nat
      /\ IsFiniteSet(a) /\ \A q \in a : q.amount \in Nat
  BY <1>1, <1>3, FS_Subset
<1>5. Total(paid) <= Total(c) /\ Total(paid) \in Nat /\ Total(c) \in Nat
  BY <1>3, <1>4, TotalWithin
<1>6. Total(used) <= Total(a) /\ Total(used) \in Nat /\ Total(a) \in Nat
  BY <1>3, <1>4, TotalWithin
<1>7. Paid(v) <= v.amount
  BY DEF FinanceInv, SalesLimitsOK
<1>8. ASSUME NEW x \in cancellations, x.invoice = v.id
      PROVE  x.unpaid \in Nat /\ Total(paid) + Total(used) + x.unpaid <= v.amount
  <2>1. x.refundable = Paid(v)
    BY <1>8 DEF FinanceInv, SalesLimitsOK
  <2>2. /\ x.unpaid \in Nat /\ x.refundable \in Nat /\ x.amount \in Nat
        /\ x.amount = x.unpaid + x.refundable
    BY DEF FinanceInv, CancellationsOK, CancellationOK
  <2>3. x.amount = v.amount
    BY <1>8 DEF FinanceInv, CancellationsOK, CancellationOK, InvoicesOK
  <2>4. QED
    BY <1>2, <1>5, <1>6, <2>1, <2>2, <2>3
<1>9. QED
  BY <1>1, <1>2, <1>5, <1>6, <1>7, <1>8

\* By every day the receivable was settled, in money, advances and cancellations, for no
\* more than had been invoiced by then.
LEMMA SettledFromInvoiced ==
  ASSUME FinanceInv, NEW d \in Days
  PROVE  ClaimsOf("receipt", d) + Applied(d) + NeverPaid(d) <= Invoiced(d)
<1> DEFINE A == UsesUpto("receipt", d)
           B == Upto(applications, d)
           X == Upto(cancellations, d)
           C == Column(X, "unpaid")
           S == Upto(PostedInvoices, d)
           none == {}
           Groups == {c.doc[2] : c \in claims} \cup {a.invoice : a \in applications}
                       \cup {x.invoice : x \in cancellations} \cup {v.id : v \in invoices}
<1>1. /\ IsFiniteSet(claims) /\ \A c \in claims : c.amount \in Nat
      /\ d \in Nat /\ \A c \in claims : c.line.date \in Nat
      /\ \A a \in applications : a.date \in Nat
      /\ \A x \in cancellations : x.date \in Nat
      /\ \A v \in invoices : v.date \in Nat /\ v.amount \in Nat
  BY DEF FinanceInv, BankInv, ClaimOK, BankLine, ApplicationsOK, ApplicationOK, CancellationsOK,
         CancellationOK, InvoicesOK, Invoice, Days
<1>2. /\ A \in SUBSET claims /\ B \in SUBSET applications /\ X \in SUBSET cancellations
      /\ S \in SUBSET invoices
  BY DEF UsesUpto, Upto, PostedInvoices
<1>3. /\ ClaimsOf("receipt", d) = Total(A) /\ Applied(d) = Total(B) /\ NeverPaid(d) = Total(C)
      /\ Invoiced(d) = Total(S)
  BY DEF ClaimsOf, UsesUpto, Applied, NeverPaid, Invoiced
<1>4. \A v, w \in invoices : v.id = w.id => v = w
  BY DEF FinanceInv, InvoicesOK
<1>5. ASSUME NEW c \in A
      PROVE  \E v \in S : c.doc = <<"receipt", v.id>>
  <2>1. UseOK(c) /\ c.kind = "receipt" /\ c.line.date <= d
    BY DEF UsesUpto, FinanceInv, ClaimsOK
  <2>2. PICK v \in PostedInvoices : c.doc = <<"receipt", v.id>> /\ v.date <= c.line.date
    BY <2>1 DEF UseOK, SalesUse, PurchaseUse, BankUse
  <2>3. v \in invoices
    BY <2>2 DEF PostedInvoices
  <2>4. v.date <= d
    BY <1>1, <1>2, <2>1, <2>2, <2>3
  <2>5. QED
    BY <2>2, <2>4 DEF Upto
<1>6. ASSUME NEW a \in B
      PROVE  \E v \in S : a.invoice = v.id
  <2>1. ApplicationOK(a) /\ a.date <= d
    BY <1>2 DEF FinanceInv, ApplicationsOK, Upto
  <2>2. PICK v \in PostedInvoices : a.invoice = v.id /\ v.date <= a.date
    BY <2>1 DEF ApplicationOK
  <2>3. v \in invoices
    BY <2>2 DEF PostedInvoices
  <2>4. v.date <= d
    BY <1>1, <1>2, <2>1, <2>2, <2>3
  <2>5. QED
    BY <2>2, <2>4 DEF Upto
<1>7. ASSUME NEW x \in X
      PROVE  \E v \in S : x.invoice = v.id
  <2>1. CancellationOK(x) /\ x.date <= d
    BY <1>2 DEF FinanceInv, CancellationsOK, Upto
  <2>2. PICK v \in invoices : v.id = x.invoice /\ v.date <= x.date /\ status[v.id] = "cancelled"
    BY <2>1 DEF CancellationOK
  <2>3. v \in PostedInvoices
    BY <1>2, <2>2 DEF PostedInvoices
  <2>4. v.date <= d
    BY <1>1, <1>2, <2>1, <2>2
  <2>5. QED
    BY <2>2, <2>3, <2>4 DEF Upto
<1>8. \A x, y \in X : x.invoice = y.invoice => x = y
  BY <1>2 DEF FinanceInv, CancellationsOK
<1>9. \A x \in X : x["unpaid"] \in Nat /\ x["unpaid"] = x.unpaid
  BY <1>2 DEF FinanceInv, CancellationsOK, CancellationOK
<1>10. /\ IsFiniteSet(A) /\ IsFiniteSet(B) /\ IsFiniteSet(X) /\ IsFiniteSet(S)
       /\ \A r \in A : r.amount \in Nat
       /\ \A r \in B : r.amount \in Nat
       /\ \A r \in S : r.amount \in Nat
  BY <1>1, <1>2, FS_Subset, RowsFinite
<1>11. \A c \in C : c.row \in X
  BY DEF Column
<1>12. /\ SubjectsOf(A) \in [A -> Groups] /\ OrdersOf(B) \in [B -> Groups]
       /\ CellOrders(C) \in [C -> Groups] /\ IdsOf(S) \in [S -> Groups]
       /\ IdsOf(none) \in [none -> Groups]
  <2>1. /\ SubjectsOf(A) \in [A -> Groups] /\ OrdersOf(B) \in [B -> Groups]
        /\ IdsOf(S) \in [S -> Groups] /\ IdsOf(none) \in [none -> Groups]
    BY <1>2 DEF SubjectsOf, OrdersOf, IdsOf
  <2>2. CellOrders(C) \in [C -> Groups]
    BY <1>2, <1>11 DEF CellOrders
  <2>3. QED
    BY <2>1, <2>2
<1>13. none = {}
  OBVIOUS
<1> HIDE DEF A, B, C, S, X, none, Groups
<1>14. IsFiniteSet(C) /\ \A r \in C : r.amount \in Nat
  BY <1>9, <1>10, ColumnOK DEF C
<1>15. ASSUME NEW i \in Groups
       PROVE  Total(InGroup(A, SubjectsOf(A), i)) + Total(InGroup(B, OrdersOf(B), i))
                + Total(InGroup(C, CellOrders(C), i))
              <= Total(InGroup(S, IdsOf(S), i)) + Total(InGroup(none, IdsOf(none), i))
  <2>1. Total(InGroup(none, IdsOf(none), i)) = 0
    BY <1>13, GroupOfNone
  <2>2. CASE ~ \E v \in S : v.id = i
    <3>1. /\ \A c \in A : SubjectsOf(A)[c] # i
          /\ \A a \in B : OrdersOf(B)[a] # i
          /\ \A v \in S : IdsOf(S)[v] # i
      BY <1>5, <1>6, <2>2 DEF SubjectsOf, OrdersOf, IdsOf
    <3>2. \A c \in C : CellOrders(C)[c] # i
      BY <1>7, <1>11, <2>2 DEF CellOrders
    <3>3. QED
      BY <2>1, <3>1, <3>2, GroupOfNone
  <2>3. CASE \E v \in S : v.id = i
    <3>1. PICK v \in S : v.id = i
      BY <2>3
    <3>2. v \in invoices /\ v.amount \in Nat
      BY <1>1, <1>2, <3>1
    <3>3. Total(InGroup(S, IdsOf(S), i)) = v.amount
      <4>1. IdsOf(S)[v] = i /\ \A q \in S : IdsOf(S)[q] = i => q = v
        BY <1>2, <1>4, <3>1 DEF IdsOf
      <4>2. InGroup(S, IdsOf(S), i) = {v}
        BY <3>1, <4>1 DEF InGroup
      <4>3. QED
        BY <3>2, <4>2, TotalOne
    <3>4. InGroup(A, SubjectsOf(A), i) \in SUBSET {c \in claims : c.doc = <<"receipt", v.id>>}
      <4> SUFFICES ASSUME NEW c \in InGroup(A, SubjectsOf(A), i)
                   PROVE  c \in claims /\ c.doc = <<"receipt", v.id>>
        OBVIOUS
      <4>1. c \in A /\ c.doc[2] = i
        BY DEF InGroup, SubjectsOf
      <4>2. QED
        BY <1>2, <1>5, <3>1, <4>1
    <3>5. InGroup(B, OrdersOf(B), i) \in SUBSET {a \in applications : a.invoice = v.id}
      BY <1>2, <3>1 DEF InGroup, OrdersOf
    <3>6. PICK paid, used : paid = InGroup(A, SubjectsOf(A), i) /\ used = InGroup(B, OrdersOf(B), i)
      OBVIOUS
    <3>7. /\ Total(paid) \in Nat /\ Total(used) \in Nat /\ v.amount \in Nat
          /\ Total(paid) + Total(used) <= v.amount
          /\ \A x \in cancellations : x.invoice = v.id =>
               x.unpaid \in Nat /\ Total(paid) + Total(used) + x.unpaid <= v.amount
      BY <3>2, <3>4, <3>5, <3>6, CollectedByOrder
    <3>8. CASE \E x \in X : x.invoice = i
      <4>1. PICK x \in X : x.invoice = i
        BY <3>8
      <4>2. Total(InGroup(C, CellOrders(C), i)) = x.unpaid
        <5>1. PICK col : col = "unpaid"
          OBVIOUS
        <5>2. C = Column(X, col) /\ x[col] \in Nat /\ x[col] = x.unpaid
          BY <1>9, <5>1 DEF C
        <5>3. Total(InGroup(Column(X, col), CellOrders(Column(X, col)), x.invoice)) = x[col]
          BY <1>8, <5>2, CellOfOne
        <5>4. QED
          BY <4>1, <5>2, <5>3
      <4>3. Total(paid) + Total(used) + x.unpaid <= v.amount
        BY <1>2, <3>1, <3>7, <4>1
      <4>4. x.unpaid \in Nat
        BY <1>9
      <4>5. QED
        BY <2>1, <3>3, <3>6, <3>7, <4>2, <4>3, <4>4
    <3>9. CASE ~ \E x \in X : x.invoice = i
      <4>1. \A c \in C : CellOrders(C)[c] # i
        BY <1>11, <3>9 DEF CellOrders
      <4>2. Total(InGroup(C, CellOrders(C), i)) = 0
        BY <4>1, GroupOfNone
      <4>3. QED
        BY <2>1, <3>3, <3>6, <3>7, <4>2
    <3>10. QED
      BY <3>8, <3>9
  <2>4. QED
    BY <2>2, <2>3
<1>16. GroupsWithin(Groups, A, SubjectsOf(A), B, OrdersOf(B), C, CellOrders(C),
                    S, IdsOf(S), none, IdsOf(none))
  BY <1>12, <1>15 DEF GroupsWithin
<1>17. \A r \in A \cup B \cup C \cup S \cup none : r.amount \in Nat
  BY <1>10, <1>13, <1>14
<1>18. IsFiniteSet(none) /\ Total(none) = 0
  BY <1>13, FS_EmptySet, TotalEmpty
<1>19. Total(A) + Total(B) + Total(C) <= Total(S) + Total(none)
  BY <1>10, <1>14, <1>16, <1>17, <1>18, TablesByGroup
<1>20. Total(S) \in Nat
  BY <1>10, TotalType
<1>21. QED
  BY <1>3, <1>18, <1>19, <1>20

\* By every day what was delivered or reversed had been invoiced: an order is delivered
\* once or cancelled once, never both.
LEMMA EarnedFromInvoiced ==
  ASSUME FinanceInv, NEW d \in Days
  PROVE  Delivered(d) + Reversed(d) <= Invoiced(d)
<1> DEFINE A == Upto(deliveries, d)
           B == Upto(cancellations, d)
           S == Upto(PostedInvoices, d)
           Groups == {x.invoice : x \in deliveries} \cup {x.invoice : x \in cancellations}
                       \cup {v.id : v \in invoices}
<1>1. /\ d \in Nat /\ \A x \in deliveries : x.date \in Nat
      /\ \A x \in cancellations : x.date \in Nat
      /\ \A v \in invoices : v.date \in Nat /\ v.amount \in Nat
  BY DEF FinanceInv, DeliveriesOK, DeliveryOK, CancellationsOK, CancellationOK, InvoicesOK, Invoice,
         Days
<1>2. /\ A \in SUBSET deliveries /\ B \in SUBSET cancellations /\ S \in SUBSET invoices
  BY DEF Upto, PostedInvoices
<1>3. Delivered(d) = Total(A) /\ Reversed(d) = Total(B) /\ Invoiced(d) = Total(S)
  BY DEF Delivered, Reversed, Invoiced
<1>4. \A v, w \in invoices : v.id = w.id => v = w
  BY DEF FinanceInv, InvoicesOK
<1>5. ASSUME NEW x \in A
      PROVE  /\ \E v \in S : v.id = x.invoice /\ v.amount = x.amount
             /\ status[x.invoice] = "delivered"
  <2>1. DeliveryOK(x) /\ x.date <= d
    BY <1>2 DEF FinanceInv, DeliveriesOK, Upto
  <2>2. PICK v \in invoices : v.id = x.invoice /\ v.amount = x.amount /\ v.date <= x.date
    BY <2>1 DEF DeliveryOK
  <2>3. v \in PostedInvoices /\ status[x.invoice] = "delivered"
    BY <2>1, <2>2 DEF PostedInvoices, DeliveryOK
  <2>4. v.date <= d
    BY <1>1, <1>2, <2>1, <2>2
  <2>5. QED
    BY <2>2, <2>3, <2>4 DEF Upto
<1>6. ASSUME NEW x \in B
      PROVE  /\ \E v \in S : v.id = x.invoice /\ v.amount = x.amount
             /\ status[x.invoice] = "cancelled"
  <2>1. CancellationOK(x) /\ x.date <= d
    BY <1>2 DEF FinanceInv, CancellationsOK, Upto
  <2>2. PICK v \in invoices : v.id = x.invoice /\ v.amount = x.amount /\ v.date <= x.date
    BY <2>1 DEF CancellationOK
  <2>3. v \in PostedInvoices /\ status[x.invoice] = "cancelled"
    BY <1>2, <2>1, <2>2 DEF PostedInvoices, CancellationOK
  <2>4. v.date <= d
    BY <1>1, <1>2, <2>1, <2>2
  <2>5. QED
    BY <2>2, <2>3, <2>4 DEF Upto
<1>7. /\ \A x, y \in A : x.invoice = y.invoice => x = y
      /\ \A x, y \in B : x.invoice = y.invoice => x = y
  BY <1>2 DEF FinanceInv, DeliveriesOK, CancellationsOK
<1>8. /\ OrdersOf(A) \in [A -> Groups] /\ OrdersOf(B) \in [B -> Groups]
      /\ IdsOf(S) \in [S -> Groups]
  BY <1>2 DEF OrdersOf, IdsOf
<1>9. /\ IsFiniteSet(A) /\ IsFiniteSet(B) /\ IsFiniteSet(S)
      /\ \A r \in A : r.amount \in Nat
      /\ \A r \in B : r.amount \in Nat
      /\ \A r \in S : r.amount \in Nat
  BY RowsFinite
<1> HIDE DEF A, B, S, Groups
<1>10. ASSUME NEW i \in Groups
       PROVE  Total(InGroup(A, OrdersOf(A), i)) + Total(InGroup(B, OrdersOf(B), i))
                <= Total(InGroup(S, IdsOf(S), i))
  <2>1. CASE ~ \E v \in S : v.id = i
    <3>1. /\ \A x \in A : OrdersOf(A)[x] # i
          /\ \A x \in B : OrdersOf(B)[x] # i
          /\ \A v \in S : IdsOf(S)[v] # i
      BY <1>5, <1>6, <2>1 DEF OrdersOf, IdsOf
    <3>2. QED
      BY <3>1, GroupOfNone
  <2>2. CASE \E v \in S : v.id = i
    <3>1. PICK v \in S : v.id = i
      BY <2>2
    <3>2. v \in invoices /\ v.amount \in Nat
      BY <1>1, <1>2, <3>1
    <3>3. Total(InGroup(S, IdsOf(S), i)) = v.amount
      <4>1. IdsOf(S)[v] = i /\ \A q \in S : IdsOf(S)[q] = i => q = v
        BY <1>2, <1>4, <3>1 DEF IdsOf
      <4>2. InGroup(S, IdsOf(S), i) = {v}
        BY <3>1, <4>1 DEF InGroup
      <4>3. QED
        BY <3>2, <4>2, TotalOne
    <3>4. CASE \E x \in A : x.invoice = i
      <4>1. PICK x \in A : x.invoice = i
        BY <3>4
      <4>2. x.amount = v.amount
        BY <1>2, <1>4, <1>5, <3>1, <4>1
      <4>3. \A y \in B : OrdersOf(B)[y] # i
        BY <1>5, <1>6, <4>1 DEF OrdersOf
      <4>4. InGroup(A, OrdersOf(A), i) = {x}
        BY <1>7, <4>1 DEF InGroup, OrdersOf
      <4>5. Total({x}) = v.amount
        BY <1>9, <4>2, TotalOne
      <4>6. Total(InGroup(B, OrdersOf(B), i)) = 0
        BY <4>3, GroupOfNone
      <4>7. QED
        BY <3>2, <3>3, <4>4, <4>5, <4>6
    <3>5. CASE ~ \E x \in A : x.invoice = i
      <4>1. \A y \in A : OrdersOf(A)[y] # i
        BY <3>5 DEF OrdersOf
      <4>2. Total(InGroup(A, OrdersOf(A), i)) = 0
        BY <4>1, GroupOfNone
      <4>3. CASE \E x \in B : x.invoice = i
        <5>1. PICK x \in B : x.invoice = i
          BY <4>3
        <5>2. x.amount = v.amount
          BY <1>2, <1>4, <1>6, <3>1, <5>1
        <5>3. InGroup(B, OrdersOf(B), i) = {x}
          BY <1>7, <5>1 DEF InGroup, OrdersOf
        <5>4. Total({x}) = v.amount
          BY <1>9, <5>2, TotalOne
        <5>5. QED
          BY <3>2, <3>3, <4>2, <5>3, <5>4
      <4>4. CASE ~ \E x \in B : x.invoice = i
        <5>1. \A y \in B : OrdersOf(B)[y] # i
          BY <4>4 DEF OrdersOf
        <5>2. Total(InGroup(B, OrdersOf(B), i)) = 0
          BY <5>1, GroupOfNone
        <5>3. QED
          BY <3>2, <3>3, <4>2, <5>2
      <4>5. QED
        BY <4>3, <4>4
    <3>6. QED
      BY <3>4, <3>5
  <2>3. QED
    BY <2>1, <2>2
<1>11. TwoWithin(Groups, A, OrdersOf(A), B, OrdersOf(B), S, IdsOf(S))
  BY <1>8, <1>10 DEF TwoWithin
<1>12. Total(A) + Total(B) <= Total(S)
  BY <1>9, <1>11, TwoTablesByGroup
<1>13. QED
  BY <1>3, <1>12

\* The refunds of advances, or of cancelled orders, up to a day.
RefundRows(origin, d) ==
  {c \in claims : c.kind = "customer_refund" /\ c.doc[1] = origin /\ c.line.date <= d}

\* By every day no more of the advances was applied or refunded than had been received:
\* an advance is used only after it came in, and only for what is left of it.
LEMMA UsedFromAdvances ==
  ASSUME FinanceInv, NEW d \in Days
  PROVE  Applied(d) + RefundsOf("advance", d) <= ClaimsOf("customer_advance", d)
<1> DEFINE A == Upto(applications, d)
           B == RefundRows("advance", d)
           S == UsesUpto("customer_advance", d)
           Groups == {a.advance : a \in applications} \cup {c.doc[2] : c \in claims} \cup ClaimKeys
<1>1. /\ d \in Nat /\ \A a \in applications : a.date \in Nat /\ a.amount \in Nat
      /\ \A c \in claims : c.line.date \in Nat /\ c.amount \in Nat
      /\ IsFiniteSet(claims) /\ IsFiniteSet(applications)
  BY DEF FinanceInv, ApplicationsOK, ApplicationOK, BankInv, ClaimOK, BankLine, Days
<1>2. A \in SUBSET applications /\ B \in SUBSET claims /\ S \in SUBSET claims
  BY DEF Upto, RefundRows, UsesUpto
<1>3. /\ Applied(d) = Total(A) /\ RefundsOf("advance", d) = Total(B)
      /\ ClaimsOf("customer_advance", d) = Total(S)
  BY DEF Applied, RefundsOf, RefundRows, ClaimsOf, UsesUpto
<1>4. \A c, e \in claims : c.key = e.key => c = e
  BY DEF FinanceInv, ClaimsOK
<1>5. ASSUME NEW a \in A
      PROVE  \E adv \in S : a.advance = adv.key
  <2>1. ApplicationOK(a) /\ a.date <= d
    BY <1>2 DEF FinanceInv, ApplicationsOK, Upto
  <2>2. PICK adv \in Advances : a.advance = adv.key /\ adv.line.date <= a.date
    BY <2>1 DEF ApplicationOK
  <2>3. adv \in claims /\ adv.kind = "customer_advance"
    BY <2>2 DEF Advances
  <2>4. adv.line.date <= d
    BY <1>1, <1>2, <2>1, <2>2, <2>3
  <2>5. QED
    BY <2>2, <2>3, <2>4 DEF UsesUpto
<1>6. ASSUME NEW c \in B
      PROVE  \E adv \in S : c.doc = <<"advance", adv.key>>
  <2>1. UseOK(c) /\ c.kind = "customer_refund" /\ c.doc[1] = "advance" /\ c.line.date <= d
    BY <1>2 DEF RefundRows, FinanceInv, ClaimsOK
  <2>2. PICK adv \in Advances : c.doc = <<"advance", adv.key>> /\ adv.line.date <= c.line.date
    BY <2>1 DEF UseOK, SalesUse, PurchaseUse, BankUse
  <2>3. adv \in claims /\ adv.kind = "customer_advance"
    BY <2>2 DEF Advances
  <2>4. adv.line.date <= d
    BY <1>1, <1>2, <2>1, <2>2, <2>3
  <2>5. QED
    BY <2>2, <2>3, <2>4 DEF UsesUpto
<1>7. AdvancesOf(A) \in [A -> Groups] /\ SubjectsOf(B) \in [B -> Groups] /\ KeysOf(S) \in [S -> Groups]
  BY <1>2 DEF AdvancesOf, SubjectsOf, KeysOf, ClaimKeys
<1>8. /\ IsFiniteSet(A) /\ IsFiniteSet(B) /\ IsFiniteSet(S)
      /\ \A r \in A : r.amount \in Nat
      /\ \A r \in B : r.amount \in Nat
      /\ \A r \in S : r.amount \in Nat
  BY <1>1, <1>2, FS_Subset
<1>9. \A adv \in S : adv \in Advances
  BY DEF UsesUpto, Advances
<1> HIDE DEF A, B, S, Groups
<1>10. ASSUME NEW i \in Groups
       PROVE  Total(InGroup(A, AdvancesOf(A), i)) + Total(InGroup(B, SubjectsOf(B), i))
                <= Total(InGroup(S, KeysOf(S), i))
  <2>1. CASE ~ \E adv \in S : adv.key = i
    <3>1. /\ \A x \in A : AdvancesOf(A)[x] # i
          /\ \A x \in B : SubjectsOf(B)[x] # i
          /\ \A v \in S : KeysOf(S)[v] # i
      BY <1>5, <1>6, <2>1 DEF AdvancesOf, SubjectsOf, KeysOf
    <3>2. QED
      BY <3>1, GroupOfNone
  <2>2. CASE \E adv \in S : adv.key = i
    <3>1. PICK adv \in S : adv.key = i
      BY <2>2
    <3>2. adv \in Advances /\ adv \in claims /\ adv.amount \in Nat
      BY <1>1, <1>2, <1>9, <3>1
    <3>3. Total(InGroup(S, KeysOf(S), i)) = adv.amount
      <4>1. KeysOf(S)[adv] = i /\ \A q \in S : KeysOf(S)[q] = i => q = adv
        BY <1>2, <1>4, <3>1 DEF KeysOf
      <4>2. InGroup(S, KeysOf(S), i) = {adv}
        BY <3>1, <4>1 DEF InGroup
      <4>3. QED
        BY <3>2, <4>2, TotalOne
    <3>4. PICK all, used : /\ all = {a \in applications : a.advance = adv.key}
                           /\ used = {c \in claims : c.kind = "customer_refund"
                                                     /\ c.doc = <<"advance", adv.key>>}
      OBVIOUS
    <3>5. adv.amount - Total(all) - Total(used) >= 0
      BY <3>2, <3>4 DEF FinanceInv, SalesLimitsOK, AdvanceRemaining, RefundedFrom
    <3>6. InGroup(A, AdvancesOf(A), i) \in SUBSET all
      BY <1>2, <3>1, <3>4 DEF InGroup, AdvancesOf
    <3>7. InGroup(B, SubjectsOf(B), i) \in SUBSET used
      <4> SUFFICES ASSUME NEW c \in InGroup(B, SubjectsOf(B), i) PROVE c \in used
        OBVIOUS
      <4>1. c \in B /\ c.doc[2] = i
        BY DEF InGroup, SubjectsOf
      <4>2. c \in claims /\ c.kind = "customer_refund"
        BY <1>2, <4>1 DEF B, RefundRows
      <4>3. PICK e \in S : c.doc = <<"advance", e.key>>
        BY <1>6, <4>1
      <4>4. QED
        BY <3>1, <3>4, <4>1, <4>2, <4>3
    <3>8. /\ IsFiniteSet(all) /\ \A r \in all : r.amount \in Nat
          /\ IsFiniteSet(used) /\ \A r \in used : r.amount \in Nat
      BY <1>1, <3>4, FS_Subset
    <3>9. /\ Total(InGroup(A, AdvancesOf(A), i)) <= Total(all)
          /\ Total(InGroup(A, AdvancesOf(A), i)) \in Nat /\ Total(all) \in Nat
      BY <3>6, <3>8, TotalWithin
    <3>10. /\ Total(InGroup(B, SubjectsOf(B), i)) <= Total(used)
           /\ Total(InGroup(B, SubjectsOf(B), i)) \in Nat /\ Total(used) \in Nat
      BY <3>7, <3>8, TotalWithin
    <3>11. QED
      BY <3>2, <3>3, <3>5, <3>9, <3>10
  <2>3. QED
    BY <2>1, <2>2
<1>11. TwoWithin(Groups, A, AdvancesOf(A), B, SubjectsOf(B), S, KeysOf(S))
  BY <1>7, <1>10 DEF TwoWithin
<1>12. Total(A) + Total(B) <= Total(S)
  BY <1>8, <1>11, TwoTablesByGroup
<1>13. QED
  BY <1>3, <1>12

\* By every day cancelled orders were refunded only what they had become refundable for.
LEMMA RefundedFromRefundable ==
  ASSUME FinanceInv, NEW d \in Days
  PROVE  RefundsOf("cancellation", d) <= Refundable(d)
<1> DEFINE R == RefundRows("cancellation", d)
           X == Upto(cancellations, d)
           S == Column(X, "refundable")
           Groups == {c.doc[2] : c \in claims} \cup {x.invoice : x \in cancellations}
<1>1. /\ d \in Nat /\ \A x \in cancellations : x.date \in Nat
      /\ \A c \in claims : c.line.date \in Nat /\ c.amount \in Nat
      /\ IsFiniteSet(claims) /\ IsFiniteSet(cancellations)
  BY DEF FinanceInv, CancellationsOK, CancellationOK, BankInv, ClaimOK, BankLine, Days
<1>2. R \in SUBSET claims /\ X \in SUBSET cancellations
  BY DEF Upto, RefundRows
<1>3. RefundsOf("cancellation", d) = Total(R) /\ Refundable(d) = Total(S)
  BY DEF RefundsOf, RefundRows, Refundable
<1>4. \A x, y \in X : x.invoice = y.invoice => x = y
  BY <1>2 DEF FinanceInv, CancellationsOK
<1>5. \A x \in X : x["refundable"] \in Nat /\ x["refundable"] = x.refundable
  BY <1>2 DEF FinanceInv, CancellationsOK, CancellationOK
<1>6. ASSUME NEW c \in R
      PROVE  \E x \in X : c.doc = <<"cancellation", x.invoice>>
  <2>1. UseOK(c) /\ c.kind = "customer_refund" /\ c.doc[1] = "cancellation" /\ c.line.date <= d
    BY <1>2 DEF RefundRows, FinanceInv, ClaimsOK
  <2>2. PICK x \in cancellations : c.doc = <<"cancellation", x.invoice>> /\ x.date <= c.line.date
    BY <2>1 DEF UseOK, SalesUse, PurchaseUse, BankUse
  <2>3. x.date <= d
    BY <1>1, <1>2, <2>1, <2>2
  <2>4. QED
    BY <2>2, <2>3 DEF Upto
<1>7. IsFiniteSet(R) /\ IsFiniteSet(X) /\ \A r \in R : r.amount \in Nat
  BY <1>1, <1>2, FS_Subset
<1>8. \A c \in S : c.row \in X
  BY DEF Column
<1>9. SubjectsOf(R) \in [R -> Groups]
  BY <1>2 DEF SubjectsOf
<1>10. CellOrders(S) \in [S -> Groups]
  BY <1>2, <1>8 DEF CellOrders
<1> HIDE DEF R, S, X, Groups
<1>11. IsFiniteSet(S) /\ \A r \in S : r.amount \in Nat
  BY <1>5, <1>7, ColumnOK DEF S
<1>12. ASSUME NEW i \in Groups
       PROVE  Total(InGroup(R, SubjectsOf(R), i)) <= Total(InGroup(S, CellOrders(S), i))
  <2>1. InGroup(S, CellOrders(S), i) \in SUBSET S
    BY DEF InGroup
  <2>2. Total(InGroup(S, CellOrders(S), i)) \in Nat
    BY <1>11, <2>1, TotalType
  <2>3. CASE ~ \E x \in X : x.invoice = i
    <3>1. \A c \in R : SubjectsOf(R)[c] # i
      BY <1>6, <2>3 DEF SubjectsOf
    <3>2. QED
      BY <2>2, <3>1, GroupOfNone
  <2>4. CASE \E x \in X : x.invoice = i
    <3>1. PICK x \in X : x.invoice = i
      BY <2>4
    <3>2. Total(InGroup(S, CellOrders(S), i)) = x.refundable
      <4>1. PICK col : col = "refundable"
        OBVIOUS
      <4>2. S = Column(X, col) /\ x[col] \in Nat /\ x[col] = x.refundable
        BY <1>5, <4>1 DEF S
      <4>3. Total(InGroup(Column(X, col), CellOrders(Column(X, col)), x.invoice)) = x[col]
        BY <1>4, <4>2, CellOfOne
      <4>4. QED
        BY <3>1, <4>2, <4>3
    <3>3. PICK all : all = {c \in claims : c.kind = "customer_refund"
                                           /\ c.doc = <<"cancellation", x.invoice>>}
      OBVIOUS
    <3>4. x.refundable - Total(all) >= 0 /\ x.refundable \in Nat
      BY <1>2, <1>5, <3>3 DEF FinanceInv, SalesLimitsOK, RefundRemaining, RefundedFrom
    <3>5. InGroup(R, SubjectsOf(R), i) \in SUBSET all
      <4> SUFFICES ASSUME NEW c \in InGroup(R, SubjectsOf(R), i) PROVE c \in all
        OBVIOUS
      <4>1. c \in R /\ c.doc[2] = i
        BY DEF InGroup, SubjectsOf
      <4>2. c \in claims /\ c.kind = "customer_refund"
        BY <1>2, <4>1 DEF R, RefundRows
      <4>3. PICK y \in X : c.doc = <<"cancellation", y.invoice>>
        BY <1>6, <4>1
      <4>4. QED
        BY <3>1, <3>3, <4>1, <4>2, <4>3
    <3>6. IsFiniteSet(all) /\ \A r \in all : r.amount \in Nat
      BY <1>1, <3>3, FS_Subset
    <3>7. /\ Total(InGroup(R, SubjectsOf(R), i)) <= Total(all)
          /\ Total(InGroup(R, SubjectsOf(R), i)) \in Nat /\ Total(all) \in Nat
      BY <3>5, <3>6, TotalWithin
    <3>8. QED
      BY <3>2, <3>4, <3>7
  <2>5. QED
    BY <2>3, <2>4
<1>13. Total(R) <= Total(S)
  BY <1>7, <1>9, <1>10, <1>11, <1>12, TotalByGroup
<1>14. QED
  BY <1>3, <1>13

\* Every day the ledger holds as receivable, deferred, advanced and to be refunded what the
\* sales documents say, and none of the four has the wrong sign.
THEOREM SalesAlwaysTieOut == FinanceSpec => []SubledgersTieOut
<1>1. HistoryInv => SubledgersTieOut
  <2> SUFFICES ASSUME FinanceInv, NEW d \in Days
               PROVE  /\ \A account \in ReceivableAccounts :
                           Balance(account, d) = ReceivableTieOut(account, d)
                      /\ Balance("AR", d) >= 0
                      /\ \A account \in ReceivableAccounts \ {"AR"} : Balance(account, d) <= 0
    BY DEF HistoryInv, SubledgersTieOut
  <2>1. SalesTies(d)
    BY DEF FinanceInv, TiesOK
  <2>2. /\ Invoiced(d) \in Nat /\ Delivered(d) \in Nat /\ Reversed(d) \in Nat
        /\ NeverPaid(d) \in Nat /\ Refundable(d) \in Nat /\ Applied(d) \in Nat
        /\ ClaimsOf("receipt", d) \in Nat /\ ClaimsOf("customer_advance", d) \in Nat
        /\ RefundsOf("advance", d) \in Nat /\ RefundsOf("cancellation", d) \in Nat
    BY SumTypes, ClaimSumTypes
  <2>3. /\ ReceivableTieOut("AR", d)
             = Invoiced(d) - ClaimsOf("receipt", d) - Applied(d) - NeverPaid(d)
        /\ ReceivableTieOut("DEFERRED_REVENUE", d) = - (Invoiced(d) - Delivered(d) - Reversed(d))
        /\ ReceivableTieOut("CUSTOMER_ADVANCE", d)
             = - (ClaimsOf("customer_advance", d) - Applied(d) - RefundsOf("advance", d))
        /\ ReceivableTieOut("CUSTOMER_REFUND", d)
             = - (Refundable(d) - RefundsOf("cancellation", d))
    BY DEF ReceivableTieOut, Invoiced, Applied, NeverPaid, Delivered, Reversed, Refundable
  <2>4. /\ Balance("AR", d) = ReceivableTieOut("AR", d)
        /\ Balance("DEFERRED_REVENUE", d) = ReceivableTieOut("DEFERRED_REVENUE", d)
        /\ Balance("CUSTOMER_ADVANCE", d) = ReceivableTieOut("CUSTOMER_ADVANCE", d)
        /\ Balance("CUSTOMER_REFUND", d) = ReceivableTieOut("CUSTOMER_REFUND", d)
    BY <2>1, <2>2, <2>3 DEF SalesTies
  <2>5. /\ ClaimsOf("receipt", d) + Applied(d) + NeverPaid(d) <= Invoiced(d)
        /\ Delivered(d) + Reversed(d) <= Invoiced(d)
        /\ Applied(d) + RefundsOf("advance", d) <= ClaimsOf("customer_advance", d)
        /\ RefundsOf("cancellation", d) <= Refundable(d)
    BY SettledFromInvoiced, EarnedFromInvoiced, UsedFromAdvances, RefundedFromRefundable
  <2>6. /\ Balance("AR", d) >= 0 /\ Balance("DEFERRED_REVENUE", d) <= 0
        /\ Balance("CUSTOMER_ADVANCE", d) <= 0 /\ Balance("CUSTOMER_REFUND", d) <= 0
    BY <2>1, <2>2, <2>5 DEF SalesTies
  <2>7. QED
    BY <2>4, <2>6 DEF ReceivableAccounts
<1>2. QED
  BY <1>1, HistoryInvariant, PTL

-----------------------------------------------------------------------------
(* What a party paid and what it was returned, up to a day. *)

AdvancesFrom(party, d) == {c \in claims : c.line.date <= d /\ c.doc = <<"party", party>>}
ReceiptsFrom(party, d) ==
  {c \in claims : /\ c.line.date <= d
                  /\ \E v \in invoices : v.party = party /\ c.doc = <<"receipt", v.id>>}
AdvancesReturned(party, d) ==
  {c \in claims : /\ c.line.date <= d
                  /\ \E adv \in Advances : /\ adv.doc = <<"party", party>>
                                           /\ c.doc = <<"advance", adv.key>>}
OrdersReturned(party, d) ==
  {c \in claims : /\ c.line.date <= d
                  /\ \E v \in invoices : v.party = party /\ c.doc = <<"cancellation", v.id>>}
AppliedFor(party, d) ==
  {a \in applications : a.date <= d /\ \E v \in invoices : v.party = party /\ a.invoice = v.id}

\* What a party's advances lost to its orders and to refunds was received from it before.
LEMMA AdvancesCoverUses ==
  ASSUME FinanceInv, NEW p, NEW d \in Days
  PROVE  Total(AppliedFor(p, d)) + Total(AdvancesReturned(p, d)) <= Total(AdvancesFrom(p, d))
<1> DEFINE A == AppliedFor(p, d)
           B == AdvancesReturned(p, d)
           S == AdvancesFrom(p, d)
           Groups == {a.advance : a \in applications} \cup {c.doc[2] : c \in claims} \cup ClaimKeys
<1>1. /\ d \in Nat /\ \A a \in applications : a.date \in Nat /\ a.amount \in Nat
      /\ \A c \in claims : c.line.date \in Nat /\ c.amount \in Nat
      /\ IsFiniteSet(claims) /\ IsFiniteSet(applications)
  BY DEF FinanceInv, ApplicationsOK, ApplicationOK, BankInv, ClaimOK, BankLine, Days
<1>2. A \in SUBSET applications /\ B \in SUBSET claims /\ S \in SUBSET claims
  BY DEF AppliedFor, AdvancesReturned, AdvancesFrom
<1>3. \A c, e \in claims : c.key = e.key => c = e
  BY DEF FinanceInv, ClaimsOK
<1>4. ASSUME NEW a \in A
      PROVE  \E adv \in S : a.advance = adv.key
  <2>1. PICK v \in invoices : v.party = p /\ a.invoice = v.id
    BY DEF AppliedFor
  <2>2. PICK w \in PostedInvoices, adv \in Advances :
          /\ a.invoice = w.id /\ a.advance = adv.key
          /\ adv.line.date <= a.date /\ adv.doc = <<"party", w.party>>
    BY <1>2 DEF FinanceInv, ApplicationsOK, ApplicationOK
  <2>3. w = v
    <3>1. \A x, y \in invoices : x.id = y.id => x = y
      BY DEF FinanceInv, InvoicesOK
    <3>2. w \in invoices /\ w.id = v.id
      BY <2>1, <2>2 DEF PostedInvoices
    <3>3. QED
      BY <3>1, <3>2
  <2>4. adv \in claims /\ a.date <= d
    BY <2>2 DEF Advances, AppliedFor
  <2>5. adv.line.date <= d
    BY <1>1, <1>2, <2>2, <2>4
  <2>6. QED
    BY <2>1, <2>2, <2>3, <2>4, <2>5 DEF AdvancesFrom
<1>5. ASSUME NEW c \in B
      PROVE  /\ \E adv \in S : c.doc = <<"advance", adv.key>>
             /\ c.kind = "customer_refund"
  <2>1. PICK adv \in Advances : adv.doc = <<"party", p>> /\ c.doc = <<"advance", adv.key>>
    BY DEF AdvancesReturned
  <2>2. UseOK(c) /\ c.doc[1] = "advance" /\ c.doc[2] = adv.key /\ c.line.date <= d
    BY <1>2, <2>1 DEF FinanceInv, ClaimsOK, AdvancesReturned
  <2>3. PICK e \in Advances : /\ c.kind = "customer_refund"
                              /\ c.doc = <<"advance", e.key>> /\ e.line.date <= c.line.date
    BY <2>2 DEF UseOK, SalesUse, PurchaseUse, BankUse
  <2>4. e.key = adv.key /\ e \in claims /\ adv \in claims
    BY <2>2, <2>3 DEF Advances
  <2>5. e = adv
    BY <1>3, <2>4
  <2>6. adv.line.date <= d
    BY <1>1, <1>2, <2>2, <2>3, <2>4, <2>5
  <2>7. adv \in S
    BY <2>1, <2>4, <2>6 DEF AdvancesFrom
  <2>8. QED
    BY <2>1, <2>3, <2>7
<1>6. ASSUME NEW adv \in S
      PROVE  adv \in Advances
  <2>1. UseOK(adv) /\ adv.doc[1] = "party" /\ adv \in claims
    BY <1>2 DEF AdvancesFrom, FinanceInv, ClaimsOK
  <2>2. adv.kind = "customer_advance"
    BY <2>1 DEF UseOK, SalesUse, PurchaseUse, BankUse
  <2>3. QED
    BY <2>1, <2>2 DEF Advances
<1>7. AdvancesOf(A) \in [A -> Groups] /\ SubjectsOf(B) \in [B -> Groups] /\ KeysOf(S) \in [S -> Groups]
  BY <1>2 DEF AdvancesOf, SubjectsOf, KeysOf, ClaimKeys
<1>8. /\ IsFiniteSet(A) /\ IsFiniteSet(B) /\ IsFiniteSet(S)
      /\ \A r \in A : r.amount \in Nat
      /\ \A r \in B : r.amount \in Nat
      /\ \A r \in S : r.amount \in Nat
  BY <1>1, <1>2, FS_Subset
<1> HIDE DEF A, B, S, Groups
<1>9. ASSUME NEW i \in Groups
      PROVE  Total(InGroup(A, AdvancesOf(A), i)) + Total(InGroup(B, SubjectsOf(B), i))
               <= Total(InGroup(S, KeysOf(S), i))
  <2>1. CASE ~ \E adv \in S : adv.key = i
    <3>1. /\ \A x \in A : AdvancesOf(A)[x] # i
          /\ \A x \in B : SubjectsOf(B)[x] # i
          /\ \A v \in S : KeysOf(S)[v] # i
      BY <1>4, <1>5, <2>1 DEF AdvancesOf, SubjectsOf, KeysOf
    <3>2. QED
      BY <3>1, GroupOfNone
  <2>2. CASE \E adv \in S : adv.key = i
    <3>1. PICK adv \in S : adv.key = i
      BY <2>2
    <3>2. adv \in Advances /\ adv \in claims /\ adv.amount \in Nat
      BY <1>1, <1>2, <1>6, <3>1
    <3>3. Total(InGroup(S, KeysOf(S), i)) = adv.amount
      <4>1. KeysOf(S)[adv] = i /\ \A q \in S : KeysOf(S)[q] = i => q = adv
        BY <1>2, <1>3, <3>1 DEF KeysOf
      <4>2. InGroup(S, KeysOf(S), i) = {adv}
        BY <3>1, <4>1 DEF InGroup
      <4>3. QED
        BY <3>2, <4>2, TotalOne
    <3>4. PICK all, used : /\ all = {a \in applications : a.advance = adv.key}
                           /\ used = {c \in claims : c.kind = "customer_refund"
                                                     /\ c.doc = <<"advance", adv.key>>}
      OBVIOUS
    <3>5. adv.amount - Total(all) - Total(used) >= 0
      BY <3>2, <3>4 DEF FinanceInv, SalesLimitsOK, AdvanceRemaining, RefundedFrom
    <3>6. InGroup(A, AdvancesOf(A), i) \in SUBSET all
      BY <1>2, <3>1, <3>4 DEF InGroup, AdvancesOf
    <3>7. InGroup(B, SubjectsOf(B), i) \in SUBSET used
      <4> SUFFICES ASSUME NEW c \in InGroup(B, SubjectsOf(B), i) PROVE c \in used
        OBVIOUS
      <4>1. c \in B /\ c.doc[2] = i
        BY DEF InGroup, SubjectsOf
      <4>2. PICK e \in S : c.doc = <<"advance", e.key>>
        BY <1>5, <4>1
      <4>3. QED
        BY <1>2, <1>5, <3>1, <3>4, <4>1, <4>2
    <3>8. /\ IsFiniteSet(all) /\ \A r \in all : r.amount \in Nat
          /\ IsFiniteSet(used) /\ \A r \in used : r.amount \in Nat
      BY <1>1, <3>4, FS_Subset
    <3>9. /\ Total(InGroup(A, AdvancesOf(A), i)) <= Total(all)
          /\ Total(InGroup(A, AdvancesOf(A), i)) \in Nat /\ Total(all) \in Nat
      BY <3>6, <3>8, TotalWithin
    <3>10. /\ Total(InGroup(B, SubjectsOf(B), i)) <= Total(used)
           /\ Total(InGroup(B, SubjectsOf(B), i)) \in Nat /\ Total(used) \in Nat
      BY <3>7, <3>8, TotalWithin
    <3>11. QED
      BY <3>2, <3>3, <3>5, <3>9, <3>10
  <2>3. QED
    BY <2>1, <2>2
<1>10. TwoWithin(Groups, A, AdvancesOf(A), B, SubjectsOf(B), S, KeysOf(S))
  BY <1>7, <1>9 DEF TwoWithin
<1>11. QED
  BY <1>8, <1>10, TwoTablesByGroup DEF A, B, S

\* What a party was refunded of cancelled orders it had paid for them before, in receipts
\* and in advances applied: nothing is collected for an order after its cancellation.
LEMMA PaymentsCoverRefunds ==
  ASSUME FinanceInv, NEW p, NEW d \in Days
  PROVE  Total(OrdersReturned(p, d)) <= Total(ReceiptsFrom(p, d)) + Total(AppliedFor(p, d))
<1> DEFINE A == OrdersReturned(p, d)
           S == ReceiptsFrom(p, d)
           Z == AppliedFor(p, d)
           none == {}
           Groups == {c.doc[2] : c \in claims} \cup {a.invoice : a \in applications}
<1>1. /\ d \in Nat /\ \A a \in applications : a.date \in Nat /\ a.amount \in Nat
      /\ \A c \in claims : c.line.date \in Nat /\ c.amount \in Nat
      /\ \A x \in cancellations : x.date \in Nat /\ x.refundable \in Nat
      /\ IsFiniteSet(claims) /\ IsFiniteSet(applications)
  BY DEF FinanceInv, ApplicationsOK, ApplicationOK, CancellationsOK, CancellationOK, BankInv, ClaimOK,
         BankLine, Days
<1>2. A \in SUBSET claims /\ S \in SUBSET claims /\ Z \in SUBSET applications
  BY DEF OrdersReturned, ReceiptsFrom, AppliedFor
<1>3. \A v, w \in invoices : v.id = w.id => v = w
  BY DEF FinanceInv, InvoicesOK
<1>4. ASSUME NEW c \in A
      PROVE  \E x \in cancellations : \E v \in invoices :
               /\ c.kind = "customer_refund" /\ c.doc = <<"cancellation", v.id>>
               /\ x.invoice = v.id /\ v.party = p /\ x.date <= d
  <2>1. PICK v \in invoices : v.party = p /\ c.doc = <<"cancellation", v.id>>
    BY DEF OrdersReturned
  <2>2. UseOK(c) /\ c.doc[1] = "cancellation" /\ c.doc[2] = v.id /\ c.line.date <= d
    BY <1>2, <2>1 DEF FinanceInv, ClaimsOK, OrdersReturned
  <2>3. PICK x \in cancellations : /\ c.kind = "customer_refund"
                                   /\ c.doc = <<"cancellation", x.invoice>>
                                   /\ x.date <= c.line.date
    BY <2>2 DEF UseOK, SalesUse, PurchaseUse, BankUse
  <2>4. x.invoice = v.id
    BY <2>2, <2>3
  <2>5. x.date <= d
    BY <1>1, <1>2, <2>2, <2>3
  <2>6. QED
    BY <2>1, <2>3, <2>4, <2>5
<1>5. /\ SubjectsOf(A) \in [A -> Groups] /\ SubjectsOf(S) \in [S -> Groups]
      /\ OrdersOf(Z) \in [Z -> Groups] /\ IdsOf(none) \in [none -> Groups]
  BY <1>2 DEF SubjectsOf, OrdersOf, IdsOf
<1>6. /\ IsFiniteSet(A) /\ IsFiniteSet(S) /\ IsFiniteSet(Z)
      /\ \A r \in A : r.amount \in Nat
      /\ \A r \in S : r.amount \in Nat
      /\ \A r \in Z : r.amount \in Nat
  BY <1>1, <1>2, FS_Subset
<1>7. none = {}
  OBVIOUS
<1> HIDE DEF A, S, Z, none, Groups
<1>8. ASSUME NEW i \in Groups
      PROVE  Total(InGroup(A, SubjectsOf(A), i)) + Total(InGroup(none, IdsOf(none), i))
               + Total(InGroup(none, IdsOf(none), i))
               <= Total(InGroup(S, SubjectsOf(S), i)) + Total(InGroup(Z, OrdersOf(Z), i))
  <2>1. Total(InGroup(none, IdsOf(none), i)) = 0
    BY <1>7, GroupOfNone
  <2>2. /\ InGroup(S, SubjectsOf(S), i) \in SUBSET S
        /\ InGroup(Z, OrdersOf(Z), i) \in SUBSET Z
    BY DEF InGroup
  <2>3. Total(InGroup(S, SubjectsOf(S), i)) \in Nat /\ Total(InGroup(Z, OrdersOf(Z), i)) \in Nat
    BY <1>6, <2>2, TotalType
  <2>4. CASE ~ \E c \in A : c.doc[2] = i
    <3>1. \A c \in A : SubjectsOf(A)[c] # i
      BY <2>4 DEF SubjectsOf
    <3>2. Total(InGroup(A, SubjectsOf(A), i)) = 0
      BY <3>1, GroupOfNone
    <3>3. QED
      BY <2>1, <2>3, <3>2
  <2>5. CASE \E c \in A : c.doc[2] = i
    <3>1. PICK c \in A : c.doc[2] = i
      BY <2>5
    <3>2. PICK x \in cancellations, v \in invoices :
            /\ c.doc = <<"cancellation", v.id>>
            /\ x.invoice = v.id /\ v.party = p /\ x.date <= d
      BY <1>4
    <3>3. v.id = i
      BY <3>1, <3>2
    <3>4. PICK all, receipts, used :
            /\ all = {q \in claims : q.kind = "customer_refund"
                                     /\ q.doc = <<"cancellation", x.invoice>>}
            /\ receipts = {q \in claims : q.doc = <<"receipt", v.id>>}
            /\ used = {a \in applications : a.invoice = v.id}
      OBVIOUS
    <3>5. x.refundable - Total(all) >= 0 /\ x.refundable \in Nat
      BY <1>1, <3>4 DEF FinanceInv, SalesLimitsOK, RefundRemaining, RefundedFrom
    <3>6. /\ x.refundable = Total(receipts) + Total(used)
          /\ \A q \in receipts : q.line.date <= x.date
          /\ \A a \in used : a.date <= x.date
      BY <3>2, <3>4 DEF FinanceInv, SalesLimitsOK, Paid
    <3>7. InGroup(A, SubjectsOf(A), i) \in SUBSET all
      <4> SUFFICES ASSUME NEW q \in InGroup(A, SubjectsOf(A), i) PROVE q \in all
        OBVIOUS
      <4>1. q \in A /\ q.doc[2] = i
        BY DEF InGroup, SubjectsOf
      <4>2. PICK w \in invoices : q.kind = "customer_refund" /\ q.doc = <<"cancellation", w.id>>
        BY <1>4, <4>1
      <4>3. QED
        BY <1>2, <3>2, <3>3, <3>4, <4>1, <4>2
    <3>8. receipts \in SUBSET InGroup(S, SubjectsOf(S), i)
      <4> SUFFICES ASSUME NEW q \in receipts PROVE q \in InGroup(S, SubjectsOf(S), i)
        OBVIOUS
      <4>1. q \in claims /\ q.doc = <<"receipt", v.id>> /\ q.line.date <= x.date
        BY <3>4, <3>6
      <4>2. q.line.date <= d
        BY <1>1, <3>2, <4>1
      <4>3. q \in S
        BY <3>2, <4>1, <4>2 DEF S, ReceiptsFrom
      <4>4. QED
        BY <3>3, <4>1, <4>3 DEF InGroup, SubjectsOf
    <3>9. used \in SUBSET InGroup(Z, OrdersOf(Z), i)
      <4> SUFFICES ASSUME NEW a \in used PROVE a \in InGroup(Z, OrdersOf(Z), i)
        OBVIOUS
      <4>1. a \in applications /\ a.invoice = v.id /\ a.date <= x.date
        BY <3>4, <3>6
      <4>2. a.date <= d
        BY <1>1, <3>2, <4>1
      <4>3. a \in Z
        BY <3>2, <4>1, <4>2 DEF Z, AppliedFor
      <4>4. QED
        BY <3>3, <4>1, <4>3 DEF InGroup, OrdersOf
    <3>10. IsFiniteSet(all) /\ \A r \in all : r.amount \in Nat
      BY <1>1, <3>4, FS_Subset
    <3>11. /\ IsFiniteSet(InGroup(S, SubjectsOf(S), i)) /\ IsFiniteSet(InGroup(Z, OrdersOf(Z), i))
           /\ \A r \in InGroup(S, SubjectsOf(S), i) : r.amount \in Nat
           /\ \A r \in InGroup(Z, OrdersOf(Z), i) : r.amount \in Nat
      BY <1>6, <2>2, FS_Subset
    <3>12. /\ Total(InGroup(A, SubjectsOf(A), i)) <= Total(all)
           /\ Total(InGroup(A, SubjectsOf(A), i)) \in Nat /\ Total(all) \in Nat
      BY <3>7, <3>10, TotalWithin
    <3>13. Total(receipts) <= Total(InGroup(S, SubjectsOf(S), i)) /\ Total(receipts) \in Nat
      BY <3>8, <3>11, TotalWithin
    <3>14. Total(used) <= Total(InGroup(Z, OrdersOf(Z), i)) /\ Total(used) \in Nat
      BY <3>9, <3>11, TotalWithin
    <3>15. QED
      BY <2>1, <2>3, <3>5, <3>6, <3>12, <3>13, <3>14
  <2>6. QED
    BY <2>4, <2>5
<1>9. GroupsWithin(Groups, A, SubjectsOf(A), none, IdsOf(none), none, IdsOf(none),
                   S, SubjectsOf(S), Z, OrdersOf(Z))
  BY <1>5, <1>8 DEF GroupsWithin
<1>10. /\ \A r \in A \cup none \cup none \cup S \cup Z : r.amount \in Nat
       /\ IsFiniteSet(none) /\ Total(none) = 0
  BY <1>6, <1>7, FS_EmptySet, TotalEmpty
<1>11. Total(A) + Total(none) + Total(none) <= Total(S) + Total(Z)
  BY <1>6, <1>9, <1>10, TablesByGroup
<1>12. Total(A) \in Nat
  BY <1>6, TotalType
<1>13. QED
  BY <1>10, <1>11, <1>12 DEF A, S, Z

\* No party is ever, as of any day, refunded more than it paid by that day, by whatever path
\* the money came and went; no order collects more than its total or after it is cancelled.
THEOREM NoPartyEverOverrefunded == FinanceSpec => []NoPartyOverrefunded
<1>1. ASSUME FinanceInv, NEW p, NEW d \in Days
      PROVE  ReturnedTo(p, d) <= PaidInBy(p, d)
  <2> DEFINE outA == AdvancesReturned(p, d)
             outC == OrdersReturned(p, d)
             inA == AdvancesFrom(p, d)
             inR == ReceiptsFrom(p, d)
  <2>1. /\ IsFiniteSet(claims) /\ \A c \in claims : c.amount \in Nat
        /\ IsFiniteSet(applications) /\ \A a \in applications : a.amount \in Nat
    BY <1>1 DEF FinanceInv, BankInv, ClaimOK, ApplicationsOK, ApplicationOK
  <2>2. /\ outA \in SUBSET claims /\ outC \in SUBSET claims
        /\ inA \in SUBSET claims /\ inR \in SUBSET claims
        /\ AppliedFor(p, d) \in SUBSET applications
    BY DEF AdvancesReturned, OrdersReturned, AdvancesFrom, ReceiptsFrom, AppliedFor
  <2>3. /\ \A c \in outA : c.doc[1] = "advance"
        /\ \A c \in outC : c.doc[1] = "cancellation"
        /\ \A c \in inA : c.doc[1] = "party"
        /\ \A c \in inR : c.doc[1] = "receipt"
    BY DEF AdvancesReturned, OrdersReturned, AdvancesFrom, ReceiptsFrom
  <2>4. outA \cap outC = {} /\ inA \cap inR = {}
    BY <2>3
  <2>5. ReturnedTo(p, d) = Total(outA \cup outC)
    <3>1. {c \in claims : /\ c.line.date <= d
                          /\ \/ \E adv \in Advances : /\ adv.doc = <<"party", p>>
                                                      /\ c.doc = <<"advance", adv.key>>
                             \/ \E v \in invoices : v.party = p /\ c.doc = <<"cancellation", v.id>>}
            = outA \cup outC
      BY DEF AdvancesReturned, OrdersReturned
    <3>2. QED
      BY <3>1 DEF ReturnedTo
  <2>6. PaidInBy(p, d) = Total(inA \cup inR)
    <3>1. {c \in claims : /\ c.line.date <= d
                          /\ \/ c.doc = <<"party", p>>
                             \/ \E v \in invoices : v.party = p /\ c.doc = <<"receipt", v.id>>}
            = inA \cup inR
      BY DEF AdvancesFrom, ReceiptsFrom
    <3>2. QED
      BY <3>1 DEF PaidInBy
  <2> HIDE DEF outA, outC, inA, inR
  <2>7. /\ IsFiniteSet(outA) /\ IsFiniteSet(outC) /\ IsFiniteSet(inA) /\ IsFiniteSet(inR)
        /\ \A c \in outA \cup outC : c.amount \in Nat
        /\ \A c \in inA \cup inR : c.amount \in Nat
    BY <2>1, <2>2, FS_Subset
  <2>8. Total(outA \cup outC) = Total(outA) + Total(outC)
    BY <2>4, <2>7, TotalUnion
  <2>9. Total(inA \cup inR) = Total(inA) + Total(inR)
    BY <2>4, <2>7, TotalUnion
  <2>10. /\ Total(outA) \in Nat /\ Total(outC) \in Nat /\ Total(inA) \in Nat /\ Total(inR) \in Nat
         /\ Total(AppliedFor(p, d)) \in Nat
    BY <2>1, <2>2, TotalType
  <2>11. /\ Total(AppliedFor(p, d)) + Total(outA) <= Total(inA)
         /\ Total(outC) <= Total(inR) + Total(AppliedFor(p, d))
    BY <1>1, AdvancesCoverUses, PaymentsCoverRefunds DEF outA, outC, inA, inR
  <2>12. QED
    BY <2>5, <2>6, <2>8, <2>9, <2>10, <2>11
<1>2. HistoryInv => NoPartyOverrefunded
  BY <1>1, PaidWithin DEF HistoryInv, NoPartyOverrefunded
<1>3. QED
  BY <1>2, HistoryInvariant, PTL

-----------------------------------------------------------------------------
(* The balances of a day add up to nothing: what the ties of the documents leave open. *)

\* The uses of bank lines by kind.
KindsOf(K, d) == {c \in claims : c.kind \in K /\ c.line.date <= d}

\* One more kind of use adds what was used that way.
LEMMA OneMoreKind ==
  ASSUME FinanceInv, NEW K, NEW k, k \notin K, NEW d
  PROVE  /\ Total(KindsOf(K \cup {k}, d)) = Total(KindsOf(K, d)) + ClaimsOf(k, d)
         /\ Total(KindsOf(K, d)) \in Nat
<1>1. IsFiniteSet(claims) /\ \A c \in claims : c.amount \in Nat
  BY DEF FinanceInv, BankInv, ClaimOK
<1>2. /\ KindsOf(K, d) \in SUBSET claims /\ UsesUpto(k, d) \in SUBSET claims
      /\ KindsOf(K \cup {k}, d) = KindsOf(K, d) \cup UsesUpto(k, d)
      /\ KindsOf(K, d) \cap UsesUpto(k, d) = {}
  BY DEF KindsOf, UsesUpto
<1>3. /\ IsFiniteSet(KindsOf(K, d)) /\ IsFiniteSet(UsesUpto(k, d))
      /\ \A r \in KindsOf(K, d) \cup UsesUpto(k, d) : r.amount \in Nat
  BY <1>1, <1>2, FS_Subset
<1>4. Total(KindsOf(K, d) \cup UsesUpto(k, d)) = Total(KindsOf(K, d)) + Total(UsesUpto(k, d))
  BY <1>2, <1>3, TotalUnion
<1>5. ClaimsOf(k, d) = Total(UsesUpto(k, d))
  BY DEF ClaimsOf, UsesUpto
<1>6. Total(KindsOf(K, d)) \in Nat
  BY <1>1, <1>2, TotalType
<1>7. QED
  BY <1>2, <1>4, <1>5, <1>6

\* Money comes in by four kinds of use and goes out by six.
LEMMA LinesByKind ==
  ASSUME FinanceInv, NEW d
  PROVE  /\ ClaimedLines("in", d) = ClaimsOf("transfer_in", d) + ClaimsOf("owner_funding", d)
                                      + ClaimsOf("receipt", d) + ClaimsOf("customer_advance", d)
         /\ ClaimedLines("out", d)
              = ClaimsOf("transfer_out", d) + ClaimsOf("customer_refund", d)
                  + ClaimsOf("bank_fee", d) + ClaimsOf("bill_payment", d)
                  + ClaimsOf("tax_remittance", d) + ClaimsOf("withheld_supplier", d)
<1> DEFINE In == {"transfer_in", "owner_funding", "receipt", "customer_advance"}
           Out == {"transfer_out", "customer_refund", "bank_fee", "bill_payment", "tax_remittance",
                   "withheld_supplier"}
<1>1. \A c \in claims : /\ c.line.direction = "in" <=> c.kind \in In
                        /\ c.line.direction = "out" <=> c.kind \in Out
  <2> SUFFICES ASSUME NEW c \in claims
               PROVE  /\ c.line.direction = "in" <=> c.kind \in In
                      /\ c.line.direction = "out" <=> c.kind \in Out
    OBVIOUS
  <2>1. UseOK(c)
    BY DEF FinanceInv, ClaimsOK
  <2>2. \/ c.line.direction = "in" /\ c.kind \in In
        \/ c.line.direction = "out" /\ c.kind \in Out
    BY <2>1 DEF UseOK, SalesUse, PurchaseUse, BankUse
  <2>3. QED
    BY <2>2
<1>2. ClaimedLines("in", d) = Total(KindsOf(In, d)) /\ ClaimedLines("out", d) = Total(KindsOf(Out, d))
  <2>1. /\ {c \in claims : c.line.direction = "in" /\ c.line.date <= d} = KindsOf(In, d)
        /\ {c \in claims : c.line.direction = "out" /\ c.line.date <= d} = KindsOf(Out, d)
    BY <1>1 DEF KindsOf
  <2>2. QED
    BY <2>1 DEF ClaimedLines
<1>3. KindsOf({}, d) = {} /\ Total({}) = 0
  BY TotalEmpty DEF KindsOf
<1>4. Total(KindsOf({}, d)) = 0
  BY <1>3
<1>5. \A k : ClaimsOf(k, d) \in Nat
  BY ClaimSumTypes
<1>6. Total(KindsOf(In, d)) = ClaimsOf("transfer_in", d) + ClaimsOf("owner_funding", d)
                                + ClaimsOf("receipt", d) + ClaimsOf("customer_advance", d)
  <2> DEFINE K1 == {} \cup {"transfer_in"}
             K2 == K1 \cup {"owner_funding"}
             K3 == K2 \cup {"receipt"}
             K4 == K3 \cup {"customer_advance"}
  <2>1. Total(KindsOf(K1, d)) = ClaimsOf("transfer_in", d)
    BY <1>4, <1>5, OneMoreKind
  <2>2. Total(KindsOf(K2, d)) = Total(KindsOf(K1, d)) + ClaimsOf("owner_funding", d)
    BY OneMoreKind
  <2>3. Total(KindsOf(K3, d)) = Total(KindsOf(K2, d)) + ClaimsOf("receipt", d)
    BY OneMoreKind
  <2>4. Total(KindsOf(K4, d)) = Total(KindsOf(K3, d)) + ClaimsOf("customer_advance", d)
    BY OneMoreKind
  <2>5. In = K4
    OBVIOUS
  <2> HIDE DEF K1, K2, K3, K4, In
  <2>6. QED
    BY <1>5, <2>1, <2>2, <2>3, <2>4, <2>5
<1>7. Total(KindsOf(Out, d))
        = ClaimsOf("transfer_out", d) + ClaimsOf("customer_refund", d)
            + ClaimsOf("bank_fee", d) + ClaimsOf("bill_payment", d)
            + ClaimsOf("tax_remittance", d) + ClaimsOf("withheld_supplier", d)
  <2> DEFINE K1 == {} \cup {"transfer_out"}
             K2 == K1 \cup {"customer_refund"}
             K3 == K2 \cup {"bank_fee"}
             K4 == K3 \cup {"bill_payment"}
             K5 == K4 \cup {"tax_remittance"}
             K6 == K5 \cup {"withheld_supplier"}
  <2>1. Total(KindsOf(K1, d)) = ClaimsOf("transfer_out", d)
    BY <1>4, <1>5, OneMoreKind
  <2>2. Total(KindsOf(K2, d)) = Total(KindsOf(K1, d)) + ClaimsOf("customer_refund", d)
    BY OneMoreKind
  <2>3. Total(KindsOf(K3, d)) = Total(KindsOf(K2, d)) + ClaimsOf("bank_fee", d)
    BY OneMoreKind
  <2>4. Total(KindsOf(K4, d)) = Total(KindsOf(K3, d)) + ClaimsOf("bill_payment", d)
    BY OneMoreKind
  <2>5. Total(KindsOf(K5, d)) = Total(KindsOf(K4, d)) + ClaimsOf("tax_remittance", d)
    BY OneMoreKind
  <2>6. Total(KindsOf(K6, d)) = Total(KindsOf(K5, d)) + ClaimsOf("withheld_supplier", d)
    BY OneMoreKind
  <2>7. Out = K6
    OBVIOUS
  <2> HIDE DEF K1, K2, K3, K4, K5, K6, Out
  <2>8. QED
    BY <1>5, <2>1, <2>2, <2>3, <2>4, <2>5, <2>6, <2>7
<1>8. QED
  BY <1>2, <1>6, <1>7

\* A refund returns an advance or a cancelled order.
LEMMA RefundsByOrigin ==
  ASSUME FinanceInv, NEW d
  PROVE  ClaimsOf("customer_refund", d) = RefundsOf("advance", d) + RefundsOf("cancellation", d)
<1>1. IsFiniteSet(claims) /\ \A c \in claims : c.amount \in Nat
  BY DEF FinanceInv, BankInv, ClaimOK
<1>2. ASSUME NEW c \in claims, c.kind = "customer_refund"
      PROVE  c.doc[1] \in {"advance", "cancellation"}
  <2>1. UseOK(c)
    BY DEF FinanceInv, ClaimsOK
  <2>2. QED
    BY <1>2, <2>1 DEF UseOK, SalesUse, PurchaseUse, BankUse
<1> DEFINE A == RefundRows("advance", d)
           B == RefundRows("cancellation", d)
<1>3. /\ A \in SUBSET claims /\ B \in SUBSET claims /\ A \cap B = {}
      /\ A \cup B = {c \in claims : c.kind = "customer_refund" /\ c.line.date <= d}
  BY <1>2 DEF RefundRows
<1>4. /\ RefundsOf("advance", d) = Total(A) /\ RefundsOf("cancellation", d) = Total(B)
      /\ ClaimsOf("customer_refund", d) = Total(A \cup B)
  BY <1>3 DEF RefundsOf, RefundRows, ClaimsOf
<1> HIDE DEF A, B
<1>5. IsFiniteSet(A) /\ IsFiniteSet(B) /\ \A c \in A \cup B : c.amount \in Nat
  BY <1>1, <1>3, FS_Subset
<1>6. QED
  BY <1>3, <1>4, <1>5, TotalUnion

\* What a cancellation reverses was never paid or became refundable.
LEMMA ReversedSplits ==
  ASSUME FinanceInv, NEW d
  PROVE  NeverPaid(d) + Refundable(d) = Reversed(d)
<1>1. PICK X, u, r : X = Upto(cancellations, d) /\ u = "unpaid" /\ r = "refundable"
  OBVIOUS
<1> DEFINE A == Column(X, u)
           B == Column(X, r)
           Groups == {x.invoice : x \in X}
<1>2. IsFiniteSet(X) /\ \A x \in X : x.amount \in Nat
  BY <1>1, RowsFinite
<1>3. X \in SUBSET cancellations
  BY <1>1 DEF Upto
<1>4. /\ \A x \in X : x[u] \in Nat /\ x[r] \in Nat /\ x[u] + x[r] = x.amount
      /\ \A x, y \in X : x.invoice = y.invoice => x = y
  BY <1>1, <1>3 DEF FinanceInv, CancellationsOK, CancellationOK
<1>5. NeverPaid(d) = Total(A) /\ Refundable(d) = Total(B) /\ Reversed(d) = Total(X)
  BY <1>1 DEF NeverPaid, Refundable, Reversed
<1>6. /\ IsFiniteSet(A) /\ \A q \in A : q.amount \in Nat
      /\ IsFiniteSet(B) /\ \A q \in B : q.amount \in Nat
  BY <1>2, <1>4, ColumnOK
<1>7. /\ \A q \in A : q.row \in X
      /\ \A q \in B : q.row \in X
  BY DEF Column
<1>8. /\ CellOrders(A) \in [A -> Groups] /\ CellOrders(B) \in [B -> Groups]
      /\ OrdersOf(X) \in [X -> Groups]
  BY <1>7 DEF CellOrders, OrdersOf
<1>9. ASSUME NEW i \in Groups
      PROVE  Total(InGroup(A, CellOrders(A), i)) + Total(InGroup(B, CellOrders(B), i))
               = Total(InGroup(X, OrdersOf(X), i))
  <2>1. PICK x \in X : x.invoice = i
    BY <1>9
  <2>2. Total(InGroup(A, CellOrders(A), i)) = x[u]
    BY <1>4, <2>1, CellOfOne
  <2>3. Total(InGroup(B, CellOrders(B), i)) = x[r]
    BY <1>4, <2>1, CellOfOne
  <2>4. InGroup(X, OrdersOf(X), i) = {x}
    BY <1>4, <2>1 DEF InGroup, OrdersOf
  <2>5. Total({x}) = x.amount
    BY <1>2, TotalOne
  <2>6. QED
    BY <1>4, <2>2, <2>3, <2>4, <2>5
<1> HIDE DEF A, B, Groups
<1>10. TwoAdd(Groups, A, CellOrders(A), B, CellOrders(B), X, OrdersOf(X))
  BY <1>8, <1>9 DEF TwoAdd
<1>11. QED
  BY <1>2, <1>5, <1>6, <1>10, TwoTablesAdd

\* Suppliers paid net of tax were paid what their bills were less the tax withheld.
LEMMA SettledNet ==
  ASSUME FinanceInv, NEW d
  PROVE  ClaimsOf("withheld_supplier", d) + SettledTax(d) = SettledGross(d)
<1> DEFINE A == UsesUpto("withheld_supplier", d)
           B == SettledDecisions(d)
           S == SettledBills(d)
           Groups == {c.doc[2] : c \in claims} \cup {x.bill : x \in decisions} \cup {b.id : b \in bills}
<1>1. /\ IsFiniteSet(claims) /\ \A c \in claims : c.amount \in Nat
      /\ IsFiniteSet(decisions) /\ \A x \in decisions : x.amount \in Nat
      /\ IsFiniteSet(bills) /\ \A b \in bills : b.amount \in Nat
  BY DEF FinanceInv, BankInv, ClaimOK, BillsOK, Bill, DecisionOK
<1>2. A \in SUBSET claims /\ B \in SUBSET decisions /\ S \in SUBSET bills
  BY DEF UsesUpto, SettledDecisions, SettledBills
<1>3. /\ ClaimsOf("withheld_supplier", d) = Total(A) /\ SettledTax(d) = Total(B)
      /\ SettledGross(d) = Total(S)
  BY DEF ClaimsOf, UsesUpto, SettledTax, SettledDecisions, SettledGross, SettledBills
<1>4. /\ \A b, c \in bills : b.id = c.id => b = c
      /\ \A x, y \in decisions : x.bill = y.bill => x = y
  BY DEF FinanceInv, BillsOK
<1>5. ASSUME NEW c \in A
      PROVE  \E b \in S : \E x \in decisions :
               /\ c.doc = <<"bill", b.id>> /\ c \in SettlementsOf(b)
               /\ x.bill = b.id /\ c.amount = b.amount - x.amount
  <2>1. UseOK(c) /\ c.kind = "withheld_supplier" /\ c \in claims /\ c.line.date <= d
    BY <1>2 DEF UsesUpto, FinanceInv, ClaimsOK
  <2>2. PICK b \in ApprovedBills : \E x \in decisions :
          /\ c.doc = <<"bill", b.id>> /\ x.bill = b.id /\ c.amount = b.amount - x.amount
    BY <2>1 DEF UseOK, SalesUse, PurchaseUse, BankUse
  <2>3. c \in SettlementsOf(b) /\ b \in bills
    BY <2>1, <2>2 DEF SettlementsOf, ApprovedBills
  <2>4. b \in S
    BY <2>1, <2>3 DEF SettledBills
  <2>5. QED
    BY <2>2, <2>3, <2>4
<1>6. ASSUME NEW b \in S
      PROVE  \E c \in A : c.doc = <<"bill", b.id>>
  BY DEF SettledBills, SettlementsOf, UsesUpto
<1>7. ASSUME NEW x \in B
      PROVE  \E b \in S : b.id = x.bill
  BY DEF SettledDecisions, SettledBills
<1>8. ASSUME NEW b \in S, NEW x \in decisions, x.bill = b.id
      PROVE  x \in B
  BY <1>2, <1>8 DEF SettledDecisions, SettledBills
<1>9. /\ SubjectsOf(A) \in [A -> Groups] /\ BillsOf(B) \in [B -> Groups] /\ IdsOf(S) \in [S -> Groups]
  BY <1>2 DEF SubjectsOf, BillsOf, IdsOf
<1>10. /\ IsFiniteSet(A) /\ IsFiniteSet(B) /\ IsFiniteSet(S)
       /\ \A q \in A : q.amount \in Nat
       /\ \A q \in B : q.amount \in Nat
       /\ \A q \in S : q.amount \in Nat
  BY <1>1, <1>2, FS_Subset
<1> HIDE DEF A, B, S, Groups
<1>11. ASSUME NEW i \in Groups
       PROVE  Total(InGroup(A, SubjectsOf(A), i)) + Total(InGroup(B, BillsOf(B), i))
                = Total(InGroup(S, IdsOf(S), i))
  <2>1. CASE ~ \E b \in S : b.id = i
    <3>1. /\ \A q \in A : SubjectsOf(A)[q] # i
          /\ \A q \in B : BillsOf(B)[q] # i
          /\ \A q \in S : IdsOf(S)[q] # i
      BY <1>5, <1>7, <2>1 DEF SubjectsOf, BillsOf, IdsOf
    <3>2. QED
      BY <3>1, GroupOfNone
  <2>2. CASE \E b \in S : b.id = i
    <3>1. PICK b \in S : b.id = i
      BY <2>2
    <3>2. PICK c \in A : c.doc = <<"bill", b.id>>
      BY <1>6, <3>1
    <3>3. PICK e \in S, x \in decisions :
            /\ c.doc = <<"bill", e.id>> /\ c \in SettlementsOf(e)
            /\ x.bill = e.id /\ c.amount = e.amount - x.amount
      BY <1>5, <3>2
    <3>4. e = b
      <4>1. e.id = b.id
        BY <3>2, <3>3
      <4>2. QED
        BY <1>2, <1>4, <4>1
    <3>5. x \in B
      BY <1>8, <3>3
    <3>6. InGroup(S, IdsOf(S), i) = {b}
      BY <1>2, <1>4, <3>1 DEF InGroup, IdsOf
    <3>7. InGroup(B, BillsOf(B), i) = {x}
      BY <1>2, <1>4, <3>1, <3>3, <3>4, <3>5 DEF InGroup, BillsOf
    <3>8. InGroup(A, SubjectsOf(A), i) = {c}
      <4>1. ASSUME NEW q \in A, q.doc[2] = i
            PROVE  q = c
        <5>1. PICK f \in S : q.doc = <<"bill", f.id>> /\ q \in SettlementsOf(f)
          BY <1>5
        <5>2. f.id = b.id
          BY <3>1, <4>1, <5>1
        <5>3. f = b
          BY <1>2, <1>4, <5>2
        <5>4. IsFiniteSet(SettlementsOf(b)) /\ Cardinality(SettlementsOf(b)) <= 1
          <6>1. SettlementsOf(b) \in SUBSET claims
            BY DEF SettlementsOf
          <6>2. IsFiniteSet(SettlementsOf(b))
            BY <1>1, <6>1, FS_Subset
          <6>3. Cardinality(SettlementsOf(b)) <= 1
            BY <1>2, <3>1 DEF FinanceInv, PurchaseLimitsOK, PaidOnce
          <6>4. QED
            BY <6>2, <6>3
        <5>5. QED
          BY <3>3, <3>4, <5>1, <5>3, <5>4, OneAtMost
      <4>2. c.doc[2] = i
        BY <3>1, <3>2
      <4>3. QED
        BY <4>1, <4>2 DEF InGroup, SubjectsOf
    <3>9. Total({c}) = c.amount /\ Total({x}) = x.amount /\ Total({b}) = b.amount
      BY <1>10, <3>5, TotalOne
    <3>10. c.amount = b.amount - x.amount /\ b.amount \in Nat /\ x.amount \in Nat
      BY <1>10, <3>3, <3>4, <3>5
    <3>11. QED
      BY <3>6, <3>7, <3>8, <3>9, <3>10
  <2>3. QED
    BY <2>1, <2>2
<1>12. TwoAdd(Groups, A, SubjectsOf(A), B, BillsOf(B), S, IdsOf(S))
  BY <1>9, <1>11 DEF TwoAdd
<1>13. Total(A) + Total(B) = Total(S)
  BY <1>10, <1>12, TwoTablesAdd
<1>14. QED
  BY <1>3, <1>13

\* Every day the twelve balances add up to nothing.
LEMMA BalancesAddUp ==
  ASSUME FinanceInv, NEW d \in Days
  PROVE  /\ \A a \in Accounts : Balance(a, d) \in Int
         /\ Balance("BANK", d) + Balance("AR", d) + Balance("DEFERRED_REVENUE", d)
              + Balance("REVENUE", d) + Balance("EXPENSE", d) + Balance("PREPAID", d)
              + Balance("AP", d) + Balance("EQUITY", d) + Balance("BANK_TRANSFER", d)
              + Balance("CUSTOMER_ADVANCE", d) + Balance("CUSTOMER_REFUND", d)
              + Balance("TAX_PAYABLE", d) = 0
<1>1. BankTies(d) /\ SalesTies(d) /\ PurchaseTies(d)
  BY DEF FinanceInv, TiesOK
<1>2. /\ Invoiced(d) \in Nat /\ Delivered(d) \in Nat /\ Reversed(d) \in Nat
      /\ NeverPaid(d) \in Nat /\ Refundable(d) \in Nat /\ Applied(d) \in Nat
      /\ PrepaidBilled(d) \in Nat /\ Expensed(d) \in Nat /\ ReleasedBy(d) \in Nat
      /\ SettledGross(d) \in Nat /\ SettledTax(d) \in Nat
      /\ Opened("in", d) \in Nat /\ Opened("out", d) \in Nat
  BY SumTypes
<1>3. /\ \A k : ClaimsOf(k, d) \in Nat
      /\ RefundsOf("advance", d) \in Nat /\ RefundsOf("cancellation", d) \in Nat
      /\ ClaimedLines("in", d) \in Nat /\ ClaimedLines("out", d) \in Nat
  BY ClaimSumTypes
<1>4. /\ ClaimedLines("in", d) = ClaimsOf("transfer_in", d) + ClaimsOf("owner_funding", d)
                                   + ClaimsOf("receipt", d) + ClaimsOf("customer_advance", d)
      /\ ClaimedLines("out", d)
           = ClaimsOf("transfer_out", d) + ClaimsOf("customer_refund", d)
               + ClaimsOf("bank_fee", d) + ClaimsOf("bill_payment", d)
               + ClaimsOf("tax_remittance", d) + ClaimsOf("withheld_supplier", d)
      /\ ClaimsOf("customer_refund", d) = RefundsOf("advance", d) + RefundsOf("cancellation", d)
      /\ NeverPaid(d) + Refundable(d) = Reversed(d)
      /\ ClaimsOf("withheld_supplier", d) + SettledTax(d) = SettledGross(d)
  BY LinesByKind, RefundsByOrigin, ReversedSplits, SettledNet
<1>5. /\ Balance("BANK", d) = Opened("in", d) - Opened("out", d)
                                + ClaimedLines("in", d) - ClaimedLines("out", d)
      /\ Balance("BANK_TRANSFER", d) = ClaimsOf("transfer_out", d) - ClaimsOf("transfer_in", d)
      /\ Balance("EQUITY", d) = Opened("out", d) - Opened("in", d) - ClaimsOf("owner_funding", d)
  BY <1>1 DEF BankTies
<1>6. /\ Balance("AR", d) = Invoiced(d) - ClaimsOf("receipt", d) - Applied(d) - NeverPaid(d)
      /\ Balance("DEFERRED_REVENUE", d) = Delivered(d) + Reversed(d) - Invoiced(d)
      /\ Balance("REVENUE", d) = - Delivered(d)
      /\ Balance("CUSTOMER_ADVANCE", d)
           = Applied(d) + RefundsOf("advance", d) - ClaimsOf("customer_advance", d)
      /\ Balance("CUSTOMER_REFUND", d) = RefundsOf("cancellation", d) - Refundable(d)
  BY <1>1 DEF SalesTies
<1>7. /\ Balance("EXPENSE", d) = Expensed(d) + ReleasedBy(d) + ClaimsOf("bank_fee", d)
      /\ Balance("PREPAID", d) = PrepaidBilled(d) - ReleasedBy(d)
      /\ Balance("AP", d) = ClaimsOf("bill_payment", d) + SettledGross(d)
                              - Expensed(d) - PrepaidBilled(d)
      /\ Balance("TAX_PAYABLE", d) = ClaimsOf("tax_remittance", d) - SettledTax(d)
  BY <1>1 DEF PurchaseTies
<1>8. \A a \in Accounts : Balance(a, d) \in Int
  BY <1>2, <1>3, <1>5, <1>6, <1>7 DEF Accounts
<1>9. QED
  BY <1>2, <1>3, <1>4, <1>5, <1>6, <1>7, <1>8
-----------------------------------------------------------------------------
(* The finance services implement the ledger of module GeneralLedger. *)

\* The debit and the credit column of some accounts, and that they differ by net.
DebitRows(f, S) == {[account |-> a, amount |-> f[a]] : a \in {x \in S : f[x] > 0}}
CreditRows(f, S) == {[account |-> a, amount |-> -f[a]] : a \in {x \in S : f[x] < 0}}
ColumnsDiffer(f, S, net) ==
  /\ net \in Int
  /\ IsFiniteSet(Units(DebitRows(f, S))) /\ Total(DebitRows(f, S)) \in Nat
  /\ IsFiniteSet(Units(CreditRows(f, S))) /\ Total(CreditRows(f, S)) \in Nat
  /\ Total(DebitRows(f, S)) - Total(CreditRows(f, S)) = net

\* No accounts have empty columns.
LEMMA NoColumns == \A f : ColumnsDiffer(f, {}, 0)
<1> SUFFICES ASSUME NEW f PROVE ColumnsDiffer(f, {}, 0)
  OBVIOUS
<1>1. DebitRows(f, {}) = {} /\ CreditRows(f, {}) = {}
  BY DEF DebitRows, CreditRows
<1>2. Units({}) = {} /\ Total({}) = 0 /\ IsFiniteSet({})
  BY TotalEmpty, FS_EmptySet
<1>3. QED
  BY <1>1, <1>2 DEF ColumnsDiffer

\* One more account moves the difference by its balance.
LEMMA OneMoreAccount ==
  ASSUME NEW f, NEW S, NEW net, ColumnsDiffer(f, S, net), NEW a, a \notin S, f[a] \in Int
  PROVE  ColumnsDiffer(f, S \cup {a}, net + f[a])
<1> DEFINE D == DebitRows(f, S)
           C == CreditRows(f, S)
           dr == [account |-> a, amount |-> f[a]]
           cr == [account |-> a, amount |-> -f[a]]
<1>1. dr \notin D /\ cr \notin C
  BY DEF DebitRows, CreditRows
<1>2. /\ net \in Int
      /\ IsFiniteSet(Units(D)) /\ Total(D) \in Nat
      /\ IsFiniteSet(Units(C)) /\ Total(C) \in Nat
      /\ Total(D) - Total(C) = net
  BY DEF ColumnsDiffer
<1>3. CASE f[a] > 0
  <2>1. DebitRows(f, S \cup {a}) = D \cup {dr} /\ CreditRows(f, S \cup {a}) = C
    BY <1>3 DEF DebitRows, CreditRows
  <2>2. dr.amount = f[a] /\ f[a] \in Nat
    BY <1>3
  <2> HIDE DEF D, C, dr
  <2>3. IsFiniteSet(Units(D \cup {dr})) /\ Total(D \cup {dr}) = Total(D) + f[a]
    BY <1>1, <1>2, <2>2, TotalAdd
  <2>4. /\ net + f[a] \in Int /\ Total(D \cup {dr}) \in Nat
        /\ Total(D \cup {dr}) - Total(C) = net + f[a]
    BY <1>2, <2>2, <2>3
  <2>5. QED
    BY <1>2, <2>1, <2>3, <2>4 DEF ColumnsDiffer
<1>4. CASE f[a] < 0
  <2>1. DebitRows(f, S \cup {a}) = D /\ CreditRows(f, S \cup {a}) = C \cup {cr}
    BY <1>4 DEF DebitRows, CreditRows
  <2>2. cr.amount = -f[a] /\ -f[a] \in Nat
    BY <1>4
  <2> HIDE DEF D, C, cr
  <2>3. IsFiniteSet(Units(C \cup {cr})) /\ Total(C \cup {cr}) = Total(C) + (-f[a])
    BY <1>1, <1>2, <2>2, TotalAdd
  <2>4. /\ net + f[a] \in Int /\ Total(C \cup {cr}) \in Nat
        /\ Total(D) - Total(C \cup {cr}) = net + f[a]
    BY <1>2, <2>2, <2>3
  <2>5. QED
    BY <1>2, <2>1, <2>3, <2>4 DEF ColumnsDiffer
<1>5. CASE f[a] = 0
  <2>1. DebitRows(f, S \cup {a}) = D /\ CreditRows(f, S \cup {a}) = C
    BY <1>5 DEF DebitRows, CreditRows
  <2>2. QED
    BY <1>2, <1>5, <2>1 DEF ColumnsDiffer
<1>6. QED
  BY <1>3, <1>4, <1>5

\* Twelve balances that add up to nothing make a balanced trial balance.
LEMMA NetOfNothing ==
  ASSUME NEW f, \A a \in Accounts : f[a] \in Int,
         f["BANK"] + f["AR"] + f["DEFERRED_REVENUE"]
           + f["REVENUE"] + f["EXPENSE"] + f["PREPAID"]
           + f["AP"] + f["EQUITY"] + f["BANK_TRANSFER"]
           + f["CUSTOMER_ADVANCE"] + f["CUSTOMER_REFUND"] + f["TAX_PAYABLE"] = 0
  PROVE  Total(DebitRows(f, Accounts)) = Total(CreditRows(f, Accounts))
<1> DEFINE S1 == {} \cup {"BANK"}
           S2 == S1 \cup {"AR"}
           S3 == S2 \cup {"DEFERRED_REVENUE"}
           S4 == S3 \cup {"REVENUE"}
           S5 == S4 \cup {"EXPENSE"}
           S6 == S5 \cup {"PREPAID"}
           S7 == S6 \cup {"AP"}
           S8 == S7 \cup {"EQUITY"}
           S9 == S8 \cup {"BANK_TRANSFER"}
           S10 == S9 \cup {"CUSTOMER_ADVANCE"}
           S11 == S10 \cup {"CUSTOMER_REFUND"}
           S12 == S11 \cup {"TAX_PAYABLE"}
<1> DEFINE N1 == 0 + f["BANK"]
           N2 == N1 + f["AR"]
           N3 == N2 + f["DEFERRED_REVENUE"]
           N4 == N3 + f["REVENUE"]
           N5 == N4 + f["EXPENSE"]
           N6 == N5 + f["PREPAID"]
           N7 == N6 + f["AP"]
           N8 == N7 + f["EQUITY"]
           N9 == N8 + f["BANK_TRANSFER"]
           N10 == N9 + f["CUSTOMER_ADVANCE"]
           N11 == N10 + f["CUSTOMER_REFUND"]
           N12 == N11 + f["TAX_PAYABLE"]
<1>1. ColumnsDiffer(f, {}, 0)
  BY NoColumns
<1>2. ColumnsDiffer(f, S1, N1)
  <2>1. "BANK" \notin {} /\ f["BANK"] \in Int
    BY DEF Accounts
  <2>2. QED
    BY <1>1, <2>1, OneMoreAccount
<1>3. ColumnsDiffer(f, S2, N2)
  <2>1. "AR" \notin S1 /\ f["AR"] \in Int
    BY DEF Accounts
  <2> HIDE DEF S1, N1
  <2>2. QED
    BY <1>2, <2>1, OneMoreAccount
<1>4. ColumnsDiffer(f, S3, N3)
  <2>1. "DEFERRED_REVENUE" \notin S2 /\ f["DEFERRED_REVENUE"] \in Int
    BY DEF Accounts
  <2> HIDE DEF S2, N2
  <2>2. QED
    BY <1>3, <2>1, OneMoreAccount
<1>5. ColumnsDiffer(f, S4, N4)
  <2>1. "REVENUE" \notin S3 /\ f["REVENUE"] \in Int
    BY DEF Accounts
  <2> HIDE DEF S3, N3
  <2>2. QED
    BY <1>4, <2>1, OneMoreAccount
<1>6. ColumnsDiffer(f, S5, N5)
  <2>1. "EXPENSE" \notin S4 /\ f["EXPENSE"] \in Int
    BY DEF Accounts
  <2> HIDE DEF S4, N4
  <2>2. QED
    BY <1>5, <2>1, OneMoreAccount
<1>7. ColumnsDiffer(f, S6, N6)
  <2>1. "PREPAID" \notin S5 /\ f["PREPAID"] \in Int
    BY DEF Accounts
  <2> HIDE DEF S5, N5
  <2>2. QED
    BY <1>6, <2>1, OneMoreAccount
<1>8. ColumnsDiffer(f, S7, N7)
  <2>1. "AP" \notin S6 /\ f["AP"] \in Int
    BY DEF Accounts
  <2> HIDE DEF S6, N6
  <2>2. QED
    BY <1>7, <2>1, OneMoreAccount
<1>9. ColumnsDiffer(f, S8, N8)
  <2>1. "EQUITY" \notin S7 /\ f["EQUITY"] \in Int
    BY DEF Accounts
  <2> HIDE DEF S7, N7
  <2>2. QED
    BY <1>8, <2>1, OneMoreAccount
<1>10. ColumnsDiffer(f, S9, N9)
  <2>1. "BANK_TRANSFER" \notin S8 /\ f["BANK_TRANSFER"] \in Int
    BY DEF Accounts
  <2> HIDE DEF S8, N8
  <2>2. QED
    BY <1>9, <2>1, OneMoreAccount
<1>11. ColumnsDiffer(f, S10, N10)
  <2>1. "CUSTOMER_ADVANCE" \notin S9 /\ f["CUSTOMER_ADVANCE"] \in Int
    BY DEF Accounts
  <2> HIDE DEF S9, N9
  <2>2. QED
    BY <1>10, <2>1, OneMoreAccount
<1>12. ColumnsDiffer(f, S11, N11)
  <2>1. "CUSTOMER_REFUND" \notin S10 /\ f["CUSTOMER_REFUND"] \in Int
    BY DEF Accounts
  <2> HIDE DEF S10, N10
  <2>2. QED
    BY <1>11, <2>1, OneMoreAccount
<1>13. ColumnsDiffer(f, S12, N12)
  <2>1. "TAX_PAYABLE" \notin S11 /\ f["TAX_PAYABLE"] \in Int
    BY DEF Accounts
  <2> HIDE DEF S11, N11
  <2>2. QED
    BY <1>12, <2>1, OneMoreAccount
<1>14. S12 = Accounts /\ N12 = 0
  BY DEF Accounts
<1>15. ColumnsDiffer(f, Accounts, 0)
  BY <1>13, <1>14
<1>16. QED
  BY <1>15 DEF ColumnsDiffer

\* The trial balance of every day balances.
LEMMA TrialBalances ==
  ASSUME FinanceInv
  PROVE  \A d \in Days : Reports!Balanced(TrialBalance(d))
<1> SUFFICES ASSUME NEW d \in Days PROVE Reports!Balanced(TrialBalance(d))
  OBVIOUS
<1>1. PICK f : f = TrialBalance(d)
  OBVIOUS
<1>2. \A a \in Accounts : f[a] = Balance(a, d) /\ f[a] \in Int
  BY <1>1, BalancesAddUp DEF TrialBalance
<1>3. f["BANK"] + f["AR"] + f["DEFERRED_REVENUE"] + f["REVENUE"] + f["EXPENSE"] + f["PREPAID"]
        + f["AP"] + f["EQUITY"] + f["BANK_TRANSFER"] + f["CUSTOMER_ADVANCE"]
        + f["CUSTOMER_REFUND"] + f["TAX_PAYABLE"] = 0
  <2>1. /\ f["BANK"] = Balance("BANK", d) /\ f["AR"] = Balance("AR", d)
        /\ f["DEFERRED_REVENUE"] = Balance("DEFERRED_REVENUE", d)
        /\ f["REVENUE"] = Balance("REVENUE", d) /\ f["EXPENSE"] = Balance("EXPENSE", d)
        /\ f["PREPAID"] = Balance("PREPAID", d) /\ f["AP"] = Balance("AP", d)
        /\ f["EQUITY"] = Balance("EQUITY", d) /\ f["BANK_TRANSFER"] = Balance("BANK_TRANSFER", d)
        /\ f["CUSTOMER_ADVANCE"] = Balance("CUSTOMER_ADVANCE", d)
        /\ f["CUSTOMER_REFUND"] = Balance("CUSTOMER_REFUND", d)
        /\ f["TAX_PAYABLE"] = Balance("TAX_PAYABLE", d)
    BY <1>2 DEF Accounts
  <2>2. QED
    BY <2>1, BalancesAddUp
<1>4. Total(DebitRows(f, Accounts)) = Total(CreditRows(f, Accounts))
  BY <1>2, <1>3, NetOfNothing
<1>5. /\ Reports!Debits(f) = DebitRows(f, Accounts)
      /\ Reports!Credits(f) = CreditRows(f, Accounts)
  BY DEF Reports!Debits, Reports!Credits, DebitRows, CreditRows
<1>6. \A R : Reports!Total(R) = Total(R)
  BY DEF Reports!Total, Reports!Units, Total, Units, Reports!Cardinality, Cardinality
<1>7. QED
  BY <1>1, <1>4, <1>5, <1>6 DEF Reports!Balanced

\* What a step between two states of the reports needs to know of each: the trial balances
\* balance, and the frozen day is the end of the last closed month, 0 when none is closed.
FrozenDayOK ==
  /\ FrozenUpto \in Nat
  /\ \A c \in closings : c.end <= FrozenUpto
  /\ closings # {} => \E c \in closings : c.end = FrozenUpto
  /\ closings = {} => FrozenUpto = 0
ReportsInv ==
  HistoryInv /\ FrozenDayOK /\ \A d \in Days : Reports!Balanced(TrialBalance(d))

\* No month is closed before its end, and closings stay, so FrozenUpto is what it says.
LEMMA FrozenDay ==
  ASSUME BankInv, Calendar
  PROVE  FrozenDayOK
<1>1. \A c \in closings : c.end \in Nat /\ c.end \in MonthEnds
  BY LedgerAssumption DEF BankInv, LedgerInv
<1>2. CASE closings = {}
  BY <1>2 DEF FrozenUpto, FrozenDayOK
<1>3. CASE closings # {}
  <2>1. PICK last \in closings : \A e \in closings : e.end <= last.end
    BY <1>3 DEF Calendar
  <2>2. last.end \in ClosedMonths /\ \A x \in ClosedMonths : x <= last.end
    BY <2>1 DEF ClosedMonths
  <2>3. FrozenUpto = CHOOSE x \in ClosedMonths : \A y \in ClosedMonths : x >= y
    BY <1>3 DEF FrozenUpto, Sets!Max
  <2>4. FrozenUpto \in ClosedMonths /\ \A y \in ClosedMonths : y <= FrozenUpto
    <3>1. last.end \in ClosedMonths /\ \A y \in ClosedMonths : last.end >= y
      BY <1>1, <2>2 DEF ClosedMonths
    <3>2. QED
      BY <2>3, <3>1
  <2>5. QED
    BY <1>1, <1>3, <2>4 DEF ClosedMonths, FrozenDayOK
<1>4. QED
  BY <1>2, <1>3

\* Every step of the services records an event of an open day, freezes a month or leaves
\* the reports alone.
LEMMA ReportsStep ==
  ASSUME ReportsInv, ReportsInv', [FinanceNext]_financeVars
  PROVE  [Reports!RecordEvent \/ Reports!Freeze]_<<[day \in Days |-> TrialBalance(day)], FrozenUpto>>
<1>1. /\ FinanceInv /\ BankInv /\ LedgerInv /\ Calendar /\ FrozenDayOK
      /\ BankInv' /\ FrozenDayOK' /\ \A d \in Days : Reports!Balanced(TrialBalance(d))'
  BY DEF ReportsInv, HistoryInv, FinanceInv, BankInv
<1>2. LedgerStep
  BY <1>1, FinanceNextKeeps DEF BankBookStep
<1>3. PICK f, g : f = FrozenUpto /\ g = FrozenUpto'
  OBVIOUS
<1>4. PICK b, c : b = [day \in Days |-> TrialBalance(day)] /\ c = [day \in Days |-> TrialBalance(day)]'
  OBVIOUS
<1>5. CASE PostingStep
  <2>1. closings' = closings /\ g = f
    BY <1>3, <1>5 DEF PostingStep, FrozenUpto, ClosedMonths
  <2>2. f \in Nat /\ f + 1 \in Days
    <3>1. today \in Nat /\ MaxDay \in Nat \ {0} /\ (today <= MaxDay \/ today = 1)
      BY <1>1, LedgerAssumption DEF LedgerInv, Calendar
    <3>2. CASE closings = {}
      BY <1>1, <1>3, <3>1, <3>2 DEF FrozenDayOK, Days
    <3>3. CASE closings # {}
      <4>1. PICK k \in closings : k.end = f
        BY <1>1, <1>3, <3>3 DEF FrozenDayOK
      <4>2. f < today /\ f \in Nat
        BY <1>1, <1>3, <4>1 DEF FrozenDayOK, Calendar
      <4>3. QED
        BY <3>1, <4>2 DEF Days
    <3>4. QED
      BY <3>2, <3>3
  <2>3. ASSUME NEW d \in Days, d < f + 1
        PROVE  TrialBalance(d)' = TrialBalance(d)
    <3>1. d \in Nat /\ d <= f /\ d > 0
      BY <2>2, <2>3, LedgerAssumption DEF Days
    <3>2. closings # {}
      BY <1>1, <1>3, <3>1 DEF FrozenDayOK
    <3>3. PICK k \in closings : k.end = f
      BY <1>1, <1>3, <3>2 DEF FrozenDayOK
    <3>4. Upto(journal', f) = Upto(journal, f)
      BY <1>1, <1>2, <3>3, FrozenLinesStep
    <3>5. \A l \in journal \cup journal' : l.date \in Nat
      BY <1>1 DEF BankInv, LedgerInv, LineOK
    <3>6. Upto(journal', d) = Upto(journal, d)
      <4>1. \A l \in journal \cup journal' : l.date <= d => l.date <= f
        BY <2>2, <3>1, <3>5
      <4>2. QED
        BY <3>4, <4>1 DEF Upto
    <3>7. \A a \in Accounts : Balance(a, d)' = Balance(a, d)
      BY <3>6, BalanceOfUpto
    <3>8. QED
      BY <3>7 DEF TrialBalance
  <2>4. /\ f + 1 > f
        /\ \A d \in Days : d < f + 1 => c[d] = b[d]
        /\ \A d \in Days : Reports!Balanced(c[d])
    BY <1>1, <1>4, <2>2, <2>3
  <2>5. Reports!RecordEvent
    BY <1>3, <1>4, <2>1, <2>2, <2>4 DEF Reports!RecordEvent
  <2>6. QED
    BY <2>5
<1>6. CASE ClosingStep
  <2>1. b = c
    BY <1>4, <1>6 DEF ClosingStep, TrialBalance, Balance, Side
  <2>2. f \in Nat /\ g \in Nat
    BY <1>1, <1>3 DEF FrozenDayOK
  <2>3. closings \subseteq closings' /\ f <= g
    <3>1. closings \subseteq closings'
      BY <1>6 DEF ClosingStep
    <3>2. CASE closings = {}
      BY <1>1, <1>3, <2>2, <3>2 DEF FrozenDayOK
    <3>3. CASE closings # {}
      <4>1. PICK k \in closings : k.end = f
        BY <1>1, <1>3, <3>3 DEF FrozenDayOK
      <4>2. \A e \in closings' : e.end <= g
        BY <1>1, <1>3 DEF FrozenDayOK
      <4>3. QED
        BY <3>1, <4>1, <4>2
    <3>4. QED
      BY <3>1, <3>2, <3>3
  <2>4. CASE f = g
    BY <1>3, <1>4, <2>1, <2>4
  <2>5. CASE f # g
    <3>1. g > f /\ g # 0
      BY <2>2, <2>3, <2>5
    <3>2. \E e \in closings' : e.end = g
      BY <1>1, <1>3, <3>1 DEF FrozenDayOK
    <3>3. g \in MonthEnds
      BY <1>1, <3>2 DEF BankInv, LedgerInv
    <3>4. Reports!Freeze
      BY <1>3, <1>4, <2>1, <3>1, <3>3 DEF Reports!Freeze
    <3>5. QED
      BY <3>4
  <2>6. QED
    BY <2>4, <2>5
<1>7. QED
  BY <1>2, <1>5, <1>6 DEF LedgerStep

\* Reports of closed days never change, and those of open days stay balanced: the services
\* of both sides of the books implement the ledger the owner relies on.
THEOREM FinanceImplementsGeneralLedger == FinanceSpec => ImplementsGeneralLedger
<1>1. FinanceInit => Reports!Init
  <2> SUFFICES ASSUME FinanceInit PROVE Reports!Init
    OBVIOUS
  <2>1. journal = {} /\ closings = {}
    BY DEF FinanceInit, ReceivablesInit, BankInit, LedgerInit
  <2>2. \A a, d : Balance(a, d) = 0
    <3> SUFFICES ASSUME NEW a, NEW d PROVE Balance(a, d) = 0
      OBVIOUS
    <3>1. \A side : {l \in journal : l.account = a /\ l.side = side /\ l.date <= d} = {}
      BY <2>1
    <3>2. \A side : Side(a, side, d) = 0
      BY <3>1, TotalEmpty DEF Side
    <3>3. QED
      BY <3>2 DEF Balance
  <2>3. [day \in Days |-> TrialBalance(day)] = [d \in Days |-> [a \in Accounts |-> 0]]
    BY <2>2 DEF TrialBalance
  <2>4. FrozenUpto = 0
    BY <2>1 DEF FrozenUpto
  <2>5. QED
    BY <2>3, <2>4 DEF Reports!Init
<1>2. HistoryInv => ReportsInv
  BY TrialBalances, FrozenDay DEF ReportsInv, HistoryInv, FinanceInv
<1>3. ReportsInv /\ ReportsInv' /\ [FinanceNext]_financeVars
        => [Reports!RecordEvent \/ Reports!Freeze]_<<[day \in Days |-> TrialBalance(day)], FrozenUpto>>
  BY ReportsStep
<1>4. QED
  BY <1>1, <1>2, <1>3, HistoryInvariant, PTL DEF FinanceSpec, ImplementsGeneralLedger, Reports!Spec

-----------------------------------------------------------------------------
(* Leads and the receipts of the orders linked to them. *)

\* Orders as the leads see them: dated, one per identity, and known to their status.
OrdersHold ==
  /\ IsFiniteSet(invoices) /\ invoices \subseteq Invoice
  /\ \A v, w \in invoices : v.id = w.id => v = w
  /\ status \in [Invoices -> {"none", "draft", "issued", "delivered", "cancelled"}]
  /\ \A v \in invoices : status[v.id] # "none"

\* A receipt is of an order that exists, and not dated before it.
ReceiptsHold ==
  /\ today \in Nat /\ bank \subseteq BankLine
  /\ IsFiniteSet(claims)
  /\ \A c \in claims : c.amount \in Nat /\ c.line \in bank
  /\ \A c \in claims : \A i \in Invoices : c.doc = <<"receipt", i>> => status[i] # "none"
  /\ \A c \in claims : \A v \in invoices : c.doc = <<"receipt", v.id>> => v.date <= c.line.date

\* A lead is linked once, to an order not older than it that no other lead has.
LeadHolds(l) ==
  /\ l = [reference |-> l.reference, received |-> l.received, party |-> l.party,
          segment |-> l.segment, channel |-> l.channel, stage |-> l.stage, invoice |-> l.invoice]
  /\ l.received \in Days /\ l.channel \in Channels
  /\ l.invoice # NoInvoice => l.invoice \in invoices /\ l.received <= l.invoice.date

LeadsHold ==
  /\ IsFiniteSet(leads)
  /\ \A l \in leads : LeadHolds(l)
  /\ \A l, m \in leads : l.reference = m.reference => l = m
  /\ \A l, m \in leads : l.invoice # NoInvoice /\ l.invoice = m.invoice => l = m

FunnelInv == OrdersHold /\ ReceiptsHold /\ LeadsHold

\* What the leads read of a step of finance: orders and receipts are added, never changed.
LEMMA LeadsStand ==
  ASSUME LeadsHold, leads' = leads, invoices \subseteq invoices'
  PROVE  LeadsHold'
<1>1. \A l \in leads : LeadHolds(l)'
  BY DEF LeadsHold, LeadHolds
<1> QED
  BY <1>1 DEF LeadsHold

\* Steps that touch neither orders nor claims.
LEMMA OrdersAndReceiptsStand ==
  ASSUME OrdersHold, ReceiptsHold, today' \in Nat, bank \subseteq bank', bank' \subseteq BankLine,
         UNCHANGED <<claims, invoices, status>>
  PROVE  OrdersHold' /\ ReceiptsHold'
<1>1. OrdersHold'
  BY DEF OrdersHold
<1>2. ReceiptsHold'
  BY DEF ReceiptsHold
<1> QED
  BY <1>1, <1>2

\* Steps that move an order on.
LEMMA StatusMoves ==
  ASSUME OrdersHold, ReceiptsHold, UNCHANGED <<today, bank, claims, invoices>>,
         NEW v \in invoices, NEW s \in {"issued", "delivered", "cancelled"},
         status' = [status EXCEPT ![v.id] = s]
  PROVE  OrdersHold' /\ ReceiptsHold'
<1>1. v.id \in Invoices
  BY DEF OrdersHold, Invoice
<1>2. \A i \in Invoices : status'[i] = IF i = v.id THEN s ELSE status[i]
  BY DEF OrdersHold
<1>3. status' \in [Invoices -> {"none", "draft", "issued", "delivered", "cancelled"}]
  BY <1>1 DEF OrdersHold
<1>4. \A w \in invoices : w.id \in Invoices
  BY DEF OrdersHold, Invoice
<1>5. OrdersHold'
  BY <1>2, <1>3, <1>4 DEF OrdersHold
<1>6. ReceiptsHold'
  BY <1>2 DEF ReceiptsHold
<1> QED
  BY <1>5, <1>6

\* A claim that is no receipt, or a receipt of an order dated before the line.
LEMMA DatedClaimAdded ==
  ASSUME OrdersHold, ReceiptsHold, UNCHANGED <<today, bank, invoices, status>>,
         NEW kindOf, NEW key, NEW doc, NEW line \in bank, NEW amount \in Amounts,
         claims' = claims \cup {Claim(kindOf, key, doc, line, amount)},
         \/ doc[1] # "receipt"
         \/ \E v \in invoices : doc = <<"receipt", v.id>> /\ v.date <= line.date
  PROVE  OrdersHold' /\ ReceiptsHold'
<1>1. PICK c : c = Claim(kindOf, key, doc, line, amount)
  OBVIOUS
<1>2. c.doc = doc /\ c.line = line /\ c.amount = amount /\ claims' = claims \cup {c}
  BY <1>1 DEF Claim
<1>3. amount \in Nat
  BY BankAssumption
<1>4. IsFiniteSet(claims')
  <2>1. IsFiniteSet(claims) /\ IsFiniteSet({c})
    BY FS_Singleton DEF ReceiptsHold
  <2>2. IsFiniteSet(claims \cup {c})
    BY <2>1, FS_Union
  <2> QED
    BY <1>2, <2>2
<1>5. \A i : doc = <<"receipt", i>> => doc[1] = "receipt"
  OBVIOUS
<1>6. \A i \in Invoices : doc = <<"receipt", i>> =>
        \E v \in invoices : v.id = i /\ v.date <= line.date
  <2> SUFFICES ASSUME NEW i \in Invoices, doc = <<"receipt", i>>
               PROVE  \E v \in invoices : v.id = i /\ v.date <= line.date
    OBVIOUS
  <2>1. PICK v \in invoices : doc = <<"receipt", v.id>> /\ v.date <= line.date
    BY <1>5
  <2>2. <<"receipt", i>>[2] = <<"receipt", v.id>>[2]
    BY <2>1
  <2> QED
    BY <2>1, <2>2
<1>7. \A w \in invoices : w.id \in Invoices
  BY DEF OrdersHold, Invoice
<1>8. \A i \in Invoices : doc = <<"receipt", i>> => status[i] # "none"
  BY <1>6 DEF OrdersHold
<1>9. \A w \in invoices : doc = <<"receipt", w.id>> => w.date <= line.date
  BY <1>6, <1>7 DEF OrdersHold
<1>10. OrdersHold'
  BY DEF OrdersHold
<1>11. ReceiptsHold'
  <2>1. \A x \in claims' : x.amount \in Nat /\ x.line \in bank
    BY <1>2, <1>3 DEF ReceiptsHold
  <2>2. \A x \in claims' : \A i \in Invoices : x.doc = <<"receipt", i>> => status[i] # "none"
    BY <1>2, <1>8 DEF ReceiptsHold
  <2>3. \A x \in claims' : \A w \in invoices : x.doc = <<"receipt", w.id>> => w.date <= x.line.date
    BY <1>2, <1>9 DEF ReceiptsHold
  <2> QED
    BY <1>4, <2>1, <2>2, <2>3 DEF ReceiptsHold
<1> QED
  BY <1>10, <1>11

\* create_invoice: an order of a new identity.
LEMMA OrderCreated ==
  ASSUME OrdersHold, ReceiptsHold, NEW v \in Invoice, DraftCreated(v)
  PROVE  OrdersHold' /\ ReceiptsHold'
<1>1. /\ status[v.id] = "none" /\ invoices' = invoices \cup {v}
      /\ status' = [status EXCEPT ![v.id] = "draft"]
      /\ today' = today /\ bank' = bank /\ claims' = claims
  BY DEF DraftCreated, ledgerVars, bankVars
<1>2. v.id \in Invoices /\ \A w \in invoices : w.id \in Invoices
  BY DEF OrdersHold, Invoice
<1>3. /\ status' \in [Invoices -> {"none", "draft", "issued", "delivered", "cancelled"}]
      /\ \A i \in Invoices : status'[i] = IF i = v.id THEN "draft" ELSE status[i]
  BY <1>1, <1>2 DEF OrdersHold
<1>4. \A w \in invoices : w.id # v.id
  BY <1>1 DEF OrdersHold
<1>5. OrdersHold'
  <2>1. IsFiniteSet(invoices')
    <3>1. IsFiniteSet(invoices) /\ IsFiniteSet({v})
      BY FS_Singleton DEF OrdersHold
    <3> QED
      BY <1>1, <3>1, FS_Union
  <2>2. invoices' \subseteq Invoice /\ \A w, x \in invoices' : w.id = x.id => w = x
    BY <1>1, <1>4 DEF OrdersHold
  <2>3. \A w \in invoices' : status'[w.id] # "none"
    BY <1>1, <1>2, <1>3 DEF OrdersHold
  <2> QED
    BY <1>3, <2>1, <2>2, <2>3 DEF OrdersHold
<1>6. ReceiptsHold'
  <2>1. \A c \in claims : \A i \in Invoices : c.doc = <<"receipt", i>> => status'[i] # "none"
    BY <1>3 DEF ReceiptsHold
  <2>2. \A c \in claims : c.doc # <<"receipt", v.id>>
    BY <1>1, <1>2 DEF ReceiptsHold
  <2>3. \A c \in claims : \A w \in invoices' : c.doc = <<"receipt", w.id>> => w.date <= c.line.date
    BY <1>1, <2>2 DEF ReceiptsHold
  <2> QED
    BY <1>1, <2>1, <2>3 DEF ReceiptsHold
<1> QED
  BY <1>5, <1>6

\* A new row of a user's inputs is an order.
LEMMA OrderTyped ==
  ASSUME NEW i \in Invoices, NEW p \in Parties, NEW date \in Days, NEW service \in Days,
         NEW total \in InvoiceTotals
  PROVE  [id |-> i, party |-> p, date |-> date, service |-> service, amount |-> total] \in Invoice
BY ReceivablesAssumption DEF Invoice

\* Every service of finance adds orders and receipts and changes none.
LEMMA FinanceFeedsLeads ==
  ASSUME OrdersHold, ReceiptsHold, ReceivablesNext
  PROVE  OrdersHold' /\ ReceiptsHold' /\ invoices \subseteq invoices'
<1> USE DEF ledgerVars, bankVars, invoiceVars
<1>1. CASE NextDay /\ UNCHANGED <<bankVars, invoiceVars>>
  <2>1. today' \in Nat /\ bank' \subseteq BankLine
    BY <1>1 DEF NextDay, ReceiptsHold
  <2> QED
    BY <1>1, <2>1, OrdersAndReceiptsStand
<1>2. CASE \E end \in MonthEnds :
             Close(end, BankBlocked(end) \/ ReceivablesBlocked(end)) /\ UNCHANGED <<bankVars, invoiceVars>>
  <2>1. today' = today /\ UNCHANGED <<bankVars, invoiceVars>>
    BY <1>2 DEF Close
  <2>2. today' \in Nat /\ bank' \subseteq BankLine
    BY <2>1 DEF ReceiptsHold
  <2> QED
    BY <2>1, <2>2, OrdersAndReceiptsStand
<1>3. CASE \E file \in Statements : ImportBankCsv(file) /\ UNCHANGED invoiceVars
  <2>1. PICK file \in Statements : ImportBankCsv(file) /\ UNCHANGED invoiceVars
    BY <1>3
  <2>2. today' = today /\ claims' = claims /\ bank' = bank \cup file
    BY <2>1 DEF ImportBankCsv
  <2>3. today' \in Nat /\ bank \subseteq bank' /\ bank' \subseteq BankLine
    BY <2>2, BankAssumption DEF ReceiptsHold
  <2> QED
    BY <2>1, <2>2, <2>3, OrdersAndReceiptsStand
<1>4. ASSUME NEW i \in Invoices, NEW p \in Parties, NEW date \in Days, NEW service \in Days,
             NEW total \in InvoiceTotals,
             CreateInvoice([id |-> i, party |-> p, date |-> date, service |-> service, amount |-> total])
      PROVE  OrdersHold' /\ ReceiptsHold' /\ invoices \subseteq invoices'
  <2>1. PICK v \in Invoice : DraftCreated(v)
    BY <1>4, OrderTyped DEF CreateInvoice
  <2>2. invoices \subseteq invoices'
    BY <2>1 DEF DraftCreated
  <2> QED
    BY <2>1, <2>2, OrderCreated
<1>5. ASSUME NEW v \in invoices, NEW date \in Days,
             IssueInvoice(v) \/ RecordDelivery(v, date) \/ CancelDraft(v, date) \/ CancelIssued(v, date)
      PROVE  OrdersHold' /\ ReceiptsHold' /\ invoices \subseteq invoices'
  <2>1. UNCHANGED <<today, bank, claims, invoices>>
    BY <1>5 DEF IssueInvoice, RecordDelivery, DeliveryPosted, CancelDraft, CancelIssued, Cancelled
  <2>2. PICK s \in {"issued", "delivered", "cancelled"} : status' = [status EXCEPT ![v.id] = s]
    BY <1>5 DEF IssueInvoice, RecordDelivery, DeliveryPosted, CancelDraft, CancelIssued, Cancelled
  <2> QED
    BY <2>1, <2>2, StatusMoves
<1>6. ASSUME NEW v \in invoices, NEW line \in bank, NEW amount \in Amounts,
             ReconcileReceipt(v, line, amount)
      PROVE  OrdersHold' /\ ReceiptsHold' /\ invoices \subseteq invoices'
  <2>1. PICK key, doc : key = <<"allocation", v.id, line.account, line.reference>> /\ doc = <<"receipt", v.id>>
    OBVIOUS
  <2>2. /\ v.date <= line.date /\ claims' = claims \cup {Claim("receipt", key, doc, line, amount)}
        /\ UNCHANGED <<today, bank, invoices, status>>
    <3>1. line.date >= v.date
      BY <1>6 DEF ReconcileReceipt
    <3>2. line.date \in Nat /\ v.date \in Nat
      BY DEF ReceiptsHold, OrdersHold, BankLine, Invoice, Days
    <3>3. claims' = claims \cup {Claim("receipt", key, doc, line, amount)}
          /\ UNCHANGED <<today, bank, invoices, status>>
      BY <1>6, <2>1 DEF ReconcileReceipt, ReceiptPosted
    <3> QED
      BY <3>1, <3>2, <3>3
  <2> QED
    BY <2>1, <2>2, DatedClaimAdded
<1>7. ASSUME NEW line \in bank, NEW amount \in Amounts, NEW reference, NEW direction, NEW kindOf,
             NEW doc, doc[1] # "receipt", NEW entries,
             BankPost(line, direction, amount, kindOf, reference, doc, entries),
             UNCHANGED <<today, closings, bank, openings, invoiceVars>>
      PROVE  OrdersHold' /\ ReceiptsHold' /\ invoices \subseteq invoices'
  <2>1. PICK key : claims' = claims \cup {Claim(kindOf, key, doc, line, amount)}
    BY <1>7 DEF BankPost, BankPosted
  <2>2. UNCHANGED <<today, bank, invoices, status>>
    BY <1>7
  <2> QED
    BY <1>7, <2>1, <2>2, DatedClaimAdded
<1>8. ASSUME NEW p, NEW line \in bank, NEW amount \in Amounts, NEW reference,
             RecordCustomerAdvance(p, line, amount, reference)
      PROVE  OrdersHold' /\ ReceiptsHold' /\ invoices \subseteq invoices'
  <2>1. PICK doc, entries : doc = <<"party", p>>
           /\ BankPost(line, "in", amount, "customer_advance", reference, doc, entries)
    BY <1>8 DEF RecordCustomerAdvance
  <2>2. doc[1] # "receipt"
    BY <2>1
  <2>3. UNCHANGED <<today, closings, bank, openings, invoiceVars>>
    BY <1>8 DEF RecordCustomerAdvance
  <2> QED
    BY <1>7, <2>1, <2>2, <2>3
<1>9. ASSUME NEW adv, NEW line \in bank, NEW amount \in Amounts, NEW reference,
             RefundCustomerAdvance(adv, line, amount, reference)
      PROVE  OrdersHold' /\ ReceiptsHold' /\ invoices \subseteq invoices'
  <2>1. PICK doc, entries : doc = <<"advance", adv.key>>
           /\ BankPost(line, "out", amount, "customer_refund", reference, doc, entries)
    BY <1>9 DEF RefundCustomerAdvance
  <2>2. doc[1] # "receipt"
    BY <2>1
  <2>3. UNCHANGED <<today, closings, bank, openings, invoiceVars>>
    BY <1>9 DEF RefundCustomerAdvance
  <2> QED
    BY <1>7, <2>1, <2>2, <2>3
<1>10. ASSUME NEW x, NEW line \in bank, NEW amount \in Amounts, NEW reference,
              RefundCancelledInvoice(x, line, amount, reference)
       PROVE  OrdersHold' /\ ReceiptsHold' /\ invoices \subseteq invoices'
  <2>1. PICK doc, entries : doc = <<"cancellation", x.invoice>>
           /\ BankPost(line, "out", amount, "customer_refund", reference, doc, entries)
    BY <1>10 DEF RefundCancelledInvoice
  <2>2. doc[1] # "receipt"
    BY <2>1
  <2>3. UNCHANGED <<today, closings, bank, openings, invoiceVars>>
    BY <1>10 DEF RefundCancelledInvoice
  <2> QED
    BY <1>7, <2>1, <2>2, <2>3
<1>11. ASSUME NEW adv, NEW v, NEW date, NEW amount, NEW reference,
              ApplyCustomerAdvance(adv, v, date, amount, reference)
       PROVE  OrdersHold' /\ ReceiptsHold' /\ invoices \subseteq invoices'
  <2>1. UNCHANGED <<today, bankVars, invoices, status>>
    BY <1>11 DEF ApplyCustomerAdvance, AdvanceApplied
  <2>2. today' \in Nat /\ bank' \subseteq BankLine
    BY <2>1 DEF ReceiptsHold
  <2> QED
    BY <2>1, <2>2, OrdersAndReceiptsStand
<1>12. CASE InvoiceStep
  <2>1. (\E v \in invoices : IssueInvoice(v)) =>
          \E v \in invoices, date \in Days : IssueInvoice(v)
    BY LedgerAssumption DEF Days
  <2> QED
    BY <1>12, <2>1, <1>4, <1>5 DEF InvoiceStep
<1>13. CASE CollectionStep
  BY <1>13, <1>6, <1>8, <1>9, <1>10, <1>11 DEF CollectionStep
<1> QED
  BY <1>1, <1>2, <1>3, <1>12, <1>13 DEF ReceivablesNext

\* A row replaced by one of the same reference: the table keeps its references apart.
LEMMA LeadReplaced ==
  ASSUME LeadsHold, NEW l \in leads, NEW new, Replaced(l, new), LeadHolds(new),
         new.reference = l.reference,
         new.invoice # NoInvoice => \A m \in leads : m # l => m.invoice # new.invoice,
         UNCHANGED invoices
  PROVE  LeadsHold'
<1>1. leads' = (leads \ {l}) \cup {new}
  BY DEF Replaced
<1>2. IsFiniteSet(leads')
  <2>1. IsFiniteSet(leads \ {l}) /\ IsFiniteSet({new})
    BY FS_Singleton, FS_Subset DEF LeadsHold
  <2>2. IsFiniteSet((leads \ {l}) \cup {new})
    BY <2>1, FS_Union
  <2> QED
    BY <1>1, <2>2
<1>3. \A m \in leads' : LeadHolds(m)'
  BY <1>1 DEF LeadsHold, LeadHolds
<1>4. \A m, k \in leads' : m.reference = k.reference => m = k
  BY <1>1 DEF LeadsHold
<1>5. \A m, k \in leads' : m.invoice # NoInvoice /\ m.invoice = k.invoice => m = k
  BY <1>1 DEF LeadsHold
<1> QED
  BY <1>2, <1>3, <1>4, <1>5 DEF LeadsHold

\* create_lead, update_lead and link_invoice.
LEMMA LeadsMove ==
  ASSUME OrdersHold, ReceiptsHold, LeadsHold, LeadStep, UNCHANGED receivablesVars
  PROVE  LeadsHold'
<1>0. UNCHANGED invoices
  BY DEF receivablesVars, invoiceVars
<1>1. ASSUME NEW reference \in Leads, NEW received \in Days, NEW party, NEW segment,
             NEW channel \in Channels, CreateLead(reference, received, party, segment, channel)
      PROVE  LeadsHold'
  <2>1. PICK new : new = [reference |-> reference, received |-> received, party |-> party,
                           segment |-> segment, channel |-> channel, stage |-> "new",
                           invoice |-> NoInvoice]
    OBVIOUS
  <2>2. leads' = leads \cup {new} /\ (\A l \in leads : l.reference # new.reference)
        /\ new.invoice = NoInvoice /\ LeadHolds(new)
    BY <1>1, <2>1 DEF CreateLead, LeadHolds
  <2>3. IsFiniteSet(leads')
    <3>1. IsFiniteSet(leads) /\ IsFiniteSet({new})
      BY FS_Singleton DEF LeadsHold
    <3>2. IsFiniteSet(leads \cup {new})
      BY <3>1, FS_Union
    <3> QED
      BY <2>2, <3>2
  <2>4. \A m \in leads' : LeadHolds(m)'
    BY <1>0, <2>2 DEF LeadsHold, LeadHolds
  <2> QED
    BY <2>2, <2>3, <2>4 DEF LeadsHold
<1>2. ASSUME NEW l \in leads, NEW stage, UpdateLead(l, stage) PROVE LeadsHold'
  <2>1. PICK new : new = [l EXCEPT !.stage = stage]
    OBVIOUS
  <2>2. LeadHolds(l) /\ Replaced(l, new)
    BY <1>2, <2>1 DEF LeadsHold, UpdateLead
  <2>3. new = [reference |-> l.reference, received |-> l.received, party |-> l.party,
               segment |-> l.segment, channel |-> l.channel, stage |-> stage, invoice |-> l.invoice]
    BY <2>1, <2>2 DEF LeadHolds
  <2>4. LeadHolds(new) /\ new.reference = l.reference /\ new.invoice = l.invoice
    BY <2>2, <2>3 DEF LeadHolds
  <2>5. new.invoice # NoInvoice => \A m \in leads : m # l => m.invoice # new.invoice
    BY <2>4 DEF LeadsHold
  <2> QED
    BY <1>0, <2>2, <2>4, <2>5, LeadReplaced
<1>3. ASSUME NEW l \in leads, NEW v \in invoices, NEW confirmed, LinkInvoice(l, v, confirmed)
      PROVE  LeadsHold'
  <2>1. PICK new : new = [l EXCEPT !.invoice = v, !.party = v.party]
    OBVIOUS
  <2>2. LeadHolds(l) /\ Replaced(l, new) /\ v.date >= l.received /\ LinkedTo(v) = {}
    BY <1>3, <2>1 DEF LeadsHold, LinkInvoice
  <2>3. new = [reference |-> l.reference, received |-> l.received, party |-> v.party,
               segment |-> l.segment, channel |-> l.channel, stage |-> l.stage, invoice |-> v]
    BY <2>1, <2>2 DEF LeadHolds
  <2>4. v.date \in Days
    BY DEF OrdersHold, Invoice
  <2>5. LeadHolds(new) /\ new.reference = l.reference /\ new.invoice = v
    BY <2>2, <2>3, <2>4 DEF LeadHolds, Days
  <2>6. \A m \in leads : m.invoice # v
    BY <2>2 DEF LinkedTo
  <2> QED
    BY <1>0, <2>2, <2>5, <2>6, LeadReplaced
<1> QED
  BY <1>1, <1>2, <1>3 DEF LeadStep

\* Every step keeps the three tables.
LEMMA FunnelStep == FunnelInv /\ [FunnelNext]_funnelVars => FunnelInv'
<1> SUFFICES ASSUME FunnelInv, [FunnelNext]_funnelVars PROVE FunnelInv'
  OBVIOUS
<1>1. CASE ReceivablesNext /\ UNCHANGED leads
  BY <1>1, FinanceFeedsLeads, LeadsStand DEF FunnelInv
<1>2. CASE LeadStep /\ UNCHANGED receivablesVars
  <2>1. OrdersHold' /\ ReceiptsHold'
    <3>1. UNCHANGED <<today, bank, claims, invoices, status>>
      BY <1>2 DEF receivablesVars, ledgerVars, bankVars, invoiceVars
    <3>2. today' \in Nat /\ bank' \subseteq BankLine
      BY <3>1 DEF FunnelInv, ReceiptsHold
    <3> QED
      BY <3>1, <3>2, OrdersAndReceiptsStand DEF FunnelInv
  <2> QED
    BY <1>2, <2>1, LeadsMove DEF FunnelInv
<1>3. CASE UNCHANGED funnelVars
  <2>1. UNCHANGED <<today, bank, claims, invoices, status, leads>>
    BY <1>3 DEF funnelVars, receivablesVars, ledgerVars, bankVars, invoiceVars
  <2>2. today' \in Nat /\ bank' \subseteq BankLine
    BY <2>1 DEF FunnelInv, ReceiptsHold
  <2>3. OrdersHold' /\ ReceiptsHold'
    BY <2>1, <2>2, OrdersAndReceiptsStand DEF FunnelInv
  <2> QED
    BY <2>1, <2>3, LeadsStand DEF FunnelInv
<1> QED
  BY <1>1, <1>2, <1>3 DEF FunnelNext

\* So do the empty tables.
LEMMA FunnelStart == FunnelInit => FunnelInv
<1> SUFFICES ASSUME FunnelInit PROVE FunnelInv
  OBVIOUS
<1>1. /\ today = 1 /\ bank = {} /\ claims = {} /\ invoices = {} /\ leads = {}
      /\ status = [i \in Invoices |-> "none"]
  BY DEF FunnelInit, ReceivablesInit, BankInit, LedgerInit
<1>2. IsFiniteSet({})
  BY FS_EmptySet
<1> QED
  BY <1>1, <1>2 DEF FunnelInv, OrdersHold, ReceiptsHold, LeadsHold

\* The rows that the figures sum: an order with what it received in a period.
OrderRow(v, start, last) == [invoice |-> v.id, amount |-> ReceiptsOf(v, start, last)]
OrderRows(vs, start, last) == {OrderRow(v, start, last) : v \in vs}

\* Receipts sum to an amount.
LEMMA ReceiptsTyped ==
  ASSUME ReceiptsHold, NEW v, NEW start, NEW last
  PROVE  ReceiptsOf(v, start, last) \in Nat
<1>1. IsFiniteSet(claims) /\ \A c \in claims : c.amount \in Nat
  BY DEF ReceiptsHold
<1> DEFINE some == {c \in claims : c.doc = <<"receipt", v.id>> /\ start <= c.line.date /\ c.line.date <= last}
<1>2. some \in SUBSET claims
  OBVIOUS
<1>3. Total(some) \in Nat
  BY <1>1, <1>2, TotalType
<1> QED
  BY <1>3 DEF ReceiptsOf

\* No receipt of an order is dated before it.
LEMMA ReceiptsSince ==
  ASSUME OrdersHold, ReceiptsHold, NEW v \in invoices, NEW start \in Days, start <= v.date, NEW last
  PROVE  ReceiptsOf(v, 1, last) = ReceiptsOf(v, start, last)
<1>1. v.date \in Nat /\ start \in Nat
  BY DEF OrdersHold, Invoice, Days
<1>2. \A c \in claims : c.line.date \in Nat /\ 1 <= c.line.date
  BY LedgerAssumption DEF ReceiptsHold, BankLine, Days
<1>3. \A c \in claims : c.doc = <<"receipt", v.id>> => start <= c.line.date
  BY <1>1, <1>2 DEF ReceiptsHold
<1> QED
  BY <1>2, <1>3 DEF ReceiptsOf

\* Rows of orders are finitely many, with amounts, and tell their order.
LEMMA OrderRowsTyped ==
  ASSUME OrdersHold, ReceiptsHold, NEW vs \in SUBSET invoices, NEW start, NEW last
  PROVE  /\ IsFiniteSet(OrderRows(vs, start, last))
         /\ \A s \in OrderRows(vs, start, last) : s.amount \in Nat
         /\ \A v, w \in vs : OrderRow(v, start, last) = OrderRow(w, start, last) => v = w
<1> DEFINE g == [v \in vs |-> OrderRow(v, start, last)]
<1>1. IsFiniteSet(vs)
  BY FS_Subset DEF OrdersHold
<1>2. g \in Surjection(vs, OrderRows(vs, start, last))
  BY DEF Surjection, OrderRows
<1>3. IsFiniteSet(OrderRows(vs, start, last))
  BY <1>1, <1>2, FS_Surjection
<1>4. \A v : ReceiptsOf(v, start, last) \in Nat
  BY ReceiptsTyped
<1>5. \A s \in OrderRows(vs, start, last) : s.amount \in Nat
  BY <1>4 DEF OrderRows, OrderRow
<1>6. \A v, w \in vs : OrderRow(v, start, last) = OrderRow(w, start, last) => v.id = w.id
  BY DEF OrderRow
<1> QED
  BY <1>3, <1>5, <1>6 DEF OrdersHold

\* The orders a channel's leads are linked to.
LinkedOrders(channel) == {w \in invoices : \E l \in Selected(channel) : l.invoice = w}

\* What the period's own leads have paid is part of what their channel received in it.
LEMMA CohortWithinChannel ==
  ASSUME FunnelInv, NEW start \in Days, NEW end \in Days, NEW channel \in Channels
  PROVE  CohortCashIn(channel, start, end) <= CashIn(channel, start, end)
<1>1. PICK last : last = ObservedEnd(end)
  OBVIOUS
<1> DEFINE cohort == {l \in WithInvoice(Selected(channel)) : start <= l.received /\ l.received <= last}
           leadRow(l) == [lead |-> l.reference, amount |-> ReceiptsOf(l.invoice, 1, last)]
           R == {leadRow(l) : l \in cohort}
           S == OrderRows(LinkedOrders(channel), start, last)
           f == [r \in R |-> CHOOSE s \in S : \E l \in cohort : r = leadRow(l) /\ s = OrderRow(l.invoice, start, last)]
<1>2. CohortCashIn(channel, start, end) = Total(R) /\ CashIn(channel, start, end) = Total(S)
  BY <1>1 DEF CohortCashIn, CashIn, OrderRows, OrderRow, LinkedOrders
<1>3. OrdersHold /\ ReceiptsHold /\ LeadsHold /\ LinkedOrders(channel) \in SUBSET invoices
  BY DEF FunnelInv, LinkedOrders
<1>4. /\ IsFiniteSet(S) /\ \A s \in S : s.amount \in Nat
      /\ \A v, w \in LinkedOrders(channel) : OrderRow(v, start, last) = OrderRow(w, start, last) => v = w
  BY <1>3, OrderRowsTyped
<1>5. \A l \in cohort : /\ l \in leads /\ l.invoice # NoInvoice /\ l.invoice \in LinkedOrders(channel)
                        /\ start <= l.invoice.date
  <2> SUFFICES ASSUME NEW l \in cohort
               PROVE  /\ l \in leads /\ l.invoice # NoInvoice /\ l.invoice \in LinkedOrders(channel)
                      /\ start <= l.invoice.date
    OBVIOUS
  <2>1. l \in leads /\ l \in Selected(channel) /\ l.invoice # NoInvoice /\ start <= l.received
    BY DEF WithInvoice, Selected
  <2>2. l.invoice \in invoices /\ l.received <= l.invoice.date /\ l.received \in Days
    BY <1>3, <2>1 DEF LeadsHold, LeadHolds
  <2>3. start \in Nat /\ l.received \in Nat /\ l.invoice.date \in Nat
    BY <1>3, <2>2 DEF OrdersHold, Invoice, Days
  <2> QED
    BY <2>1, <2>2, <2>3 DEF LinkedOrders
<1>6. IsFiniteSet(R) /\ \A r \in R : r.amount \in Nat
  <2>1. IsFiniteSet(cohort)
    <3>1. cohort \in SUBSET leads /\ IsFiniteSet(leads)
      BY <1>5, <1>3 DEF LeadsHold
    <3> QED
      BY <3>1, FS_Subset
  <2> DEFINE g == [l \in cohort |-> leadRow(l)]
  <2>2. g \in Surjection(cohort, R)
    BY DEF Surjection
  <2>3. \A v : ReceiptsOf(v, 1, last) \in Nat
    BY <1>3, ReceiptsTyped
  <2>4. \A r \in R : r.amount \in Nat
    BY <2>3
  <2> HIDE DEF cohort, R
  <2> QED
    BY <2>1, <2>2, <2>4, FS_Surjection
<1>7. \A l \in cohort : leadRow(l).amount = OrderRow(l.invoice, start, last).amount
  <2> SUFFICES ASSUME NEW l \in cohort PROVE ReceiptsOf(l.invoice, 1, last) = ReceiptsOf(l.invoice, start, last)
    BY DEF OrderRow
  <2>1. l.invoice \in invoices /\ start <= l.invoice.date
    BY <1>3, <1>5
  <2> QED
    BY <1>3, <2>1, ReceiptsSince
<1>8. \A l \in cohort : OrderRow(l.invoice, start, last) \in S
  BY <1>5 DEF OrderRows
<1>9. \A l, m \in cohort : leadRow(l) = leadRow(m) => l = m
  <2>1. \A l, m \in cohort : leadRow(l) = leadRow(m) => l.reference = m.reference
    OBVIOUS
  <2> QED
    BY <1>3, <1>5, <2>1 DEF LeadsHold
<1>10. \A r \in R : \E l \in cohort : r = leadRow(l)
  OBVIOUS
<1> HIDE DEF cohort, R, S, leadRow
<1>11. \A r \in R : \E l \in cohort : r = leadRow(l) /\ f[r] = OrderRow(l.invoice, start, last) /\ f[r] \in S
  BY <1>8, <1>10
<1> HIDE DEF f
<1>12. f \in [R -> S]
  <2>1. f = [r \in R |-> f[r]]
    BY DEF f
  <2> QED
    BY <2>1, <1>11
<1>13. \A r \in R : r.amount <= f[r].amount
  <2> SUFFICES ASSUME NEW r \in R PROVE r.amount <= f[r].amount
    OBVIOUS
  <2>1. PICK l \in cohort : r = leadRow(l) /\ f[r] = OrderRow(l.invoice, start, last)
    BY <1>11
  <2>2. r.amount = f[r].amount /\ r.amount \in Nat
    BY <1>6, <1>7, <2>1
  <2> QED
    BY <2>2
<1>14. \A r, x \in R : f[r] = f[x] => r = x
  <2> SUFFICES ASSUME NEW r \in R, NEW x \in R, f[r] = f[x] PROVE r = x
    OBVIOUS
  <2>1. PICK l \in cohort : r = leadRow(l) /\ f[r] = OrderRow(l.invoice, start, last)
    BY <1>11
  <2>2. PICK m \in cohort : x = leadRow(m) /\ f[x] = OrderRow(m.invoice, start, last)
    BY <1>11
  <2>3. l.invoice = m.invoice
    BY <1>4, <1>5, <2>1, <2>2
  <2>4. l = m
    BY <1>3, <1>5, <2>3 DEF LeadsHold
  <2> QED
    BY <2>1, <2>2, <2>4
<1>15. Total(R) <= Total(S)
  BY <1>4, <1>6, <1>12, <1>13, <1>14, TotalInjected
<1> QED
  BY <1>2, <1>15

\* The channels together received no more than finance did.
LEMMA ChannelsWithinReceipts ==
  ASSUME FunnelInv, NEW start \in Days, NEW end \in Days
  PROVE  Total({[channel |-> c, amount |-> CashIn(c, start, end)] : c \in Channels})
           <= TotalReceipts(start, end)
<1>1. PICK last : last = ObservedEnd(end)
  OBVIOUS
<1> DEFINE row(c) == [channel |-> c, amount |-> Total(OrderRows(LinkedOrders(c), start, last))]
           R == {row(c) : c \in Channels}
           linked == UNION {LinkedOrders(c) : c \in Channels}
           S == OrderRows(linked, start, last)
           all == OrderRows(invoices, start, last)
           g == [r \in R |-> r.channel]
           of(s) == CHOOSE c \in Channels : \E v \in LinkedOrders(c) : s = OrderRow(v, start, last)
           k == [s \in S |-> of(s)]
<1>2. /\ {[channel |-> c, amount |-> CashIn(c, start, end)] : c \in Channels} = R
      /\ TotalReceipts(start, end) = Total(all)
  <2>1. \A c : CashIn(c, start, end) = Total(OrderRows(LinkedOrders(c), start, last))
    BY <1>1 DEF CashIn, OrderRows, OrderRow, LinkedOrders
  <2>2. TotalReceipts(start, end) = Total(all)
    BY <1>1 DEF TotalReceipts, OrderRows, OrderRow
  <2> QED
    BY <2>1, <2>2
<1>3. /\ OrdersHold /\ ReceiptsHold /\ LeadsHold /\ linked \in SUBSET invoices
      /\ invoices \in SUBSET invoices /\ \A c : LinkedOrders(c) \in SUBSET invoices
  BY DEF FunnelInv, LinkedOrders
<1> HIDE DEF linked
<1>4. /\ IsFiniteSet(S) /\ \A s \in S : s.amount \in Nat
      /\ \A v, w \in linked : OrderRow(v, start, last) = OrderRow(w, start, last) => v = w
  BY <1>3, OrderRowsTyped
<1>5. IsFiniteSet(all) /\ \A s \in all : s.amount \in Nat
  BY <1>3, OrderRowsTyped
<1>6. \A c \in Channels : /\ IsFiniteSet(OrderRows(LinkedOrders(c), start, last))
                          /\ \A s \in OrderRows(LinkedOrders(c), start, last) : s.amount \in Nat
  BY <1>3, OrderRowsTyped
<1>7. \A c \in Channels : row(c).amount \in Nat /\ row(c).channel = c
  <2> TAKE c \in Channels
  <2>1. PICK rows : rows = OrderRows(LinkedOrders(c), start, last)
    OBVIOUS
  <2>2. IsFiniteSet(rows) /\ (\A s \in rows : s.amount \in Nat) /\ rows \in SUBSET rows
    BY <1>6, <2>1
  <2>3. Total(rows) \in Nat
    BY <2>2, TotalType
  <2> QED
    BY <2>1, <2>3
<1>8. IsFiniteSet(R) /\ \A r \in R : r.amount \in Nat /\ r.channel \in Channels
  <2> DEFINE h == [c \in Channels |-> row(c)]
  <2>1. h \in Surjection(Channels, R)
    BY DEF Surjection
  <2>2. \A r \in R : r.amount \in Nat /\ r.channel \in Channels
    BY <1>7
  <2>3. IsFiniteSet(Channels)
    BY FunnelAssumption
  <2> HIDE DEF R, h
  <2> QED
    BY <2>1, <2>2, <2>3, FS_Surjection
<1>9. \A c, d \in Channels : \A v : v \in LinkedOrders(c) /\ v \in LinkedOrders(d) => c = d
  <2> SUFFICES ASSUME NEW c \in Channels, NEW d \in Channels, NEW v, v \in LinkedOrders(c), v \in LinkedOrders(d)
               PROVE  c = d
    OBVIOUS
  <2>1. PICK l \in leads : l.channel = c /\ l.invoice = v
    BY DEF LinkedOrders, Selected
  <2>2. PICK m \in leads : m.channel = d /\ m.invoice = v
    BY DEF LinkedOrders, Selected
  <2>3. v \in Invoice
    BY <1>3 DEF OrdersHold
  <2>4. v # NoInvoice
    <3>1. DOMAIN v = {"id", "party", "date", "service", "amount"} /\ DOMAIN NoInvoice = {"none"}
      BY <2>3 DEF Invoice, NoInvoice
    <3>2. "id" \in DOMAIN v /\ "id" \notin DOMAIN NoInvoice
      BY <3>1
    <3> QED
      BY <3>2
  <2> QED
    BY <1>3, <2>1, <2>2, <2>4 DEF LeadsHold
<1>10. \A s \in S : of(s) \in Channels /\ \E v \in LinkedOrders(of(s)) : s = OrderRow(v, start, last)
  <2> SUFFICES ASSUME NEW s \in S PROVE of(s) \in Channels /\ \E v \in LinkedOrders(of(s)) : s = OrderRow(v, start, last)
    OBVIOUS
  <2>1. \E c \in Channels : \E v \in LinkedOrders(c) : s = OrderRow(v, start, last)
    BY DEF OrderRows, linked
  <2> QED
    BY <2>1
<1> HIDE DEF of
<1>11. k \in [S -> Channels] /\ \A s \in S : k[s] = of(s)
  <2> HIDE DEF S
  <2> QED
    BY <1>10
<1> HIDE DEF k
<1>12. g \in [R -> Channels]
  BY <1>8
<1>13. \A c \in Channels : Total(InGroup(R, g, c)) <= Total(InGroup(S, k, c))
  <2> SUFFICES ASSUME NEW c \in Channels PROVE Total(InGroup(R, g, c)) <= Total(InGroup(S, k, c))
    OBVIOUS
  <2>1. InGroup(R, g, c) = {row(c)}
    BY <1>7 DEF InGroup
  <2>2. Total(InGroup(R, g, c)) = Total(OrderRows(LinkedOrders(c), start, last))
        /\ Total(OrderRows(LinkedOrders(c), start, last)) \in Nat
    BY <1>7, <2>1, TotalOne
  <2>3. InGroup(S, k, c) = OrderRows(LinkedOrders(c), start, last)
    <3>1. ASSUME NEW s \in S, k[s] = c PROVE s \in OrderRows(LinkedOrders(c), start, last)
      BY <1>10, <1>11, <3>1 DEF OrderRows
    <3>2. ASSUME NEW v \in LinkedOrders(c), NEW s, s = OrderRow(v, start, last) PROVE s \in S /\ k[s] = c
      <4>1. v \in linked
        BY DEF linked
      <4>2. s \in S
        BY <4>1, <3>2 DEF OrderRows
      <4>3. PICK w \in LinkedOrders(k[s]) : s = OrderRow(w, start, last)
        BY <1>10, <1>11, <4>2
      <4>4. w \in linked /\ k[s] \in Channels
        BY <1>10, <1>11, <4>2 DEF linked
      <4>5. w = v
        BY <1>4, <3>2, <4>1, <4>3, <4>4
      <4> QED
        BY <1>9, <4>2, <4>3, <4>4, <4>5
    <3>3. \A s : s \in InGroup(S, k, c) <=> s \in S /\ k[s] = c
      BY DEF InGroup
    <3>4. \A s : s \in OrderRows(LinkedOrders(c), start, last) <=> \E v \in LinkedOrders(c) : s = OrderRow(v, start, last)
      BY DEF OrderRows
    <3> QED
      BY <3>1, <3>2, <3>3, <3>4
  <2> QED
    BY <2>2, <2>3
<1> HIDE DEF R, S, g, row
<1>14. Total(R) <= Total(S)
  BY <1>4, <1>8, <1>11, <1>12, <1>13, TotalByGroup
<1>15. Total(S) <= Total(all)
  <2>1. S \in SUBSET all
    BY <1>3 DEF S, OrderRows
  <2> HIDE DEF all
  <2> QED
    BY <1>5, <2>1, TotalMonotone
<1>16. Total(R) \in Nat /\ Total(S) \in Nat /\ Total(all) \in Nat
  <2>1. R \in SUBSET R /\ S \in SUBSET S /\ all \in SUBSET all
    OBVIOUS
  <2> HIDE DEF all
  <2> QED
    BY <1>4, <1>5, <1>8, <2>1, TotalType
<1> QED
  BY <1>2, <1>14, <1>15, <1>16

\* However leads are entered, staged and linked while finance invoices and collects: what a
\* period's own leads have paid is part of what their channel received in it, and the
\* channels together received no more than finance did (link_invoice, _period).
THEOREM CohortsStayWithinReceipts == FunnelSpec => []CohortsWithinReceipts
<1>1. FunnelInv => CohortsWithinReceipts
  BY CohortWithinChannel, ChannelsWithinReceipts DEF CohortsWithinReceipts
<1> QED
  BY <1>1, FunnelStart, FunnelStep, PTL DEF FunnelSpec

=============================================================================
