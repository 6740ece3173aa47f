----------------------------- MODULE SourceRecap -----------------------------
(***************************************************************************)
(* What an archived source tells, and what the director is told of it      *)
(* (imports/services.py _validate, import_summary; director/analytics.py). *)
(* A bundle is the transcript of one recap: a page per month, a channel    *)
(* per column, a detail per cell, and notes on what does not agree. It is  *)
(* validated, archived whole, and summed up by calendar year.              *)
(*                                                                         *)
(* How its files and rows are written is in module SourceArchive. A value  *)
(* that the page does not show is {}, a value it shows is {n}. A channel   *)
(* may bring a detail_count of its own, which _validate does not look at:  *)
(* here it is null or a number. Formats, locators and texts are left out.  *)
(***************************************************************************)
EXTENDS Amounts, Integers, FiniteSetsExt

CONSTANTS
  Transcripts,   \* the bundles that may be submitted
  RecapYears,         \* the years they are about
  LastMonth      \* months of a year

VARIABLES
  batches,       \* ImportBatch: the archived bundles
  contacts,      \* how many suppliers have a name
  drafts         \* draft bills made from suppliers' invoices

recapVars == <<batches, contacts, drafts>>

Periods == [year : RecapYears, month : 1..LastMonth]

\* A transcript: finite lists, pages dated by a month, amounts that are shown or not, an
\* annual total or none, and notes on a page or on none. A column's own count is {} where
\* the key is missing, and else a value that is shown or null.
AtMostOne(value) == value = {} \/ \E n \in value : value = {n}
Shown(value) == AtMostOne(value) /\ value \subseteq Nat
IsTranscript(b) ==
  /\ IsFiniteSet(b.months) /\ IsFiniteSet(b.channels) /\ IsFiniteSet(b.details)
  /\ \A m \in b.months : m.period \in Periods /\ Shown(m.printed) /\ Shown(m.counted)
  /\ \A c \in b.channels : AtMostOne(c.own) /\ \A count \in c.own : Shown(count)
  /\ \A d \in b.details : d.quantity \in Nat
  /\ Shown(b.annual)
  /\ \A e \in b.exceptions : AtMostOne(e.month)

ASSUME RecapAssumption ==
  /\ RecapYears \subseteq Nat /\ IsFiniteSet(RecapYears) /\ LastMonth \in Nat \ {0}
  /\ \A b \in Transcripts : IsTranscript(b)

-----------------------------------------------------------------------------
(* _validate *)

\* _indexed: an ID names one row.
Indexed(rows) == \A r, s \in rows : r.id = s.id => r = s
RowIds(rows) == {r.id : r \in rows}
Quantity(details) == Total({[detail |-> d.id, amount |-> d.quantity] : d \in details})

MonthsValid(b) ==
  /\ b.months # {} /\ Indexed(b.months)
  /\ \A m, n \in b.months : m.period = n.period => m = n

ChannelsValid(b) == Indexed(b.channels) /\ \A c \in b.channels : c.month \in RowIds(b.months)

\* Faulty DetailsValid: a cell may lie on the page of another month than its column.
DetailsValidAnyMonth(b) ==
  /\ Indexed(b.details)
  /\ \A d \in b.details : d.month \in RowIds(b.months) /\ d.channel \in RowIds(b.channels)

\* A cell lies in a column of its own page, and an ambiguous date stays open.
DetailsValid(b) ==
  /\ Indexed(b.details)
  /\ \A d \in b.details :
       /\ \E c \in b.channels : c.id = d.channel /\ c.month = d.month
       /\ d.ambiguous => d.date = {}

ExceptionsValid(b) ==
  /\ Indexed(b.exceptions)
  /\ \A e \in b.exceptions : e.month \subseteq RowIds(b.months) /\ e.details \subseteq RowIds(b.details)

\* A page's detail_count is what its cells add up to.
CountsAgree(b) ==
  \A m \in b.months : m.counted \subseteq {Quantity({d \in b.details : d.month = m.id})}

\* The invoice of a supplier that comes with the recap adds up.
InvoiceValid(b) == \A i \in b.invoice : i.quantity * i.price = i.base /\ i.base + i.vat = i.total

Valid(b) ==
  /\ MonthsValid(b) /\ ChannelsValid(b) /\ DetailsValid(b) /\ ExceptionsValid(b)
  /\ CountsAgree(b) /\ InvoiceValid(b)

-----------------------------------------------------------------------------
\* Neither the source nor one of its months is archived.
NotYetTold(b) ==
  \A a \in batches :
    /\ a.source # b.source
    /\ \A m \in a.months, n \in b.months : m.period # n.period

\* The facts of an invoice that a bill has.
BillOf(i) == [supplier |-> i.supplier, number |-> i.number, vat |-> i.vat, total |-> i.total]

SameBillOrNone(i) ==
  \A bill \in drafts : bill.supplier = i.supplier /\ bill.number = i.number => bill = BillOf(i)

\* _draft_supplier_bill. An invoice that create_bill refuses refuses the import.
DraftSupplierBill(b) ==
  /\ \A i \in b.invoice : contacts[i.supplier] <= 1 /\ SameBillOrNone(i)
  /\ drafts' = drafts \cup
       {BillOf(i) : i \in {i \in b.invoice : \A bill \in drafts :
                            bill.supplier # i.supplier \/ bill.number # i.number}}
  /\ contacts' = [name \in DOMAIN contacts |->
       IF name \in {i.supplier : i \in b.invoice} THEN 1 ELSE contacts[name]]

\* import_bundle. What is archived already changes nothing, or is refused.
ImportBundle(b) ==
  /\ Valid(b) /\ NotYetTold(b)
  /\ batches' = batches \cup {b}
  /\ DraftSupplierBill(b)

\* partner_create: names need not differ.
AddSupplier(name) ==
  /\ contacts[name] < 2
  /\ contacts' = [contacts EXCEPT ![name] = @ + 1]
  /\ UNCHANGED <<batches, drafts>>

Invoices == UNION {b.invoice : b \in Transcripts}

RecapInit ==
  /\ batches = {} /\ drafts = {}
  /\ contacts = [name \in {i.supplier : i \in Invoices} |-> 0]

RecapNext ==
  \/ \E b \in Transcripts : ImportBundle(b)
  \/ \E name \in DOMAIN contacts : AddSupplier(name)

RecapSpec == RecapInit /\ [][RecapNext]_recapVars

-----------------------------------------------------------------------------
(* The year of a company: import_summary and dashboard_snapshot *)

\* MonthlySnapshot rows of a year, with the batch of each.
Snapshots(year) ==
  {s \in [batch : batches, month : UNION {b.months : b \in batches}] :
     s.month \in s.batch.months /\ s.month.period.year = year}
Selected(b, year) == {m.id : m \in {m \in b.months : m.period.year = year}}

\* _observed_sum: unknown values are left out, and nothing known is unknown. The rows are
\* pairs of a name and a value.
ObservedSum(rows) ==
  LET observed == {r \in rows : r.value # {}}
  IN  IF observed = {} THEN {}
      ELSE {Total({[row |-> r.name, amount |-> CHOOSE n \in r.value : TRUE] : r \in observed})}

\* import_summary: the year's pages and its sources. A source with a page of the year counts
\* with all its notes and with its annual total, whatever months these are about.
PrintedTotal(year) ==
  ObservedSum({[name |-> <<s.batch.source, s.month.id>>, value |-> s.month.printed] : s \in Snapshots(year)})
CountedTotal(year) ==
  ObservedSum({[name |-> <<s.batch.source, s.month.id>>, value |-> s.month.counted] : s \in Snapshots(year)})

BatchesOf(year) == {s.batch : s \in Snapshots(year)}
NotesCounted(year) == UNION {{<<b.source, e.id>> : e \in b.exceptions} : b \in BatchesOf(year)}
AnnualPrinted(year) == ObservedSum({[name |-> b.source, value |-> b.annual] : b \in BatchesOf(year)})

\* monthly_series: the one snapshot of each month of the year.
Page(p) == {s.month : s \in {s \in Snapshots(p.year) : s.month.period = p}}

\* _partner_rollups: the columns of the year's pages, by their label as it is written.
Columns(year) ==
  UNION {{[batch |-> b, column |-> c] : c \in {c \in b.channels : c.month \in Selected(b, year)}} :
           b \in batches}
Labels(year) == {x.column.label : x \in Columns(year)}
CellsOf(x, year) ==
  {d \in x.batch.details : d.channel = x.column.id /\ d.month \in Selected(x.batch, year)}

\* A column's own count stands before its cells, and a column without both is unknown.
ColumnCount(x, year) ==
  LET cells == CellsOf(x, year)
  IN  IF x.column.own # {} THEN CHOOSE count \in x.column.own : TRUE
      ELSE IF cells = {} THEN {} ELSE {Quantity(cells)}

PartnerCount(label, year) ==
  ObservedSum({[name |-> <<x.batch.source, x.column.id>>, value |-> ColumnCount(x, year)] :
                 x \in {x \in Columns(year) : x.column.label = label}})

\* dashboard_snapshot, exceptions: the notes on the year's pages, and on none.
NotesOf(year) ==
  UNION {{<<b.source, e.id>> : e \in {e \in b.exceptions : e.month \subseteq Selected(b, year)}} :
           b \in BatchesOf(year)}

\* dashboard_snapshot, annual_records: the annual totals that are not said to cover a month
\* of another year.
AnnualRecords(year) ==
  {b \in BatchesOf(year) : b.annual # {} /\ \A p \in b.covered : p.year = year}

-----------------------------------------------------------------------------
RecapTypeOK ==
  /\ batches \subseteq Transcripts
  /\ drafts \subseteq {BillOf(i) : i \in Invoices}
  /\ contacts \in [{i.supplier : i \in Invoices} -> 0..2]

\* The value of an amount that may be unknown, with 0 for unknown.
AmountOf(value) == IF value = {} THEN 0 ELSE CHOOSE n \in value : TRUE

ArchivedMonths ==
  UNION {{[batch |-> b.source, month |-> m] : m \in b.months} : b \in batches}

SumOfColumns(y) ==
  Total({[column |-> <<x.batch.source, x.column.id>>, amount |-> AmountOf(ColumnCount(x, y))] : x \in Columns(y)})
SumOfPages(y) ==
  Total({[page |-> <<s.batch.source, s.month.id>>,
          amount |-> Quantity({d \in s.batch.details : d.month = s.month.id})] : s \in Snapshots(y)})
SumOfPartners(y) == Total({[label |-> l, amount |-> AmountOf(PartnerCount(l, y))] : l \in Labels(y)})
SumOfMonths(y) ==
  Total({[month |-> n, amount |-> Total({[page |-> m, amount |-> AmountOf(m.printed)] :
                                           m \in Page([year |-> y, month |-> n])})] : n \in 1..LastMonth})
SumOfAnnuals(y) == Total({[source |-> b.source, amount |-> AmountOf(b.annual)] : b \in AnnualRecords(y)})

\* The columns of a year leave their counts to the cells.
CellsTell(y) == \A x \in Columns(y) : x.column.own = {}

\* The year's figures are those of the archive, however its pages are spread over sources
\* and its sources over years. Every page has one place in one year, the pages of a year
\* add up to its total, and all years to the archive. The partners together have what
\* the columns count; unless a column brings a count of its own, which nobody compares with
\* its cells, that is the cells of the year's pages, and what the pages count when all
\* of them do. A note on a page and an annual total with covered months are listed in one
\* year at most, those of neither kind in every year that their source has a page of. The
\* overview counts them in all of these years: it and the lists agree where a year's
\* sources have no page of another, and cover no month of another. The supplier's invoice of
\* a source is in the books as it is written there (_validate, import_bundle,
\* _draft_supplier_bill, import_summary, dashboard_snapshot, _partner_rollups).
YearsTellTheArchive ==
  /\ \A p \in Periods : Cardinality({s \in Snapshots(p.year) : s.month.period = p}) <= 1
  /\ Total({[year |-> y, amount |-> AmountOf(PrintedTotal(y))] : y \in RecapYears})
       = Total({[month |-> m, amount |-> AmountOf(m.month.printed)] : m \in ArchivedMonths})
  /\ \A y \in RecapYears :
       /\ AmountOf(PrintedTotal(y)) = SumOfMonths(y)
       /\ SumOfPartners(y) = SumOfColumns(y)
       /\ CellsTell(y) =>
            /\ SumOfPartners(y) = SumOfPages(y)
            /\ (\A s \in Snapshots(y) : s.month.counted # {}) => AmountOf(CountedTotal(y)) = SumOfPartners(y)
       /\ NotesOf(y) \subseteq NotesCounted(y)
       /\ (\A b \in BatchesOf(y) : \A m \in b.months : m.period.year = y) => NotesCounted(y) = NotesOf(y)
       /\ (\A b \in BatchesOf(y) : \A p \in b.covered : p.year = y) =>
            AmountOf(AnnualPrinted(y)) = SumOfAnnuals(y)
  /\ \A b \in batches :
       /\ \A e \in b.exceptions :
            e.month # {} => Cardinality({y \in RecapYears : <<b.source, e.id>> \in NotesOf(y)}) = 1
       /\ b.covered # {} => Cardinality({y \in RecapYears : b \in AnnualRecords(y)}) <= 1
       /\ {BillOf(i) : i \in b.invoice} \subseteq drafts
=============================================================================
