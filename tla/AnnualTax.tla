------------------------------ MODULE AnnualTax ------------------------------
(***************************************************************************)
(* The tax year of one company (taxes/workflow.py, taxes/models.py): the   *)
(* reviewed profile and its decisions, the obligations of the months and   *)
(* the official evidence for them, and the annual workpaper that is        *)
(* prepared from them, approved and matched with the filed return.         *)
(*                                                                         *)
(* The twelve months of the year are 1..Year. A professional's report is   *)
(* recorded in the transaction of the decision it supports, bound to the   *)
(* row by a digest; both are one step here. Deciding the tax of a bill and *)
(* remitting it to the bank are the module Payables.                       *)
(***************************************************************************)
EXTENDS Amounts, Integers, Sequences, FiniteSets

CONSTANTS
  Year,              \* number of months
  Sums,              \* amounts of tax
  MaxProfit, MaxObligations, MaxDecisions, MaxPapers   \* bounds

ASSUME AnnualAssumption ==
  /\ Year \in Nat \ {0} /\ Sums \subseteq Nat \ {0}
  /\ {MaxProfit, MaxObligations, MaxDecisions, MaxPapers} \subseteq Nat

VARIABLES
  month,             \* the current month; Year + 1 when the year has ended
  profit, settled,    \* posted profit of each month, closed months
  decisions,         \* TaxProfileDecision rows: effective_from, regime
  obligations,       \* TaxObligation rows
  remitted,          \* obligations of bills whose remittances reach the amount
  verified,          \* TaxVerification rows: <<obligation, kind>>
  papers,            \* AnnualTaxWorkpaper rows
  approved,          \* workpapers with an AnnualTaxApproval
  filed              \* AnnualTaxFiling rows: <<workpaper, return_version>>

books      == <<profit, settled>>
evidence   == <<decisions, obligations, remitted, verified>>
package    == <<papers, approved, filed>>
annualVars == <<month, books, evidence, package>>

Months      == 1..Year
Obligations == 1..Len(obligations)
Papers      == 1..Len(papers)

-----------------------------------------------------------------------------
\* profile_for_period: the decision that is in force for a month, the later one of two
\* from the same month.
ProfileInForce(m) ==
  LET started == {d \in 1..Len(decisions) : decisions[d].from <= m}
  IN  {d \in started : \A e \in started :
         decisions[e].from < decisions[d].from \/ (decisions[e].from = decisions[d].from /\ e <= d)}

\* profile_gates: no gate is open for the month. The facility ends after the year.
GatesOpen(m)  == ProfileInForce(m) = {}
FinalRight(m) == \E d \in ProfileInForce(m) : decisions[d].regime = "final"

\* TaxVerification amounts of one kind, and the final tax that is due.
Amount(os)  == Total({[o |-> o, amount |-> obligations[o].amount] : o \in os})
Credits     == Amount({o \in Obligations : <<o, "credit">> \in verified})
FinalRows   == {o \in Obligations : obligations[o].type = "final" /\ obligations[o].status = "approved"}
FinalPaid   == Amount({o \in FinalRows : <<o, "payment">> \in verified})
Profit      == Total({[month |-> m, amount |-> profit[m]] : m \in Months})

\* book_snapshot and annual_tax_snapshot.
BookSnapshot == [months |-> profit, settled |-> settled]
\* Faulty TaxSnapshot: the official evidence is left out.
TaxSnapshotOfDecisions == <<obligations, {}, decisions>>
TaxSnapshot == <<obligations, verified, decisions>>

-----------------------------------------------------------------------------
NextMonth ==
  /\ month <= Year /\ month' = month + 1
  /\ UNCHANGED <<books, evidence, package>>

\* A posting of the finance services (assert_open_period) and the view close_month,
\* which asks for the gates first. Its other blockers belong to Finance.
PostProfit(m) ==
  /\ m <= month /\ \A c \in settled : c < m
  /\ profit[m] < MaxProfit /\ profit' = [profit EXCEPT ![m] = @ + 1]
  /\ UNCHANGED <<month, settled, evidence, package>>
CloseBooks(m) ==
  /\ m < month /\ m \notin settled /\ ~GatesOpen(m)
  /\ settled' = settled \cup {m}
  /\ UNCHANGED <<month, profit, evidence, package>>

\* approve_tax_profile: from the month of registration (month 1) to the current one.
ApproveTaxProfile(from, regime) ==
  /\ from <= month /\ Len(decisions) < MaxDecisions
  /\ decisions' = Append(decisions, [from |-> from, regime |-> regime])
  /\ UNCHANGED <<month, books, obligations, remitted, verified, package>>

NewObligation(m, type, amount, status, ofBill) ==
  /\ m <= month /\ Len(obligations) < MaxObligations
  /\ obligations' = Append(obligations,
       [month |-> m, type |-> type, amount |-> amount, status |-> status, ofBill |-> ofBill])
  /\ UNCHANGED <<month, books, decisions, remitted, verified, package>>

\* prepare_obligation, by hand or for a customer's withholding.
PrepareObligation(m, type, amount) ==
  /\ type = "final" => ~GatesOpen(m) /\ FinalRight(m)
  /\ NewObligation(m, type, amount, "review", FALSE)

\* review_bill_tax: the obligation is approved as it is made.
ReviewBillTax(m, amount) == NewObligation(m, "payable", amount, "approved", TRUE)

\* approve_tax_obligation with TaxObligation.clean.
ApproveObligation(o) ==
  /\ obligations[o].status = "review"
  /\ obligations[o].type = "final" => FinalRight(obligations[o].month)
  /\ obligations' = [obligations EXCEPT ![o].status = "approved"]
  /\ UNCHANGED <<month, books, decisions, remitted, verified, package>>

\* TaxRemittance rows reach the amount of the obligation.
Remit(o) ==
  /\ obligations[o].ofBill /\ o \notin remitted
  /\ remitted' = remitted \cup {o}
  /\ UNCHANGED <<month, books, decisions, obligations, verified, package>>

\* verify_obligation_evidence, once for each kind.
VerifyEvidence(o, kind) ==
  /\ obligations[o].status = "approved" /\ decisions # <<>>
  /\ kind = "credit" <=> obligations[o].type = "credit"
  /\ kind = "filing" => obligations[o].type # "final"
  /\ kind = "payment" /\ obligations[o].ofBill => o \in remitted
  /\ <<o, kind>> \notin verified
  /\ verified' = verified \cup {<<o, kind>>}
  /\ UNCHANGED <<month, books, decisions, obligations, remitted, package>>

PrepareAnnual(version) ==
  /\ Len(papers) < MaxPapers
  /\ papers' = Append(papers, [books |-> BookSnapshot, tax |-> TaxSnapshot, profit |-> Profit,
       credits |-> Credits, finalPaid |-> FinalPaid, version |-> version])
  /\ UNCHANGED <<month, books, evidence, approved, filed>>

Unchanged(p) == papers[p].tax = TaxSnapshot /\ papers[p].books = BookSnapshot

\* Faulty YearComplete: the months need not be closed.
YearOver == \A m \in Months : ~GatesOpen(m) /\ m < month
YearComplete == \A m \in Months : ~GatesOpen(m) /\ m \in settled /\ m < month

ApproveAnnual(p) ==
  /\ p \notin approved /\ Unchanged(p) /\ YearComplete
  /\ \A o \in Obligations : obligations[o].status = "approved"
  /\ approved' = approved \cup {p}
  /\ UNCHANGED <<month, books, evidence, papers, filed>>

\* One filing for a workpaper, and one for a version of the return.
VerifyFiling(p) ==
  /\ p \in approved /\ Unchanged(p)
  /\ \A f \in filed : f[1] # p /\ f[2] # papers[p].version
  /\ filed' = filed \cup {<<p, papers[p].version>>}
  /\ UNCHANGED <<month, books, evidence, papers, approved>>

AnnualInit ==
  /\ month = 1 /\ profit = [m \in Months |-> 0] /\ settled = {}
  /\ decisions = <<>> /\ obligations = <<>> /\ remitted = {} /\ verified = {}
  /\ papers = <<>> /\ approved = {} /\ filed = {}

AnnualNext ==
  \/ NextMonth
  \/ \E m \in Months : PostProfit(m) \/ CloseBooks(m)
  \/ \E m \in Months, regime \in {"final", "normal"} : ApproveTaxProfile(m, regime)
  \/ \E m \in Months, amount \in Sums :
       \/ ReviewBillTax(m, amount)
       \/ \E type \in {"final", "payable", "credit"} : PrepareObligation(m, type, amount)
  \/ \E o \in Obligations :
       \/ ApproveObligation(o) \/ Remit(o)
       \/ \E kind \in {"payment", "filing", "credit"} : VerifyEvidence(o, kind)
  \/ \E version \in {0, 1} : PrepareAnnual(version)
  \/ \E p \in Papers : ApproveAnnual(p) \/ VerifyFiling(p)

AnnualSpec == AnnualInit /\ [][AnnualNext]_annualVars

-----------------------------------------------------------------------------
AnnualTypeOK ==
  /\ month \in 1..(Year + 1) /\ profit \in [Months -> Nat] /\ settled \subseteq Months
  /\ approved \subseteq Papers /\ remitted \subseteq Obligations
  /\ verified \subseteq Obligations \X {"payment", "filing", "credit"}

\* The profit an approved workpaper starts from stays the profit of the books: the months
\* it covers can no longer be posted to (approve_annual_workpaper, assert_open_period).
ApprovedBooksStand == \A p \in approved : papers[p].profit = Profit /\ papers[p].books = BookSnapshot

\* When a return is matched, its credits and its final tax paid are those that official
\* evidence shows on that day, and nothing of the year is unreviewed
\* (_assert_annual_tax_snapshot, verify_annual_filing).
FiledAsEvidenced ==
  [][\A f \in filed' \ filed :
       /\ papers[f[1]].credits = Credits /\ papers[f[1]].finalPaid = FinalPaid
       /\ \A o \in Obligations : obligations[o].status = "approved"]_annualVars

=============================================================================
