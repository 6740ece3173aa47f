------------------------------ MODULE MCFinance ------------------------------
(* The finance services for TLC. A behaviour follows the purchases alone over two months,
   or an order and a bill that meet before the same bank lines and one month close. *)
EXTENDS Finance

CONSTANT Parts    \* the components this instance has
VARIABLE part     \* the one followed

-----------------------------------------------------------------------------
Row(reference, date, direction, amount) ==
  [account |-> "A", reference |-> reference, date |-> date,
   direction |-> direction, amount |-> amount]

CONSTANTS q1, q2

\* Two payments, the second enough for what the first leaves.
Payments == { {Row("a1", 1, "out", 2)}, {Row("a2", 3, "out", 2)} }

\* One line in and one line out, which sales and purchases both may use.
OneInOneOut == { {Row("a3", 1, "in", 1)}, {Row("a4", 2, "out", 2)} }

SomeStatements == Payments \cup OneInOneOut

-----------------------------------------------------------------------------
OnlyPayments == bank' \subseteq UNION Payments

\* Two days, the first a month; one unit at a time, but for the bill.
TwoDays ==
  /\ today' <= 2 /\ bank' \subseteq UNION OneInOneOut
  /\ \A l \in journal' : l.date <= 2
  /\ \A c \in claims' : c.amount = 1
  /\ \A o \in openings' : o.amount = 1
  /\ \A b \in bills' : b.date <= 2 /\ b.service <= 2 /\ b.amount = 2
  /\ \A d \in decisions' : d.month = 1
  /\ \A v \in invoices' : v.date <= 2 /\ v.service <= 2
  /\ \A d \in deliveries' \cup cancellations' \cup applications' : d.date <= 2
  /\ \A r \in releases' : r.reference = q1 /\ r.amount = 1

PartsInit == FinanceInit /\ part \in Parts

PartsNext ==
  /\ UNCHANGED part
  /\ \/ part = "purchases" /\ PayablesNext /\ OnlyPayments /\ UNCHANGED invoiceVars
     \/ part = "all" /\ FinanceNext /\ TwoDays

PartsSpec == PartsInit /\ [][PartsNext]_<<financeVars, part>>
=============================================================================
