---------------------------- MODULE MCReceivables ----------------------------
(* Orders and leads for TLC. A behaviour follows an order of a customer or a reseller
   through all its services, or two orders before the same bank lines, or two leads and
   the receipts of the order linked to them. *)
EXTENDS Funnel, TLC

CONSTANT Parts    \* the components this instance has
VARIABLE part     \* the one followed

-----------------------------------------------------------------------------
BankRow(reference, date, direction, amount) ==
  [account |-> "A", reference |-> reference, date |-> date,
   direction |-> direction, amount |-> amount]

CONSTANTS v1, v2

\* Money in, money in later, and money out: one line each.
InThenOut == { {BankRow("a1", 1, "in", 2)}, {BankRow("a2", 2, "in", 1)}, {BankRow("a3", 3, "out", 2)} }

\* One incoming line that two orders may share, and one outgoing.
SharedLine == { {BankRow("a4", 1, "in", 3), BankRow("a5", 2, "out", 2)} }

SomeStatements == InThenOut \cup SharedLine

-----------------------------------------------------------------------------
OneOrder == (\A v \in invoices' : v.id = v1) /\ bank' \subseteq UNION InThenOut

\* Two orders over two days of one month.
Rivals ==
  /\ today' <= 2 /\ closings' = {} /\ bank' \subseteq UNION SharedLine
  /\ \A v \in invoices' : v.date <= 2 /\ v.service <= 2
  /\ \A d \in deliveries' \cup cancellations' \cup applications' : d.date <= 2

\* Leads over two days of one month: the order is only delivered, and paid by receipts
\* of one unit.
OnlyReceipts ==
  /\ today' <= 2 /\ closings' = {}
  /\ \A line \in bank' : line.direction = "in"
  /\ \A c \in claims' : c.kind = "receipt" /\ c.amount = 1
  /\ cancellations' = {}
  /\ \A v \in invoices' : v.date <= 2 /\ v.service <= 2
  /\ \A l \in leads' : l.received <= 2

\* References, leads and channels are alike.
Interchangeable == Permutations(References) \cup Permutations(Leads) \cup Permutations(Channels)

PartsInit == FunnelInit /\ part \in Parts

PartsNext ==
  /\ UNCHANGED part
  /\ \/ part = "order" /\ ReceivablesNext /\ OneOrder /\ UNCHANGED leads
     \/ part = "rivals" /\ ReceivablesNext /\ Rivals /\ UNCHANGED leads
     \/ part = "leads" /\ FunnelNext /\ OneOrder /\ OnlyReceipts

PartsSpec == PartsInit /\ [][PartsNext]_<<funnelVars, part>>
=============================================================================
