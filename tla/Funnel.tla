------------------------------- MODULE Funnel -------------------------------
(***************************************************************************)
(* Marketing leads from their arrival to the invoice that finance links to *)
(* them, and the figures that are read from both (marketing/services.py    *)
(* create_lead, update_lead, link_invoice; marketing/analytics.py          *)
(* _period). The invoices and their receipts are those of Receivables.     *)
(*                                                                         *)
(* One product is sold. Stage events and audit events are written with     *)
(* every change and read by nothing below.                                 *)
(***************************************************************************)
EXTENDS Receivables

CONSTANTS
  Leads,       \* references of leads
  Channels, Stages,
  Unknown      \* the buyer of a lead before it is identified

ASSUME FunnelAssumption ==
  /\ Unknown \notin Parties /\ "won" \in Stages
  /\ IsFiniteSet(Channels)

VARIABLE leads   \* Lead rows

NoInvoice == [none |-> TRUE]
Segment(party) == IF party \in Resellers THEN "reseller" ELSE "direct"

\* The leads that share an invoice's receipts.
LinkedTo(v) == {l \in leads : l.invoice = v}

-----------------------------------------------------------------------------
Replaced(l, new) == leads' = (leads \ {l}) \cup {new}

\* create_lead: a known buyer must be of the lead's segment; no invoice yet.
CreateLead(reference, received, party, segment, channel) ==
  /\ received <= today /\ ~ \E l \in leads : l.reference = reference
  /\ party # Unknown => segment = Segment(party)
  /\ leads' = leads \cup {[reference |-> reference, received |-> received, party |-> party,
                           segment |-> segment, channel |-> channel, stage |-> "new",
                           invoice |-> NoInvoice]}

\* update_lead: stages may be taken again, in any order, also after the link.
UpdateLead(l, stage) == l.stage # stage /\ Replaced(l, [l EXCEPT !.stage = stage])

\* Faulty LinkInvoice: the leads linked before are not asked for.
LinkInvoiceAgain(l, v, confirmed) ==
  /\ l.invoice = NoInvoice /\ status[v.id] \in {"issued", "delivered"}
  /\ v.date >= l.received /\ Segment(v.party) = l.segment
  /\ IF l.party = Unknown THEN confirmed ELSE l.party = v.party
  /\ Replaced(l, [l EXCEPT !.invoice = v, !.party = v.party])

\* link_invoice: an order in force, not older than the lead and of no other lead; an
\* unknown buyer is taken from the order once someone confirms it. A link is for ever.
LinkInvoice(l, v, confirmed) ==
  /\ l.invoice = NoInvoice
  /\ status[v.id] \in {"issued", "delivered"}
  /\ IF l.party = Unknown THEN confirmed ELSE l.party = v.party
  /\ v.date >= l.received
  /\ LinkedTo(v) = {}
  /\ Segment(v.party) = l.segment          \* Lead.clean, with the buyer of the order
  /\ Replaced(l, [l EXCEPT !.invoice = v, !.party = v.party])

-----------------------------------------------------------------------------
(* _period for the days from start to end *)

ObservedEnd(end) == IF end <= today THEN end ELSE today

ReceiptsOf(v, start, end) ==
  Total({c \in claims : c.doc = <<"receipt", v.id>> /\ start <= c.line.date /\ c.line.date <= end})

Selected(channel) == {l \in leads : l.channel = channel}
WithInvoice(ls) == {l \in ls : l.invoice # NoInvoice}

\* cash_in of a channel: the period's receipts of the invoices linked to its leads.
CashIn(channel, start, end) ==
  Total({[invoice |-> v.id, amount |-> ReceiptsOf(v, start, ObservedEnd(end))] :
           v \in {w \in invoices : \E l \in Selected(channel) : l.invoice = w}})

\* cohort_cash_in: what the leads received in the period have paid until its end.
CohortCashIn(channel, start, end) ==
  LET cohort == {l \in WithInvoice(Selected(channel)) :
                   start <= l.received /\ l.received <= ObservedEnd(end)}
  IN  Total({[lead |-> l.reference, amount |-> ReceiptsOf(l.invoice, 1, ObservedEnd(end))] :
               l \in cohort})

TotalReceipts(start, end) ==
  Total({[invoice |-> v.id, amount |-> ReceiptsOf(v, start, ObservedEnd(end))] : v \in invoices})

-----------------------------------------------------------------------------
FunnelInit == ReceivablesInit /\ leads = {}

LeadStep ==
  \/ \E reference \in Leads, received \in Days, party \in Parties \cup {Unknown},
        segment \in {"direct", "reseller"}, channel \in Channels :
       CreateLead(reference, received, party, segment, channel)
  \/ \E l \in leads, stage \in Stages : UpdateLead(l, stage)
  \/ \E l \in leads, v \in invoices, confirmed \in BOOLEAN : LinkInvoice(l, v, confirmed)

funnelVars == <<receivablesVars, leads>>

FunnelNext ==
  \/ ReceivablesNext /\ UNCHANGED leads
  \/ LeadStep /\ UNCHANGED receivablesVars

FunnelSpec == FunnelInit /\ [][FunnelNext]_funnelVars

-----------------------------------------------------------------------------
FunnelTypeOK ==
  /\ {l.invoice : l \in WithInvoice(leads)} \subseteq invoices
  /\ \A l \in leads : l.party \in Parties \cup {Unknown} /\ l.stage \in Stages
  /\ \A l, m \in leads : l.reference = m.reference => l = m

\* The two ways of counting money from leads agree in every period: what a period's own
\* leads have paid is part of what the channel received in it, and the channels together
\* received no more than finance did. An invoice with two leads, or one older than its
\* lead, would break this (marketing/analytics.py promises one lead, one invoice).
CohortsWithinReceipts ==
  \A start, end \in Days :
    /\ \A channel \in Channels : CohortCashIn(channel, start, end) <= CashIn(channel, start, end)
    /\ Total({[channel |-> c, amount |-> CashIn(c, start, end)] : c \in Channels})
         <= TotalReceipts(start, end)

=============================================================================
