--------------------------- MODULE MarketingAdvice ---------------------------
(***************************************************************************)
(* The figures of the marketing pages and the advice drawn from them       *)
(* (marketing/analytics.py _period, _metrics, marketing_snapshot;          *)
(* marketing/ai.py build_recommendations), over leads, advertising reports *)
(* and receipts, and the tasks a user makes of a finding (marketing        *)
(* views.py advisor, action_create).                                       *)
(*                                                                         *)
(* A scope is a period, a dimension that splits it into rows and filters.  *)
(* The responsible member stands for the three dimensions only leads have  *)
(* (member, segment, region); the times of response, impressions and       *)
(* clicks are left out. Campaigns and orders never change here; module     *)
(* Funnel has the orders' own life and the buyers of leads.                *)
(***************************************************************************)
EXTENDS Amounts, Integers, Sequences

CONSTANTS
  Campaigns, ChannelOf, ProductOf,   \* a campaign's product may be Unknown
  Channels, Products, Members, AdNames,
  Orders, OrderProduct, OrderDay, OrderTotal,
  LeadNames, LeadStages, FollowUps,  \* the follow-up days a form may give, 0 for none
  AdSpends,                          \* the spend a report may give, Unknown among them
  Scopes, Pages,                     \* the scopes that are looked at, those of advisor pages
  LastAdDay, MaxRecords, MaxTasks,   \* bounds
  Unknown, AllRows

AdviceDays == 1..LastAdDay

\* DIMENSIONS: rows and filters are by one of them.
Dimensions == {"channel", "campaign", "product", "member", "ad"}

ASSUME AdviceAssumption ==
  /\ ChannelOf \in [Campaigns -> Channels] /\ ProductOf \in [Campaigns -> Products \cup {Unknown}]
  /\ OrderProduct \in [Orders -> Products] /\ OrderDay \in [Orders -> AdviceDays]
  /\ OrderTotal \in [Orders -> Nat \ {0}] /\ AdSpends \subseteq Nat \cup {Unknown}
  /\ Unknown \notin Campaigns \cup Orders
  /\ AllRows \notin Channels \cup Campaigns \cup Products \cup Members \cup {Unknown}
  /\ \A s \in Scopes : /\ s \in [from : Int, to : Int, group : Dimensions, filters : {s.filters}]
                       /\ \A f \in s.filters : f[1] \in Dimensions
  /\ Pages \subseteq Scopes /\ LastAdDay \in Nat \ {0}

VARIABLES
  today,
  prospects,    \* Lead rows
  adReports,    \* AdDailyObservation rows
  receipts,     \* allocations of bank lines to orders (finance)
  advised,      \* the advisor page last drawn: its scope, findings and day
  verified,     \* the finding just verified for a task, before the task is stored
  tasks         \* MarketingAction rows

adviceVars == <<today, prospects, adReports, receipts, advised, verified, tasks>>
recordVars == <<prospects, adReports, receipts>>
taskVars   == <<advised, verified, tasks>>

Room == Cardinality(prospects) + Cardinality(adReports) + Cardinality(receipts) < MaxRecords

-----------------------------------------------------------------------------
(* The scope: what a snapshot looks at. *)

FilterKeys(s) == {f[1] : f \in s.filters}

\* Leads are not linked to single ads; spending is not known by member.
CashAvailable(s)  == s.group # "ad" /\ "ad" \notin FilterKeys(s)
SpendAvailable(s) == s.group # "member" /\ "member" \notin FilterKeys(s)

ObservationEnd(s) == IF s.to <= today THEN s.to ELSE today
Observed(s, day)  == s.from <= day /\ day <= ObservationEnd(s)
InProgress(s)     == s.from <= today /\ today <= s.to

LeadValue(l, key) == l[key]
AdValue(a, key) ==
  CASE key = "channel" -> ChannelOf[a.campaign] [] key = "product" -> ProductOf[a.campaign]
    [] key = "campaign" -> a.campaign [] key = "ad" -> a.ad

\* Without a filter's own column, leads ignore filters by ad and reports those by member.
SelectedLeads(s) ==
  {l \in prospects : \A f \in s.filters : f[1] = "ad" \/ LeadValue(l, f[1]) = f[2]}
SelectedAds(s) ==
  {a \in adReports : Observed(s, a.day) /\ \A f \in s.filters : f[1] = "member" \/ AdValue(a, f[1]) = f[2]}

AdGroup(a, group) == IF group = "ad" THEN <<a.campaign, a.ad>> ELSE AdValue(a, group)

\* The leads and reports of a row, or of the summary.
LeadsOf(s, row) ==
  {l \in SelectedLeads(s) : CashAvailable(s) /\ (row = AllRows \/ LeadValue(l, s.group) = row)}
AdsOf(s, row) ==
  {a \in SelectedAds(s) : SpendAvailable(s) /\ (row = AllRows \/ AdGroup(a, s.group) = row)}

RowsOf(s) ==
  {LeadValue(l, s.group) : l \in LeadsOf(s, AllRows)} \cup {AdGroup(a, s.group) : a \in AdsOf(s, AllRows)}

-----------------------------------------------------------------------------
(* The figures of a row *)

PaidUntil(v, day) == Total({r \in receipts : r.order = v /\ r.day <= day})

PeriodReceipts(s)    == {r \in receipts : Observed(s, r.day)}
ReceiptsOf(s, ls)    == {r \in PeriodReceipts(s) : \E l \in ls : l.order = r.order}
PayingLeads(s, row)  == {l \in LeadsOf(s, row) : ReceiptsOf(s, {l}) # {}}
CashIn(s, row)       == Total(ReceiptsOf(s, LeadsOf(s, row)))

KnownSpend(s, row)   == {a \in AdsOf(s, row) : a.spend # Unknown}
Spend(s, row)        == Total({[ad |-> a, amount |-> a.spend] : a \in KnownSpend(s, row)})

\* An absent report is not evidence that a campaign spent nothing.
CoverageComplete(s, row) ==
  {l.campaign : l \in PayingLeads(s, row)} \subseteq {a.campaign : a \in KnownSpend(s, row)}

\* Where products matter, the money comes from campaigns for the product that was bought.
ProductMappingComplete(s, row) ==
  /\ "product" \in FilterKeys(s) \/ (s.group = "product" /\ row # AllRows) =>
       \A l \in PayingLeads(s, row) :
         /\ Unknown \notin {l.product, l.campaign}
         /\ ProductOf[l.campaign] = l.product
  /\ s.group = "product" /\ row # AllRows => \A a \in AdsOf(s, row) : ProductOf[a.campaign] # Unknown

\* Faulty SpendComplete: whose spending is known is not compared with whose cash it is.
SpendCompleteUncovered(s, row) ==
  /\ AdsOf(s, row) # {} /\ AdsOf(s, row) = KnownSpend(s, row)
  /\ ProductMappingComplete(s, row)

SpendComplete(s, row) ==
  /\ AdsOf(s, row) # {} /\ AdsOf(s, row) = KnownSpend(s, row)
  /\ CoverageComplete(s, row) /\ ProductMappingComplete(s, row)

\* cash_to_spend is given.
RatioGiven(s, row) == CashAvailable(s) /\ SpendComplete(s, row) /\ Spend(s, row) > 0

Cohort(s)   == {l \in LeadsOf(s, AllRows) : Observed(s, l.received)}
\* Work that is open today; a past period's is not reconstructed.
Unsettled(s, l) == l.order = Unknown \/ PaidUntil(l.order, ObservationEnd(s)) < OrderTotal[l.order]
OpenWork(s) == {l \in LeadsOf(s, AllRows) : InProgress(s) /\ l.received <= today /\ Unsettled(s, l)}
Overdue(s)  == {l \in OpenWork(s) : l.followUp \in 1..(today - 1) /\ l.stage # "lost"}
UnpaidWon(s) == {l \in OpenWork(s) : l.stage = "won" /\ l.order # Unknown}

\* Receipts no lead accounts for, of the whole organization.
Unattributed(s) == PeriodReceipts(s) \ ReceiptsOf(s, prospects)

\* The period before, as long as the days of this one that were observed.
PreviousOf(s) ==
  LET span == (IF s.from <= today THEN ObservationEnd(s) ELSE s.to) - s.from
  IN  [s EXCEPT !.to = s.from - 1, !.from = s.from - 1 - span]

CashFell(s) ==
  LET before == CashIn(PreviousOf(s), AllRows)
  IN  CashAvailable(s) /\ s.from <= today /\ before > 0 /\ CashIn(s, AllRows) < before

-----------------------------------------------------------------------------
\* build_recommendations: the findings of a scope.
Findings(s) ==
  LET incomplete == \/ ~(SpendAvailable(s) /\ SpendComplete(s, AllRows))
                    \/ \E row \in RowsOf(s) : ~(CoverageComplete(s, row) /\ ProductMappingComplete(s, row))
      found == {f \in {"link_receipts", "follow_up", "collect_agreed", "complete_spend",
                       "cohort_review", "cash_change", "controlled_test"} :
                 \/ f = "link_receipts" /\ Unattributed(s) # {}
                 \/ f = "follow_up" /\ Overdue(s) # {}
                 \/ f = "collect_agreed" /\ UnpaidWon(s) # {}
                 \/ f = "complete_spend" /\ incomplete
                 \/ f = "cohort_review" /\ Cohort(s) # {}
                 \/ f = "cash_change" /\ CashFell(s)
                 \/ f = "controlled_test" /\ RatioGiven(s, AllRows)}
  IN  IF found = {} THEN {"collect_evidence"} ELSE found

NoTask == [finding |-> "none"]
NoAdvice == [findings |-> {}]

\* The advisor page; each of its findings carries a signed token with the scope.
Advise(s) ==
  /\ advised' = [scope |-> s, findings |-> Findings(s), day |-> today]
  /\ UNCHANGED <<today, recordVars, verified, tasks>>

\* _verified_recommendation: within an hour (which may pass midnight) the token's scope is
\* looked at again, and the finding must still be there.
Verify(finding) ==
  /\ verified = NoTask /\ finding \in advised.findings /\ today - advised.day <= 1
  /\ finding \in Findings(advised.scope)
  /\ verified' = [finding |-> finding, scope |-> advised.scope, day |-> today, status |-> "open"]
  /\ UNCHANGED <<today, recordVars, advised, tasks>>

\* action_create: another transaction stores the task with the evidence just computed.
CreateAction ==
  /\ verified # NoTask /\ Len(tasks) < MaxTasks
  /\ tasks' = Append(tasks, verified) /\ verified' = NoTask
  /\ UNCHANGED <<today, recordVars, advised>>

\* A form that is not completed leaves nothing.
Abandon ==
  /\ verified # NoTask /\ verified' = NoTask
  /\ UNCHANGED <<today, recordVars, advised, tasks>>

\* update_action: any status may follow any other; closing needs an outcome.
UpdateAction(t, status, outcome) ==
  /\ status \in {"done", "dismissed"} => outcome
  /\ tasks[t].status # status
  /\ tasks' = [tasks EXCEPT ![t].status = status]
  /\ UNCHANGED <<today, recordVars, advised, verified>>

-----------------------------------------------------------------------------
(* The records *)

\* create_lead and Lead.clean: channel, and product if it has one, are the campaign's.
CreateLead(name, received, campaign, channel, product, member, stage, followUp) ==
  /\ Room /\ \A l \in prospects : l.reference # name
  /\ received <= today
  /\ followUp = 0 \/ received <= followUp
  /\ LET own == IF campaign # Unknown /\ product = Unknown THEN ProductOf[campaign] ELSE product IN
     /\ campaign # Unknown =>
          channel = ChannelOf[campaign] /\ ProductOf[campaign] \in {Unknown, own}
     /\ prospects' = prospects \cup
          {[reference |-> name, received |-> received, campaign |-> campaign, channel |-> channel,
            product |-> own, member |-> member, stage |-> stage, followUp |-> followUp,
            order |-> Unknown]}
  /\ UNCHANGED <<today, adReports, receipts, taskVars>>

Revised(l, new) ==
  /\ prospects' = (prospects \ {l}) \cup {new}
  /\ UNCHANGED <<today, adReports, receipts, taskVars>>

UpdateLead(l, stage, followUp) ==
  /\ <<l.stage, l.followUp>> # <<stage, followUp>>
  /\ followUp = 0 \/ l.received <= followUp
  /\ Revised(l, [l EXCEPT !.stage = stage, !.followUp = followUp])

\* link_invoice: an issued order for the lead's product, not older than the lead and of no
\* other lead. A product that was not known is taken from the order.
LinkInvoice(l, v) ==
  /\ l.order = Unknown /\ \A other \in prospects : other.order # v
  /\ l.received <= OrderDay[v] /\ OrderDay[v] <= today /\ l.product \in {Unknown, OrderProduct[v]}
  /\ Revised(l, [l EXCEPT !.order = v, !.product = OrderProduct[v]])

\* save_ad_observation: one report a day for a campaign's ad (AdReports has the overlaps).
SaveAdObservation(campaign, day, ad, spend) ==
  /\ Room
  /\ \A a \in adReports : <<a.campaign, a.day, a.ad>> # <<campaign, day, ad>>
  /\ adReports' = adReports \cup {[campaign |-> campaign, day |-> day, ad |-> ad, spend |-> spend]}
  /\ UNCHANGED <<today, prospects, receipts, taskVars>>

CorrectAdObservation(a, spend) ==
  /\ a.spend # spend
  /\ adReports' = (adReports \ {a}) \cup {[a EXCEPT !.spend = spend]}
  /\ UNCHANGED <<today, prospects, receipts, taskVars>>

\* Finance allocates a bank line of any day up to today to an order, up to its total.
Receive(v, day, amount) ==
  /\ Room /\ OrderDay[v] <= today
  /\ PaidUntil(v, LastAdDay) + amount <= OrderTotal[v]
  /\ receipts' = receipts \cup {[id |-> Cardinality(receipts), order |-> v, day |-> day, amount |-> amount]}
  /\ UNCHANGED <<today, prospects, adReports, taskVars>>

NextAdDay ==
  /\ today < LastAdDay /\ today' = today + 1
  /\ UNCHANGED <<recordVars, taskVars>>

-----------------------------------------------------------------------------
AdviceInit ==
  /\ today = 1 /\ prospects = {} /\ adReports = {} /\ receipts = {}
  /\ advised = NoAdvice /\ verified = NoTask /\ tasks = <<>>

RecordStep ==
  \/ \E name \in LeadNames, received \in 1..today, campaign \in Campaigns \cup {Unknown},
        channel \in Channels, product \in Products \cup {Unknown}, member \in Members,
        stage \in LeadStages, followUp \in FollowUps :
       CreateLead(name, received, campaign, channel, product, member, stage, followUp)
  \/ \E l \in prospects, stage \in LeadStages, followUp \in FollowUps : UpdateLead(l, stage, followUp)
  \/ \E l \in prospects, v \in Orders : LinkInvoice(l, v)
  \/ \E campaign \in Campaigns, day \in AdviceDays, ad \in AdNames, spend \in AdSpends :
       SaveAdObservation(campaign, day, ad, spend)
  \/ \E a \in adReports, spend \in AdSpends : CorrectAdObservation(a, spend)
  \/ \E v \in Orders, day \in 1..today, amount \in 1..2 : Receive(v, day, amount)

TaskStep ==
  \/ \E s \in Pages : Advise(s)
  \/ \E finding \in advised.findings : Verify(finding)
  \/ CreateAction \/ Abandon
  \/ \E t \in DOMAIN tasks, status \in {"open", "done"}, outcome \in BOOLEAN :
       UpdateAction(t, status, outcome)

AdviceNext == NextAdDay \/ RecordStep \/ TaskStep
AdviceSpec == AdviceInit /\ [][AdviceNext]_adviceVars

-----------------------------------------------------------------------------
AdviceTypeOK ==
  /\ today \in AdviceDays
  /\ \A l \in prospects : l.order \in Orders \cup {Unknown} /\ l.stage \in LeadStages
  /\ \A t \in DOMAIN tasks : tasks[t].scope \in Scopes

\* A ratio of cash to spending sets the receipts of some campaigns against all that was
\* reported to be spent on them in the observed days, and nothing left open.
RatiosCompareTheSame ==
  \A s \in Scopes : \A row \in RowsOf(s) \cup {AllRows} : RatioGiven(s, row) =>
    \A l \in PayingLeads(s, row) :
      /\ l.campaign # Unknown
      /\ \A a \in adReports : a.campaign = l.campaign /\ Observed(s, a.day) => a \in KnownSpend(s, row)

\* The rows share out the cash of the summary, which is part of what finance received.
RowsAddUp ==
  \A s \in Scopes : CashAvailable(s) =>
    /\ Total({[row |-> row, amount |-> CashIn(s, row)] : row \in RowsOf(s)}) = CashIn(s, AllRows)
    /\ CashIn(s, AllRows) + Total(Unattributed(s)) <= Total(PeriodReceipts(s))

\* A fall of receipts is found between equally many days, all of them observed.
FallsAreOverEqualDays ==
  \A s \in Scopes : CashFell(s) =>
    LET before == PreviousOf(s)
    IN  before.to - before.from = ObservationEnd(s) - s.from /\ before.to < today

\* A task about work open today was never made of a page of a period that is over.
TasksAreOfTheirDay ==
  \A t \in DOMAIN tasks : tasks[t].finding \in {"follow_up", "collect_agreed"} =>
    tasks[t].scope.from <= tasks[t].day /\ tasks[t].day <= tasks[t].scope.to

\* The figures and the advice compare like with like, in every scope and whatever order
\* leads, reports, receipts and midnights come in (marketing/analytics.py 28-29, 303-304).
FiguresCompareLikeWithLike ==
  RatiosCompareTheSame /\ RowsAddUp /\ FallsAreOverEqualDays /\ TasksAreOfTheirDay
=============================================================================
