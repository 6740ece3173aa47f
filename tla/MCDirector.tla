----------------------------- MODULE MCDirector -----------------------------
(* The director's workspace for TLC: proposals and their approval, what is recorded
   against budgets, the questions answered from the plans, the cash plan, and the
   marketing figures and advice. A behaviour follows one of them and the others rest. *)
EXTENDS Approvals, CashPlans, MarketingAdvice, Briefing, TLC

CONSTANT Parts    \* the components this instance has
VARIABLE part     \* the one followed

-----------------------------------------------------------------------------
\* A small company.
CONSTANTS Ona, Dan, Fay
Roles == [u \in Users |-> IF u = Ona THEN "owner" ELSE IF u = Dan THEN "director" ELSE "finance"]

\* Small budgets, and balances above and below nothing.
Three   == [b \in Budgets |-> 3]
Assumed == {-1, 1}

\* Two campaigns of a channel, one of them for no known product; two orders.
CONSTANTS Spring, Autumn, Web, Fair, Course, FirstOrder, SecondOrder
CampaignChannel == [c \in Campaigns |-> Web]
CampaignProduct == [c \in Campaigns |-> IF c = Spring THEN Course ELSE Unknown]
CourseOrders    == [v \in Orders |-> Course]
OrderDays       == [v \in Orders |-> IF v = FirstOrder THEN 1 ELSE 2]
OrderTotals     == [v \in Orders |-> IF v = FirstOrder THEN 2 ELSE 1]
Scope(from, to, group, filters) == [from |-> from, to |-> to, group |-> group, filters |-> filters]
LookedAt ==
  {Scope(1, 2, "channel", {}), Scope(2, 3, "channel", {}), Scope(1, 1, "channel", {}), Scope(1, 3, "campaign", {}),
   Scope(1, 3, "product", {}), Scope(2, 2, "product", {<<"channel", Web>>}),
   Scope(1, 2, "campaign", {<<"product", Course>>}), Scope(1, 3, "member", {}),
   Scope(1, 2, "ad", {<<"campaign", Autumn>>})}
Advised == {Scope(1, 1, "channel", {})}

\* A budget of each year; dashboards without and with figures, one with a count that
\* cannot be; simulations whose proposal earns more, and nothing, by the unit; and two
\* releases of the calculator, the second with other costs under the old name.
CONSTANTS Ads, Events, k1
YearOfBudget == [b \in Budgets |-> IF b = Ads THEN 1 ELSE 2]
ToldFigures ==
  { [reported |-> 4, printed |-> 2, detail |-> 1, exceptions |-> 1, months |-> 1, unheard |-> 1],
    [reported |-> Missing, printed |-> 1, detail |-> -1, revenue |-> 2, profit |-> 2, bank |-> 9] }
SimulatedPrices ==
  { [quantity |-> 3, price |-> 5, cost |-> 2, variable |-> 1, newPrice |-> 6, newCost |-> 2,
     newQuantity |-> 4, marketing |-> 3],
    [quantity |-> 3, price |-> 5, cost |-> 2, variable |-> 1, newPrice |-> 3, newCost |-> 2,
     newQuantity |-> 7, marketing |-> 0] }
TwoReleases == <<[version |-> "v1", addedCost |-> 0], [version |-> "v1", addedCost |-> 1]>>
\* Costs and payments under one key; questions about one of the two years.
FewEntries ==
  /\ question'.step = "asked" => question'.year = 1
  /\ \A e \in 1..Len(entries') : entries'[e].kind \in {"incurred", "payment"} /\ entries'[e].key = k1
\* Leads are alike, and so are texts and the keys other than the one of FewEntries.
Interchangeable ==
  Permutations(LeadNames) \cup Permutations(Contents) \cup Permutations(Keys \ {k1})
\* Beside tasks: one lead of no campaign and one receipt.
FewRecords ==
  /\ Cardinality(prospects') <= 1 /\ Cardinality(receipts') <= 1 /\ adReports' = {}
  /\ \A l \in prospects' : l.campaign = Unknown
Set == [released |-> TRUE, endpointApproved |-> TRUE, named |-> TRUE, ceiling |-> 1, budget |-> 2,
        userBudget |-> 1]
Reply(observations, options, facts) ==
  [observations |-> observations, options |-> options, facts |-> facts]
Sent ==
  { Reply({"reported_activity"}, {"map_marketing"}, {"reported", "months"}),
    Reply({"budget_position", "saved_scenario"}, {"review_budget"},
          {"approved", "consumed", "available", "baseline", "proposed", "delta"}),
    Reply({"source_missing"}, {"reconcile_bank"}, {}), Reply({"wonderful_year"}, {"map_marketing"}, {}) }

-----------------------------------------------------------------------------
DirectorInit ==
  /\ ApprovalsInit /\ BriefingInit /\ CashInit /\ AdviceInit
  /\ part \in Parts
  /\ part # "approvals" => kind = CHOOSE k \in Kinds : TRUE
  /\ part # "cash"      => asOf = 1 /\ opening = CHOOSE balance \in Openings : TRUE

DirectorNext ==
  /\ UNCHANGED part
  /\ part # "approvals" => UNCHANGED approvalVars
  /\ part # "briefing"  => UNCHANGED <<plansVars, chatVars>>
  /\ part \notin {"budgets", "briefing"} => UNCHANGED budgetVars
  /\ part # "cash"      => UNCHANGED cashVars
  /\ part \notin {"figures", "advice"} => UNCHANGED adviceVars
  /\ \/ part = "approvals" /\ ApprovalsNext
     \/ part = "budgets" /\ BudgetNext
     \/ part = "briefing" /\ BriefingNext /\ FewEntries
     \/ part = "cash" /\ CashNext
     \/ part = "figures" /\ AdviceNext /\ UNCHANGED taskVars
     \/ part = "advice" /\ AdviceNext /\ FewRecords

DirectorSpec == DirectorInit /\ [][DirectorNext]_<<approvalVars, cashVars, adviceVars, briefingVars, part>>
=============================================================================
