------------------------------ MODULE Briefing ------------------------------
(***************************************************************************)
(* The director's questions (director/ai.py ask_director): a question is   *)
(* stored in one transaction, the company's figures are read in a second   *)
(* one under the lock of the organization, findings and next steps are     *)
(* drawn from that copy, an outside model may choose among them, and the   *)
(* answer is stored in a third. The figures come from the dashboard, from  *)
(* budgets with their entries (module BudgetEntries), from reported        *)
(* marketing costs and from the last saved simulation of a price           *)
(* (director/calculators.py price_cost_scenario).                          *)
(*                                                                         *)
(* Module AIReservation has the admission and the cost of the outside      *)
(* call; here its reply either comes or does not. A question is known by   *)
(* the group of words found in it. Throttled requests change nothing.      *)
(***************************************************************************)
EXTENDS BudgetEntries, FiniteSetsExt

CONSTANTS
  Years, YearOf,             \* the years asked about; the year of each budget
  Dashboards,                \* what the dashboard may tell of a year, by fact
  Spendings,                 \* reported marketing cost of a year, or Missing
  Simulated,                 \* inputs that are simulated
  Formulas,                  \* the calculators of successive releases
  Questions,                 \* what is asked: a group of words, "more" or "other"
  Replies,                   \* what the outside model may send
  Settings,                  \* the operator's settings
  LargestFigure,             \* the largest amount that is told
  MaxSimulations, MaxMessages, MaxChanges,  \* bounds
  Missing, Nobody

\* What the plans tell of a year. The dashboard tells other facts.
BudgetIds   == {"approved", "consumed", "available"}
ScenarioIds == {"baseline", "proposed", "delta"}
PlanningIds == BudgetIds \cup {"spend"} \cup ScenarioIds

ASSUME BriefingAssumption ==
  /\ Missing \notin Int
  /\ YearOf \in [Budgets -> Years] /\ Spendings \subseteq Nat \cup {Missing}
  /\ \A facts \in Dashboards : DOMAIN facts \cap PlanningIds = {}
  /\ Simulated \subseteq [quantity : Nat, price : Nat, cost : Nat, variable : Nat, newPrice : Nat,
                         newCost : Nat, newQuantity : Nat, marketing : Nat]
  /\ Formulas \in Seq([version : STRING, addedCost : Nat]) /\ Formulas # <<>>
  /\ {Settings.ceiling, Settings.budget, Settings.userBudget} \subseteq Nat
  /\ {LargestFigure, MaxSimulations, MaxMessages, MaxChanges} \subseteq Nat

VARIABLES
  approvedBudgets,  \* budgets with status "approved"
  dashboard,        \* what recaps, journals and the bank tell of each year
  spending,         \* marketing costs reported for each year
  simulations,      \* Scenario rows in the order they were saved
  release,          \* the calculator in use: 1..Len(Formulas)
  mayAsk,           \* the asking user's membership has a role that may ask
  question,         \* the question being answered
  messages,         \* DirectorMessage rows of the conversation
  changes           \* how often the records changed (bounded)

plansVars    == <<approvedBudgets, dashboard, spending, simulations, release>>
recordsVars  == <<budgetVars, plansVars>>
chatVars     == <<mayAsk, question, messages, changes>>
briefingVars == <<recordsVars, chatVars>>

-----------------------------------------------------------------------------
(* The simulation of a price, a cost and a volume. *)

Economics(quantity, price, cost, variable, marketing) ==
  [unit         |-> price - cost - variable,
   revenue      |-> quantity * price,
   contribution |-> quantity * (price - cost - variable),
   net          |-> quantity * (price - cost - variable) - marketing]

\* to_integral_value: halves away from zero, and upwards.
HalfUp(number, parts) == (2 * number + parts) \div (2 * parts)
Ceiling(number, parts) == -((-number) \div parts)

\* The volume at which the proposal earns what is earned today.
BreakEven(baseline, proposed, marketing) ==
  IF proposed.unit > 0 THEN Max({0, Ceiling(baseline.net + marketing, proposed.unit)})
  ELSE Missing

PriceCostScenario(in) ==
  LET baseline == Economics(in.quantity, in.price, in.cost, in.variable, 0)
      At(quantity) == Economics(quantity, in.newPrice, in.newCost, in.variable, in.marketing)
      proposed == At(in.newQuantity)
  IN  [baseline |-> baseline, proposed |-> proposed, delta |-> proposed.net - baseline.net,
       breakEven |-> BreakEven(baseline, proposed, in.marketing),
       sensitivity |-> [tenths \in {8, 10, 12} |-> At(HalfUp(in.newQuantity * tenths, 10)).net]]

\* The calculator of a release; a release may count further costs.
Calculated(in, r) ==
  PriceCostScenario([in EXCEPT !.cost = @ + Formulas[r].addedCost])

\* Scenario.clean and save_scenario: a simulation is stored with its results and never
\* changed.
SaveScenario(year, in) ==
  /\ Len(simulations) < MaxSimulations
  /\ simulations' = Append(simulations, [year |-> year, inputs |-> in,
                                         results |-> Calculated(in, release),
                                         version |-> Formulas[release].version])
  /\ UNCHANGED <<budgetVars, approvedBudgets, dashboard, spending, release>>

-----------------------------------------------------------------------------
(* The facts of a year. *)

Absent(ids) == [id \in ids |-> Missing]

\* One list of facts and a further one; of a fact in both the first is told.
Followed(first, further) ==
  [id \in DOMAIN first \cup DOMAIN further |-> IF id \in DOMAIN first THEN first[id] ELSE further[id]]

\* Faulty Verified: the version of the formula is taken for the formula.
VerifiedByVersion(simulation) == simulation.version = Formulas[release].version

\* A saved simulation is told only if this release would calculate the same.
Verified(simulation) ==
  /\ simulation.version = Formulas[release].version
  /\ simulation.results = Calculated(simulation.inputs, release)

SimulationFacts(year) ==
  LET saved == {s \in 1..Len(simulations) : simulations[s].year = year}
      last  == simulations[Max(saved)]
  IN  IF saved = {} \/ ~Verified(last) THEN Absent({})
      ELSE [id \in ScenarioIds |->
              IF id = "delta" THEN last.results.delta ELSE last.results[id].net]

BudgetFacts(year) ==
  LET budgets  == {b \in approvedBudgets : YearOf[b] = year}
      total    == Total({[budget |-> b, amount |-> Authorized[b]] : b \in budgets})
      consumed == Total(UNION {Rows(Live(b, EntryKinds \ {"payment"}, voided)) : b \in budgets})
  IN  IF budgets = {} THEN Absent(BudgetIds)
      ELSE [id \in BudgetIds |->
              CASE id = "approved" -> total
                [] id = "consumed" -> consumed
                [] OTHER           -> total - consumed]

PlanningFacts(year) ==
  Followed(BudgetFacts(year), Followed([id \in {"spend"} |-> spending[year]], SimulationFacts(year)))

\* dashboard_snapshot and _planning_facts, read under one lock.
Snapshot(year) == Followed(dashboard[year], PlanningFacts(year))

Counts   == {"printed", "detail", "exceptions", "months", "labels"}
Sources  == Counts \cup {"reported"}
Books    == {"revenue", "expenses", "profit"}
FactIds  == Sources \cup Books \cup {"bank"} \cup PlanningIds

\* _fact_cards: unknown facts and figures that cannot be are left out.
FactCards(facts) ==
  [id \in {i \in DOMAIN facts \cap FactIds :
             facts[i] # Missing =>
               /\ facts[i] \in -LargestFigure..LargestFigure
               /\ i \in Counts => facts[i] >= 0} |-> facts[id]]

-----------------------------------------------------------------------------
(* What a briefing may say: findings and next steps, each with its facts. *)

Present(cards, id) == id \in DOMAIN cards /\ cards[id] # Missing

\* A code that stands under a condition, with those of its facts that are there.
Said(cards, holds, name, ids) ==
  IF holds THEN {[code |-> name, facts |-> ids \cap DOMAIN cards]} ELSE {}

Observations(cards, topic) ==
  LET Has(id) == Present(cards, id)
      Say(holds, name, ids) == Said(cards, holds, name, ids)
  IN  Say(Has("reported"), "reported_activity", {"reported", "months"})
      \cup Say(~Has("reported"), "source_missing", {})
      \cup Say(Has("printed") /\ Has("detail") /\ cards["printed"] # cards["detail"],
               "count_discrepancy", {"printed", "detail"})
      \cup Say(Has("exceptions") /\ cards["exceptions"] > 0, "source_exceptions", {"exceptions"})
      \cup Say(Has("revenue") \/ Has("expenses"), "book_summary", Books)
      \cup Say(~Has("revenue") /\ ~Has("expenses"), "books_missing", Books \ {"profit"})
      \cup Say(~Has("bank"), "cash_unavailable", {"bank"})
      \cup Say(Has("approved"), "budget_position", {"approved", "consumed", "available"})
      \cup Say(Has("spend"), "marketing_spend", {"spend"})
      \cup Say(Has("proposed"), "saved_scenario", {"baseline", "proposed", "delta"})
      \cup Say(topic = "partners", "partner_labels", {"labels", "printed"})
      \cup Say(topic = "tax", "tax_separate", {})

Options(cards, topic) ==
  LET Say(topics, name, ids) == Said(cards, topic \in topics, name, ids)
  IN  Say({topic}, "review_sources", {"exceptions"})
      \cup Say({topic}, "reconcile_bank", {"bank"})
      \cup Say({topic}, "review_books", Books \ {"profit"})
      \cup Say({"marketing", "growth", "partners", "strategy", "general", "overview"},
               "map_marketing", {})
      \cup Say({"budget", "cash", "strategy", "overview"}, "review_budget", {})
      \cup Say({"price", "strategy", "budget", "growth"}, "compare_scenario", {})
      \cup Say({"tax"}, "review_tax", {})

\* _outbound_body: what leaves the company is an intent, a year, figures and the codes to
\* choose from; never the question, earlier ones or a name.
Outbound(q) ==
  [intent |-> q.topic, year |-> q.year, facts |-> q.cards,
   observations |-> Observations(q.cards, q.topic), options |-> Options(q.cards, q.topic)]

\* validate_completion: one to four findings and one to three steps of those offered, and
\* exactly the facts they stand on.
Named(said, codes) == {s \in said : s.code \in codes}
ValidCompletion(reply, body) ==
  /\ reply.observations \subseteq {o.code : o \in body.observations}
  /\ reply.options \subseteq {o.code : o \in body.options}
  /\ Cardinality(reply.observations) \in 1..4 /\ Cardinality(reply.options) \in 1..3
  /\ reply.facts = UNION {o.facts : o \in Named(body.observations, reply.observations)
                                          \cup Named(body.options, reply.options)}

-----------------------------------------------------------------------------
(* A question and its answer. *)

Topics == {"overview", "growth", "cash", "budget", "marketing", "partners", "price",
           "strategy", "tax", "actions", "general"}

\* classify_topic: the words decide; asked for more, the topic of the last answer does.
ClassifyTopic(words, previous) ==
  IF words \in Topics THEN words
  ELSE IF words = "more" /\ previous \in Topics THEN previous
  ELSE "general"

Answers == {m \in 1..Len(messages) : messages[m].role = "assistant"}
PreviousTopic == IF Answers = {} THEN Nobody ELSE messages[Max(Answers)].topic

NoQuestion == [step |-> "none"]

\* The first transaction.
Ask(words, year) ==
  /\ question = NoQuestion /\ mayAsk
  /\ Len(messages) + 2 <= MaxMessages
  /\ question' = [step |-> "asked", year |-> year, topic |-> ClassifyTopic(words, PreviousTopic)]
  /\ messages' = Append(messages, [role |-> "user", year |-> year,
                                   topic |-> ClassifyTopic(words, PreviousTopic)])
  /\ UNCHANGED <<recordsVars, mayAsk, changes>>

\* The second transaction.
ReadSnapshot ==
  /\ question.step = "asked" /\ mayAsk
  /\ question' = [step |-> "read", year |-> question.year, topic |-> question.topic,
                  cards |-> FactCards(Snapshot(question.year)), calculator |-> release]
  /\ UNCHANGED <<recordsVars, mayAsk, messages, changes>>

\* _external_config: released by the operator, named, and within its own budgets.
Configured ==
  /\ Settings.released /\ Settings.endpointApproved /\ Settings.named
  /\ 0 < Settings.ceiling
  /\ Settings.ceiling <= Settings.budget /\ Settings.ceiling <= Settings.userBudget

MayConsult ==
  /\ Configured
  /\ question.topic \notin {"general", "actions", "tax"} /\ DOMAIN question.cards # {}

Store(mode, observations, options) ==
  /\ messages' = Append(messages, [role |-> "assistant", year |-> question.year,
                                   topic |-> question.topic, mode |-> mode,
                                   cards |-> question.cards, calculator |-> question.calculator,
                                   observations |-> observations, options |-> options])
  /\ question' = NoQuestion
  /\ UNCHANGED <<recordsVars, mayAsk, changes>>

\* The third transaction, with or without a reply that passed.
AnswerLocally ==
  /\ question.step = "read" /\ mayAsk
  /\ Store("local", {o.code : o \in Observations(question.cards, question.topic)},
           {o.code : o \in Options(question.cards, question.topic)})

AnswerWithReply(reply) ==
  /\ question.step = "read" /\ mayAsk /\ MayConsult
  /\ ValidCompletion(reply, Outbound(question))
  /\ Store("openrouter", reply.observations, reply.options)

\* PermissionDenied: the membership is gone; the question stays, unanswered.
RefuseAnswer ==
  /\ question # NoQuestion /\ ~mayAsk
  /\ question' = NoQuestion
  /\ UNCHANGED <<recordsVars, mayAsk, messages, changes>>

-----------------------------------------------------------------------------
(* What others do meanwhile, each under the lock of the organization. *)

ApproveBudget(b) ==
  /\ b \notin approvedBudgets
  /\ approvedBudgets' = approvedBudgets \cup {b}
  /\ UNCHANGED <<budgetVars, dashboard, spending, simulations, release>>

EnterCost(b, key, entryKind, amount) ==
  /\ b \in approvedBudgets /\ Len(entries) < MaxEntries
  /\ AddBudgetEntry(b, key, entryKind, amount, TRUE)
  /\ UNCHANGED <<approvedBudgets, dashboard, spending, simulations, release>>

VoidCost(e) ==
  /\ VoidBudgetEntry(e)
  /\ UNCHANGED <<approvedBudgets, dashboard, spending, simulations, release>>

UpdateDashboard(year, facts) ==
  /\ dashboard' = [dashboard EXCEPT ![year] = facts]
  /\ UNCHANGED <<budgetVars, approvedBudgets, spending, simulations, release>>

ReportSpending(year, amount) ==
  /\ spending' = [spending EXCEPT ![year] = amount]
  /\ UNCHANGED <<budgetVars, approvedBudgets, dashboard, simulations, release>>

\* A release of the program is deployed; no question survives it in memory.
Deploy ==
  /\ question = NoQuestion /\ release < Len(Formulas)
  /\ release' = release + 1
  /\ UNCHANGED <<budgetVars, approvedBudgets, dashboard, spending, simulations>>

ChangeMembership ==
  /\ mayAsk' = ~mayAsk
  /\ UNCHANGED <<recordsVars, question, messages>>

BriefingInit ==
  /\ BudgetInit
  /\ approvedBudgets = {} /\ dashboard = [y \in Years |-> Absent({"reported"})]
  /\ spending = [y \in Years |-> Missing] /\ simulations = <<>> /\ release = 1
  /\ mayAsk = TRUE /\ question = NoQuestion /\ messages = <<>> /\ changes = 0

RecordsChange ==
  \/ \E b \in Budgets : ApproveBudget(b)
  \/ \E b \in Budgets, key \in Keys, entryKind \in EntryKinds, amount \in Sums :
       EnterCost(b, key, entryKind, amount)
  \/ \E e \in Entries : VoidCost(e)
  \/ \E y \in Years, facts \in Dashboards : UpdateDashboard(y, facts)
  \/ \E y \in Years, amount \in Spendings : ReportSpending(y, amount)
  \/ \E y \in Years, in \in Simulated : SaveScenario(y, in)
  \/ Deploy

BriefingNext ==
  \/ /\ changes < MaxChanges /\ changes' = changes + 1
     /\ \/ ChangeMembership
        \/ RecordsChange /\ UNCHANGED <<mayAsk, question, messages>>
  \/ \E words \in Questions, y \in Years : Ask(words, y)
  \/ ReadSnapshot
  \/ AnswerLocally
  \/ \E reply \in Replies : AnswerWithReply(reply)
  \/ RefuseAnswer

BriefingSpec == BriefingInit /\ [][BriefingNext]_briefingVars
-----------------------------------------------------------------------------
(* Properties *)

\* The figures of an answer are those the calculator of its time makes of the inputs.
TellsScenario(a, inputs) ==
  LET Has(id) == Present(a.cards, id)
      now     == Calculated(inputs, a.calculator)
  IN  /\ Has("baseline") => a.cards["baseline"] = now.baseline.net
      /\ Has("proposed") => a.cards["proposed"] = now.proposed.net
      /\ Has("delta") => a.cards["delta"] = now.delta

\* What is told of budgets and simulations held at one moment: budgets approved, entered
\* and voided, figures reported and releases deployed while a question was being answered
\* never give an answer parts of two moments (the lock in ask_director). A simulation is
\* told with the results the program gives today, or not at all (_planning_facts).
ToldOfOneMoment(a) ==
  LET Has(id) == Present(a.cards, id)
  IN  /\ Has("approved") /\ Has("consumed") =>
           /\ a.cards["consumed"] <= a.cards["approved"]
           /\ Has("available") =>
                a.cards["available"] = a.cards["approved"] - a.cards["consumed"]
      /\ Has("proposed") =>
           \E s \in 1..Len(simulations) :
             simulations[s].year = a.year /\ TellsScenario(a, simulations[s].inputs)

\* An answer says nothing that its own figures do not bear out, whatever the outside
\* model sends (validate_completion): its findings are among those drawn from the figures
\* stored with it, it finds no source both there and missing, and it offers a next step.
SaysWhatItShows(a) ==
  /\ a.observations \subseteq {o.code : o \in Observations(a.cards, a.topic)}
  /\ a.options # {} /\ a.options \subseteq {o.code : o \in Options(a.cards, a.topic)}
  /\ a.mode = "local" => a.observations \cap {"reported_activity", "source_missing"} # {}

\* The break-even volume of a saved simulation is the least one with which the proposal
\* earns at least what is earned today; a larger volume never earns less if a unit earns
\* something, and never more if it does not (price_cost_scenario).
ResultsHold(results, marketing) ==
  LET Earns(quantity) == quantity * results.proposed.unit - marketing
  IN  /\ results.breakEven = Missing <=> results.proposed.unit <= 0
      /\ results.proposed.unit > 0 =>
           /\ Earns(results.breakEven) >= results.baseline.net
           /\ results.breakEven > 0 => Earns(results.breakEven - 1) < results.baseline.net
           /\ results.sensitivity[8] <= results.proposed.net
           /\ results.proposed.net <= results.sensitivity[12]
      /\ results.sensitivity[10] = results.proposed.net
      /\ results.proposed.unit <= 0 => results.sensitivity[12] <= results.sensitivity[8]

\* Answers tell one moment, bear out what they say and follow their own question, and the
\* results of simulations hold.
BriefingsTellOneMoment ==
  /\ \A m \in Answers :
       LET a == messages[m] IN
         /\ ToldOfOneMoment(a) /\ SaysWhatItShows(a)
         /\ \E q \in 1..(m - 1) : messages[q] = [role |-> "user", year |-> a.year, topic |-> a.topic]
  /\ \A s \in 1..Len(simulations) :
       ResultsHold(simulations[s].results, simulations[s].inputs.marketing)
=============================================================================
