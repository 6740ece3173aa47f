------------------------------ MODULE CashPlans ------------------------------
(***************************************************************************)
(* Cash plans (director/services.py) and their forecast                    *)
(* (director/calculators.py cash_forecast): an assumed balance at the      *)
(* start of a day, and planned receipts and payments after it, which are   *)
(* voided and replaced as the cut-off day moves on.                        *)
(*                                                                         *)
(* The thirteen weeks of seven days are Weeks of WeekDays days here.       *)
(***************************************************************************)
EXTENDS Amounts, Integers, Sequences, FiniteSetsExt

CONSTANTS
  MaxDay,            \* the days 1..MaxDay may be the cut-off or have a line
  Weeks, WeekDays,   \* the horizon of the forecast
  LineSums,          \* amounts of a line
  Openings, Reserve, \* balances that may be assumed, and the reserve wanted
  MaxLines           \* bound

ASSUME CashAssumption ==
  /\ {MaxDay, Weeks, WeekDays} \subseteq Nat \ {0} /\ LineSums \subseteq Nat \ {0}
  /\ Openings \subseteq Int /\ Reserve \in Nat /\ MaxLines \in Nat

VARIABLES
  asOf, opening,     \* CashPlan
  lines,             \* CashPlanLine rows: date, direction, amount, replaces
  void               \* lines with status "void"

cashVars == <<asOf, opening, lines, void>>
Lines    == 1..Len(lines)
Planned  == Lines \ void

-----------------------------------------------------------------------------
\* Faulty NothingHiddenBy: the lines before a later cut-off are not looked at.
NothingHiddenByNothing(day) == TRUE
NothingHiddenBy(day) == \A l \in Planned : lines[l].date >= day

\* update_cash_plan: the cut-off moves only when no planned line is left behind.
UpdateCashPlan(day, balance) ==
  /\ NothingHiddenBy(day)
  /\ asOf' = day /\ opening' = balance
  /\ UNCHANGED <<lines, void>>

\* _cash_line.
LineAdded(day, direction, amount, replaces) ==
  /\ day >= asOf
  /\ lines' = Append(lines, [date |-> day, direction |-> direction, amount |-> amount,
                             replaces |-> replaces])
  /\ UNCHANGED <<asOf, opening>>

AddCashLine(day, direction, amount) ==
  LineAdded(day, direction, amount, 0) /\ UNCHANGED void

VoidCashLine(l) ==
  /\ l \in Planned
  /\ void' = void \cup {l}
  /\ UNCHANGED <<asOf, opening, lines>>

ReplaceCashLine(l, day, direction, amount) ==
  /\ l \in Planned
  /\ LineAdded(day, direction, amount, l) /\ void' = void \cup {l}

CashInit ==
  /\ asOf \in 1..MaxDay /\ opening \in Openings
  /\ lines = <<>> /\ void = {}

CashNext ==
  \/ \E day \in 1..MaxDay, balance \in Openings : UpdateCashPlan(day, balance)
  \/ \E l \in Lines : VoidCashLine(l)
  \/ /\ Len(lines) < MaxLines
     /\ \E day \in 1..MaxDay, direction \in {"inflow", "outflow"}, amount \in LineSums :
          \/ AddCashLine(day, direction, amount)
          \/ \E l \in Lines : ReplaceCashLine(l, day, direction, amount)

CashSpec == CashInit /\ [][CashNext]_cashVars

-----------------------------------------------------------------------------
\* cash_forecast. Days of the horizon are counted from 0.
Span       == Weeks * WeekDays
Amount(ls) == Total({[line |-> l, amount |-> lines[l].amount] : l \in ls})
Bucket(offset, direction) ==
  Amount({l \in Planned : lines[l].date = asOf + offset /\ lines[l].direction = direction})

\* The balance at the end of each day; -1 is the beginning of the plan.
Closing ==
  LET closing[offset \in -1..(Span - 1)] ==
        IF offset = -1 THEN opening
        ELSE closing[offset - 1] + Bucket(offset, "inflow") - Bucket(offset, "outflow")
  IN  closing

MinimumBalance == Min({Closing[offset] : offset \in -1..(Span - 1)})

WeekOffsets(w) == ((w - 1) * WeekDays)..(w * WeekDays - 1)
WeekMinimum(w) ==
  Min({Closing[(w - 1) * WeekDays - 1]} \cup {Closing[offset] : offset \in WeekOffsets(w)})

\* The day of the first balance below the reserve, or 0.
FirstShortfall ==
  IF opening < Reserve THEN asOf
  ELSE LET below == {offset \in 0..(Span - 1) : Closing[offset] < Reserve}
       IN  IF below = {} THEN 0 ELSE asOf + Min(below)

BeforeStart  == {l \in Planned : lines[l].date < asOf}
AfterHorizon == {l \in Planned : lines[l].date > asOf + Span - 1}

-----------------------------------------------------------------------------
LineRow == [date : 1..MaxDay, direction : {"inflow", "outflow"}, amount : Nat, replaces : Nat]

CashTypeOK ==
  /\ asOf \in 1..MaxDay /\ opening \in Int
  /\ lines \in Seq(LineRow) /\ void \subseteq Lines

Net(ls) == Amount({l \in ls : lines[l].direction = "inflow"})
           - Amount({l \in ls : lines[l].direction = "outflow"})

\* The forecast tells the whole plan: the balance of any day is the assumed balance and
\* every planned line up to it, whatever the cut-off was when the line was entered; the
\* end of the horizon differs from the plan only by the lines said to lie behind it. And
\* its three views of a shortage agree: the minimum is that of the weeks, and the first
\* shortfall lies in the first week that is marked (update_cash_plan, _cash_line,
\* cash_forecast).
ForecastTellsThePlan ==
  /\ BeforeStart = {}
  /\ \A offset \in 0..(Span - 1) :
       Closing[offset] = opening + Net({l \in Planned : lines[l].date <= asOf + offset})
  /\ Closing[Span - 1] = opening + Net(Planned) - Net(AfterHorizon)
  /\ LET marked == {w \in 1..Weeks : WeekMinimum(w) < Reserve}
     IN  /\ MinimumBalance = Min({WeekMinimum(w) : w \in 1..Weeks})
         /\ FirstShortfall = 0 <=> marked = {}
         /\ marked # {} => FirstShortfall - asOf \in WeekOffsets(Min(marked))
=============================================================================
