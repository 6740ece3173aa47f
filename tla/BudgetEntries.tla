---------------------------- MODULE BudgetEntries ----------------------------
(***************************************************************************)
(* What is recorded against approved budgets (director/services.py _entry, *)
(* add_budget_entry, void_budget_entry, replace_budget_entry): costs,      *)
(* commitments and reservations consume a budget, payments do not; entries *)
(* are never changed, only voided and replaced; a browser that repeats its *)
(* request sends the same idempotency key.                                 *)
(*                                                                         *)
(* A request that finds its key used, and one that is refused, changes     *)
(* nothing and is no step.                                                 *)
(***************************************************************************)
EXTENDS Amounts, Sequences

CONSTANTS
  Budgets, Authorized,   \* approved budgets and their amounts
  Sums,                  \* the amounts that may be entered
  Keys,                  \* idempotency keys
  MaxEntries             \* bound

EntryKinds == {"incurred", "open_commitment", "reservation", "payment"}

ASSUME BudgetAssumption ==
  /\ Authorized \in [Budgets -> Nat \ {0}] /\ Sums \subseteq Nat \ {0} /\ MaxEntries \in Nat

VARIABLES
  entries,     \* BudgetEntry rows in the order of their keys in the table
  voided       \* those with a voided_at

budgetVars == <<entries, voided>>
Entries == 1..Len(entries)
NoEntry == 0

-----------------------------------------------------------------------------
\* Budget.total_for, consumed and available, with a given set of voided rows.
Live(b, kinds, void) ==
  {e \in Entries \ void : entries[e].budget = b /\ entries[e].kind \in kinds}
Rows(es)     == {[entry |-> e, amount |-> entries[e].amount] : e \in es}
Consumed(b, void) == Total(Rows(Live(b, EntryKinds \ {"payment"}, void)))
Available(b, void) == Authorized[b] - Consumed(b, void)

\* budget_position: the totals of each kind, from the rows as they are drawn.
Position(b) ==
  LET totals == [kind \in EntryKinds |-> Total(Rows(Live(b, {kind}, voided)))]
      consumed == totals["incurred"] + totals["open_commitment"] + totals["reservation"]
  IN  [consumed |-> consumed, available |-> Authorized[b] - consumed,
       over |-> consumed > Authorized[b], paid |-> totals["payment"]]

\* The conditions and the row of _entry: a payment may fall in another month and is not
\* limited by what is available.
Recorded(b, key, kind, amount, inMonth, replaces, void) ==
  /\ \A e \in Entries : entries[e].key # key
  /\ kind # "payment" => inMonth /\ amount <= Available(b, void)
  /\ entries' = Append(entries, [budget |-> b, key |-> key, kind |-> kind,
                                 amount |-> amount, replaces |-> replaces])
  /\ voided' = void

AddBudgetEntry(b, key, kind, amount, inMonth) ==
  Recorded(b, key, kind, amount, inMonth, NoEntry, voided)

VoidBudgetEntry(e) ==
  /\ e \notin voided
  /\ voided' = voided \cup {e}
  /\ UNCHANGED entries

\* Faulty ReplaceBudgetEntry: the old entry is voided in a transaction of its own, after
\* the new one was compared with a budget it no longer consumes.
ReplaceLeavesOld(e, key, kind, amount, inMonth) ==
  /\ e \notin voided
  /\ kind # "payment" => amount <= Available(entries[e].budget, voided \cup {e})
  /\ \A f \in Entries : entries[f].key # key
  /\ entries' = Append(entries, [budget |-> entries[e].budget, key |-> key, kind |-> kind,
                                 amount |-> amount, replaces |-> e])
  /\ UNCHANGED voided

\* The old entry makes room before the new one is compared with what is available; if
\* that is refused, the old one stays (one transaction).
ReplaceBudgetEntry(e, key, kind, amount, inMonth) ==
  /\ e \notin voided
  /\ Recorded(entries[e].budget, key, kind, amount, inMonth, e, voided \cup {e})

BudgetInit == entries = <<>> /\ voided = {}

BudgetNext ==
  \/ \E e \in Entries : VoidBudgetEntry(e)
  \/ /\ Len(entries) < MaxEntries
     /\ \E key \in Keys, kind \in EntryKinds, amount \in Sums, inMonth \in BOOLEAN :
          \/ \E b \in Budgets : AddBudgetEntry(b, key, kind, amount, inMonth)
          \/ \E e \in Entries : ReplaceBudgetEntry(e, key, kind, amount, inMonth)

BudgetSpec == BudgetInit /\ [][BudgetNext]_budgetVars

-----------------------------------------------------------------------------
EntryRow == [budget : Budgets, key : Keys, kind : EntryKinds, amount : Nat, replaces : Nat]

BudgetTypeOK ==
  /\ entries \in Seq(EntryRow) /\ voided \subseteq Entries
  /\ \A e \in Entries : entries[e].replaces \in 0..(e - 1)

\* The entry at the start of the chain of replacements that e belongs to.
First == LET first[e \in Entries] ==
               IF entries[e].replaces = NoEntry THEN e ELSE first[entries[e].replaces]
         IN  first

\* What a budget authorizes is never exceeded, however costs, commitments and
\* reservations are voided, replaced by larger ones or turned into payments and back
\* (the comparison with budget.available in _entry). A commitment that becomes a cost
\* counts once: of an entry, its replacements and theirs at most one is live, all on the
\* same budget, also when requests are repeated with old or new keys
\* (replace_budget_entry). The position shown to the director says the same.
BudgetsKept ==
  /\ \A b \in Budgets :
       /\ Consumed(b, voided) <= Authorized[b]
       /\ Position(b) = [consumed |-> Consumed(b, voided), available |-> Available(b, voided),
                         over |-> FALSE, paid |-> Total(Rows(Live(b, {"payment"}, voided)))]
  /\ \A e, f \in Entries : First[e] = First[f] =>
       /\ entries[e].budget = entries[f].budget
       /\ e # f => e \in voided \/ f \in voided
=============================================================================
