--------------------------- MODULE GeneralLedger ---------------------------
(***************************************************************************)
(* What the owner may rely on when reading the reports, with no documents, *)
(* bank lines or journals: a balanced balance of every account as of every *)
(* day, and a frozen day up to which it never changes again. The modules   *)
(* of the finance services implement it (module Finance).                  *)
(***************************************************************************)
EXTENDS Amounts

CONSTANTS
  Days,        \* the days a report may be asked for
  Accounts,    \* the accounts of the chart
  MonthEnds    \* the days a period may be frozen up to

VARIABLES
  book,        \* the balance of each account as of each day
  frozen       \* the last frozen day, 0 for none

\* The two columns of a trial balance, and that they total the same.
Debits(balances) ==
  {[account |-> a, amount |-> balances[a]] : a \in {x \in Accounts : balances[x] > 0}}
Credits(balances) ==
  {[account |-> a, amount |-> -balances[a]] : a \in {x \in Accounts : balances[x] < 0}}
Balanced(balances) == Total(Debits(balances)) = Total(Credits(balances))

Init ==
  /\ book = [d \in Days |-> [a \in Accounts |-> 0]]
  /\ frozen = 0

\* A business event of some day that is still open: earlier balances stay, later ones
\* move, and every day stays balanced.
RecordEvent ==
  \E day \in Days :
    /\ day > frozen
    /\ \A d \in Days : d < day => book'[d] = book[d]
    /\ \A d \in Days : Balanced(book'[d])
    /\ UNCHANGED frozen

\* A month is closed: what is frozen only grows, and closing moves no balance.
Freeze ==
  /\ frozen' \in MonthEnds
  /\ frozen' > frozen
  /\ UNCHANGED book

Spec == Init /\ [][RecordEvent \/ Freeze]_<<book, frozen>>
=============================================================================
