------------------------------- MODULE Ledger -------------------------------
(***************************************************************************)
(* The general ledger of one organization (finance/models.py Journal,      *)
(* JournalLine, AccountingPeriod; finance/services.py _post, close_month). *)
(*                                                                         *)
(* Every write service of the code runs in one database transaction that   *)
(* first locks the Organization row, so a service is one action. This      *)
(* module holds what all of them share: the business day, the posted       *)
(* journal lines and the closed months, with the operators that read them  *)
(* and the two operators that write them, Post and Close. The modules that *)
(* EXTEND it add the documents; each has its own next-state relation.      *)
(***************************************************************************)
EXTENDS Amounts

CONSTANTS
  MaxDay,       \* bound: the last business day explored
  MonthEnds     \* the last day of each month; a month is named by that day

ASSUME LedgerAssumption == MaxDay \in Nat \ {0} /\ MonthEnds \subseteq Nat

VARIABLES
  today,        \* timezone.localdate()
  journal,      \* the lines of posted journals
  closings      \* closed AccountingPeriods, each with the balances its audit event recorded

ledgerVars == <<today, journal, closings>>

Days == 1..MaxDay

Accounts == {"BANK", "AR", "DEFERRED_REVENUE", "REVENUE", "EXPENSE", "PREPAID", "AP",
             "EQUITY", "BANK_TRANSFER", "CUSTOMER_ADVANCE", "CUSTOMER_REFUND", "TAX_PAYABLE"}

-----------------------------------------------------------------------------
(* Reading the ledger *)

\* Faulty Frozen: a closed month freezes its own days only.
FrozenOwnMonth(day) ==
  \E c \in closings : day <= c.end /\ ~ \E e \in MonthEnds : day <= e /\ e < c.end

\* assert_open_period: a closed month freezes its own days and every earlier day.
Frozen(day) == \E c \in closings : day <= c.end
OpenPeriod(day) == ~Frozen(day)

ClosedMonths == {c.end : c \in closings}

Keys == {l.key : l \in journal}
LinesOf(key) == {l \in journal : l.key = key}

\* The total on one side of an account over the journals dated up to a day.
Side(account, side, day) ==
  Total({l \in journal : l.account = account /\ l.side = side /\ l.date <= day})

\* report_balances(as_of=day)[account]: debits minus credits.
Balance(account, day) == Side(account, "debit", day) - Side(account, "credit", day)

TrialBalance(day) == [a \in Accounts |-> Balance(a, day)]

-----------------------------------------------------------------------------
(* Writing the ledger *)

\* The entries a service hands to _post.
Dr(account, amount) == [account |-> account, side |-> "debit", amount |-> amount]
Cr(account, amount) == [account |-> account, side |-> "credit", amount |-> amount]

Lines(key, date, entries) ==
  {[key |-> key, date |-> date, account |-> e.account, side |-> e.side, amount |-> e.amount] :
     e \in entries}

\* Faulty Post: the period is not asked for.
PostAnyDay(key, date, entries) ==
  /\ key \notin Keys
  /\ journal' = journal \cup Lines(key, date, entries)

\* _post: a known source key must carry the same lines and changes nothing; a new
\* one needs an open period and posts every line. Otherwise the service is refused.
Post(key, date, entries) ==
  \/ /\ key \in Keys
     /\ LinesOf(key) = Lines(key, date, entries)
     /\ UNCHANGED journal
  \/ /\ key \notin Keys
     /\ OpenPeriod(date)
     /\ journal' = journal \cup Lines(key, date, entries)

\* close_month for the month ending on day end: only once the month is over and
\* nothing blocks it. A month may be closed after a later one.
Close(end, blocked) ==
  /\ end < today
  /\ end \notin ClosedMonths
  /\ ~blocked
  /\ closings' = closings \cup {[end |-> end, balances |-> TrialBalance(end)]}
  /\ UNCHANGED <<today, journal>>

\* The business day moves on (the bound MaxDay keeps the model finite).
NextDay ==
  /\ today < MaxDay
  /\ today' = today + 1
  /\ UNCHANGED <<journal, closings>>

LedgerInit ==
  /\ today = 1
  /\ journal = {}
  /\ closings = {}

-----------------------------------------------------------------------------
(* What the ledger promises, whatever documents are built on it. *)

\* The ledger part of the type invariant.
LedgerTypeOK ==
  /\ today \in Nat
  /\ journal \subseteq [key : Keys, date : Nat, account : Accounts,
                        side : {"debit", "credit"}, amount : Nat \ {0}]
  /\ closings \subseteq [end : MonthEnds, balances : [Accounts -> Int]]

\* The balances recorded when a month was closed are still the balances of its last
\* day (finance/tests_concurrency.py: "close snapshot stays true").
SnapshotsHold ==
  \A c \in closings : \A a \in Accounts : c.balances[a] = Balance(a, c.end)

\* No step adds, changes or removes a journal line dated in or before a closed month,
\* and no step reopens a month.
HistoryFrozen ==
  [][/\ closings \subseteq closings'
     /\ \A c \in closings : Upto(journal', c.end) = Upto(journal, c.end)]_ledgerVars
=============================================================================
