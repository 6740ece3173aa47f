-------------------------- MODULE BankBookTheorems --------------------------
(***************************************************************************)
(* The bank book is type correct, never uses more of a bank line than the  *)
(* bank reported, and never rewrites a closed month, for every number of   *)
(* accounts, lines, amounts, references and months.                        *)
(*                                                                         *)
(* Each action is shown to be a ledger step (it posts lines on open days,  *)
(* or closes a month, or leaves the ledger alone) and a claim step (it     *)
(* claims from each line at most once, at most the line's remainder). The  *)
(* rest follows from these two facts alone, so the proofs about the        *)
(* documents that are built on the bank book reuse them (FinanceTheorems). *)
(***************************************************************************)
EXTENDS BankBook, AmountTheorems

(* What every module built on the ledger inherits. *)

\* The type of a journal line, without the dependence of its key on the journal.
LineOK(l) ==
  /\ l.date \in Nat /\ l.account \in Accounts
  /\ l.side \in {"debit", "credit"} /\ l.amount \in Nat \ {0}
  /\ l = [key |-> l.key, date |-> l.date, account |-> l.account, side |-> l.side,
          amount |-> l.amount]

\* The inductive form of LedgerTypeOK.
LedgerInv ==
  /\ today \in Nat
  /\ IsFiniteSet(journal)
  /\ \A l \in journal : LineOK(l)
  /\ closings \subseteq [end : MonthEnds, balances : [Accounts -> Int]]

\* New lines, all on open days.
PostingStep ==
  /\ today' \in Nat
  /\ UNCHANGED closings
  /\ journal \subseteq journal'
  /\ IsFiniteSet(journal' \ journal)
  /\ \A l \in journal' \ journal : LineOK(l) /\ OpenPeriod(l.date)

ClosingStep ==
  \E end \in MonthEnds :
    /\ closings' = closings \cup {[end |-> end, balances |-> TrialBalance(end)]}
    /\ UNCHANGED <<today, journal>>

LedgerStep == PostingStep \/ ClosingStep

-----------------------------------------------------------------------------
\* The lines of entries with positive amounts are well formed and finitely many.
LEMMA LinesOK ==
  ASSUME NEW key, NEW date \in Nat, NEW entries, IsFiniteSet(entries),
         \A e \in entries : /\ e.account \in Accounts /\ e.side \in {"debit", "credit"}
                            /\ e.amount \in Nat \ {0}
  PROVE  /\ IsFiniteSet(Lines(key, date, entries))
         /\ \A l \in Lines(key, date, entries) : LineOK(l) /\ l.date = date /\ l.key = key
<1> DEFINE line(e) == [key |-> key, date |-> date, account |-> e.account, side |-> e.side,
                       amount |-> e.amount]
           f == [e \in entries |-> line(e)]
<1>1. f \in Surjection(entries, Lines(key, date, entries))
  BY DEF Surjection, Lines
<1>2. IsFiniteSet(Lines(key, date, entries))
  BY <1>1, FS_Surjection
<1>3. QED
  BY <1>2 DEF Lines, LineOK

\* The two entries of a posting: a debit and a credit of one positive amount.
LEMMA TwoEntries ==
  ASSUME NEW a \in Accounts, NEW b \in Accounts, NEW m \in Nat \ {0}, NEW n \in Nat \ {0}
  PROVE  /\ IsFiniteSet({Dr(a, m), Cr(b, n)})
         /\ \A e \in {Dr(a, m), Cr(b, n)} :
              /\ e.account \in Accounts /\ e.side \in {"debit", "credit"}
              /\ e.amount \in Nat \ {0}
<1>1. IsFiniteSet({Dr(a, m)}) /\ IsFiniteSet({Dr(a, m)} \cup {Cr(b, n)})
  BY FS_Singleton, FS_AddElement
<1>2. {Dr(a, m)} \cup {Cr(b, n)} = {Dr(a, m), Cr(b, n)}
  OBVIOUS
<1>3. QED
  BY <1>1, <1>2 DEF Dr, Cr

\* Post is a posting step once the day does not move.
LEMMA PostIsStep ==
  ASSUME LedgerInv, NEW key, NEW date \in Nat, NEW entries, IsFiniteSet(entries),
         \A e \in entries : /\ e.account \in Accounts /\ e.side \in {"debit", "credit"}
                            /\ e.amount \in Nat \ {0},
         Post(key, date, entries), UNCHANGED <<today, closings>>
  PROVE  PostingStep
<1> DEFINE new == Lines(key, date, entries)
<1>1. IsFiniteSet(new) /\ \A l \in new : LineOK(l) /\ l.date = date
  BY LinesOK
<1> HIDE DEF new
<1>2. CASE UNCHANGED journal
  <2>1. journal' \ journal = {}
    BY <1>2
  <2>2. QED
    BY <2>1, <1>2, FS_EmptySet DEF PostingStep, LedgerInv
<1>3. CASE OpenPeriod(date) /\ journal' = journal \cup new
  <2>1. IsFiniteSet(journal' \ journal)
    BY <1>1, <1>3, FS_Subset
  <2>2. QED
    BY <1>1, <1>3, <2>1 DEF PostingStep, LedgerInv
<1>4. QED
  BY <1>2, <1>3 DEF Post, new

\* Steps that touch neither journal nor closings.
LEMMA QuietIsStep ==
  ASSUME LedgerInv, today' \in Nat, UNCHANGED <<journal, closings>>
  PROVE  PostingStep
<1>1. journal' \ journal = {}
  OBVIOUS
<1>2. QED
  BY <1>1, FS_EmptySet DEF PostingStep

\* close_month is a closing step, whatever blocks it in the module that calls it.
LEMMA CloseIsStep ==
  ASSUME NEW end \in MonthEnds, NEW blocked, Close(end, blocked)
  PROVE  ClosingStep
BY DEF Close, ClosingStep

-----------------------------------------------------------------------------
\* A balance is an integer.
LEMMA BalanceType ==
  ASSUME LedgerInv, NEW a, NEW d
  PROVE  Balance(a, d) \in Int
<1>1. \A l \in journal : l.amount \in Nat
  BY DEF LedgerInv, LineOK
<1>2. \A side : Side(a, side, d) \in Nat
  <2> SUFFICES ASSUME NEW side PROVE Side(a, side, d) \in Nat
    OBVIOUS
  <2> DEFINE some == {l \in journal : l.account = a /\ l.side = side /\ l.date <= d}
  <2>1. some \in SUBSET journal /\ IsFiniteSet(journal)
    BY DEF LedgerInv
  <2> HIDE DEF some
  <2>2. Total(some) \in Nat
    BY <1>1, <2>1, TotalType
  <2>3. QED
    BY <2>2 DEF Side, some
<1>3. QED
  BY <1>2 DEF Balance

\* The types survive a ledger step.
LEMMA LedgerInvStep ==
  ASSUME LedgerInv, LedgerStep
  PROVE  LedgerInv'
<1>1. CASE PostingStep
  <2>1. IsFiniteSet(journal \cup (journal' \ journal))
    BY <1>1, FS_Union DEF LedgerInv, PostingStep
  <2>2. journal \cup (journal' \ journal) = journal'
    BY <1>1 DEF PostingStep
  <2>3. \A l \in journal' : LineOK(l)
    BY <1>1 DEF LedgerInv, PostingStep
  <2>4. QED
    BY <1>1, <2>1, <2>2, <2>3 DEF LedgerInv, PostingStep, LineOK
<1>2. CASE ClosingStep
  <2>1. PICK end \in MonthEnds :
          /\ closings' = closings \cup {[end |-> end, balances |-> TrialBalance(end)]}
          /\ UNCHANGED <<today, journal>>
    BY <1>2 DEF ClosingStep
  <2>2. TrialBalance(end) \in [Accounts -> Int]
    BY BalanceType DEF TrialBalance
  <2>3. QED
    BY <2>1, <2>2 DEF LedgerInv, LineOK
<1>3. QED
  BY <1>1, <1>2 DEF LedgerStep

\* The inductive form gives the type invariant as the runs check it.
LEMMA LedgerInvImpliesTypeOK == LedgerInv => LedgerTypeOK
<1> SUFFICES ASSUME LedgerInv PROVE LedgerTypeOK
  OBVIOUS
<1>1. ASSUME NEW l \in journal
      PROVE  l \in [key : Keys, date : Nat, account : Accounts, side : {"debit", "credit"},
                    amount : Nat \ {0}]
  BY DEF LedgerInv, LineOK, Keys
<1>2. QED
  BY <1>1 DEF LedgerInv, LedgerTypeOK

\* No step touches a line dated in or before a closed month.
LEMMA FrozenLinesStep ==
  ASSUME LedgerInv, LedgerStep, NEW c \in closings
  PROVE  /\ c \in closings'
         /\ Upto(journal', c.end) = Upto(journal, c.end)
<1>1. CASE PostingStep
  <2>1. \A l \in journal' \ journal : ~(l.date <= c.end)
    BY <1>1 DEF PostingStep, OpenPeriod, Frozen
  <2>2. QED
    BY <1>1, <2>1 DEF PostingStep, Upto
<1>2. CASE ClosingStep
  BY <1>2 DEF ClosingStep
<1>3. QED
  BY <1>1, <1>2 DEF LedgerStep

\* A balance as of a day depends on the lines up to that day only.
LEMMA BalanceOfUpto ==
  ASSUME NEW a, NEW d, Upto(journal', d) = Upto(journal, d)
  PROVE  Balance(a, d)' = Balance(a, d)
<1>1. \A side : {l \in journal' : l.account = a /\ l.side = side /\ l.date <= d}
              = {l \in journal : l.account = a /\ l.side = side /\ l.date <= d}
  BY DEF Upto
<1>2. \A side : Side(a, side, d)' = Side(a, side, d)
  BY <1>1 DEF Side
<1>3. QED
  BY <1>2 DEF Balance

\* The balances recorded when a month was closed stay the balances of its last day.
LEMMA SnapshotsHoldStep ==
  ASSUME LedgerInv, LedgerStep, SnapshotsHold
  PROVE  SnapshotsHold'
<1>1. \A c \in closings : \A a \in Accounts : c.balances[a] = Balance(a, c.end)'
  <2> SUFFICES ASSUME NEW c \in closings, NEW a \in Accounts
               PROVE  c.balances[a] = Balance(a, c.end)'
    OBVIOUS
  <2>1. Upto(journal', c.end) = Upto(journal, c.end)
    BY FrozenLinesStep DEF LedgerInv
  <2>2. Balance(a, c.end)' = Balance(a, c.end)
    BY <2>1, BalanceOfUpto
  <2>3. QED
    BY <2>2 DEF SnapshotsHold
<1>2. CASE PostingStep
  BY <1>1, <1>2 DEF PostingStep, SnapshotsHold
<1>3. CASE ClosingStep
  <2>1. PICK end \in MonthEnds :
          /\ closings' = closings \cup {[end |-> end, balances |-> TrialBalance(end)]}
          /\ UNCHANGED <<today, journal>>
    BY <1>3 DEF ClosingStep
  <2>2. Upto(journal', end) = Upto(journal, end)
    BY <2>1
  <2>3. \A a \in Accounts : Balance(a, end)' = Balance(a, end)
    BY <2>2, BalanceOfUpto
  <2>4. \A a \in Accounts : TrialBalance(end)[a] = Balance(a, end)'
    BY <2>3 DEF TrialBalance
  <2>5. QED
    BY <1>1, <2>1, <2>4 DEF SnapshotsHold
<1>4. QED
  BY <1>2, <1>3 DEF LedgerStep
(* What a posting does to the balances. *)

\* The balance in a set of lines; Balance is that of the journal.
BalanceIn(lines, a, d) ==
    Total({l \in lines : l.account = a /\ l.side = "debit" /\ l.date <= d})
  - Total({l \in lines : l.account = a /\ l.side = "credit" /\ l.date <= d})

\* What an entry posted on a date adds to the balance of an account as of a day.
Effect(e, date, a, d) ==
  IF e.account = a /\ date <= d THEN IF e.side = "debit" THEN e.amount ELSE -e.amount ELSE 0

EntryOK(e) == /\ e.account \in Accounts /\ e.side \in {"debit", "credit"}
              /\ e.amount \in Nat \ {0}

\* One more line changes the balance of an account by its effect on it.
LEMMA OneMoreLine ==
  ASSUME NEW lines, IsFiniteSet(lines), \A l \in lines : l.amount \in Nat,
         NEW line, line \notin lines, line.amount \in Nat, line.side \in {"debit", "credit"},
         NEW a, NEW d
  PROVE  /\ BalanceIn(lines, a, d) \in Int
         /\ BalanceIn(lines \cup {line}, a, d)
              = BalanceIn(lines, a, d) + Effect(line, line.date, a, d)
<1> DEFINE some(set, side) == {l \in set : l.account = a /\ l.side = side /\ l.date <= d}
           old == [side \in {"debit", "credit"} |-> some(lines, side)]
           new == [side \in {"debit", "credit"} |-> some(lines \cup {line}, side)]
<1>1. ASSUME NEW side \in {"debit", "credit"}
      PROVE  /\ Total(new[side]) = Total(old[side])
                  + (IF line.account = a /\ line.side = side /\ line.date <= d
                     THEN line.amount ELSE 0)
             /\ Total(old[side]) \in Nat
  <2>1. /\ new[side] = old[side] \/ new[side] = old[side] \cup {line}
        /\ line \notin old[side]
        /\ line \in new[side] <=> line.account = a /\ line.side = side /\ line.date <= d
        /\ \A x \in old[side] : x.amount \in Nat
    OBVIOUS
  <2>2. IsFiniteSet(old[side])
    BY FS_Subset
  <2> HIDE DEF old, new
  <2>3. QED
    BY <2>1, <2>2, TotalOfMore
<1>2. /\ BalanceIn(lines, a, d) = Total(old["debit"]) - Total(old["credit"])
      /\ BalanceIn(lines \cup {line}, a, d) = Total(new["debit"]) - Total(new["credit"])
  BY DEF BalanceIn
<1> HIDE DEF old, new
<1>3. QED
  BY <1>1, <1>2 DEF Effect

\* The lines of two different entries under a key the lines do not have, one by one.
LEMMA TwoLinesIn ==
  ASSUME NEW lines, IsFiniteSet(lines), NEW key, \A l \in lines : l.amount \in Nat /\ l.key # key,
         NEW date \in Nat, NEW e, NEW f, EntryOK(e), EntryOK(f), e.side # f.side
  PROVE  /\ \A a, d : /\ BalanceIn(lines, a, d) \in Int
                      /\ BalanceIn(lines \cup Lines(key, date, {e, f}), a, d)
                           = BalanceIn(lines, a, d) + Effect(e, date, a, d) + Effect(f, date, a, d)
         /\ IsFiniteSet(lines \cup Lines(key, date, {e, f}))
         /\ \A l \in Lines(key, date, {e, f}) : l.amount \in Nat
<1> DEFINE line(x) == [key |-> key, date |-> date, account |-> x.account, side |-> x.side,
                       amount |-> x.amount]
           first == lines \cup {line(e)}
<1>1. lines \cup Lines(key, date, {e, f}) = first \cup {line(f)}
  BY DEF Lines
<1>2. /\ line(e) \notin lines /\ line(f) \notin first
      /\ \A l \in Lines(key, date, {e, f}) : l.amount \in Nat
  BY DEF Lines, EntryOK
<1>3. IsFiniteSet(first) /\ \A l \in first : l.amount \in Nat
  <2>1. IsFiniteSet(lines \cup {line(e)})
    BY FS_AddElement
  <2>2. QED
    BY <2>1 DEF EntryOK
<1>4. IsFiniteSet(first \cup {line(f)})
  <2> HIDE DEF first
  <2>1. QED
    BY <1>3, FS_AddElement
<1>5. ASSUME NEW a, NEW d
      PROVE  /\ BalanceIn(lines, a, d) \in Int
             /\ BalanceIn(first \cup {line(f)}, a, d)
                  = BalanceIn(lines, a, d) + Effect(e, date, a, d) + Effect(f, date, a, d)
  <2>1. /\ BalanceIn(first, a, d) = BalanceIn(lines, a, d) + Effect(line(e), date, a, d)
        /\ BalanceIn(lines, a, d) \in Int
    BY <1>2, <1>3, OneMoreLine DEF EntryOK
  <2>2. BalanceIn(first \cup {line(f)}, a, d)
          = BalanceIn(first, a, d) + Effect(line(f), date, a, d)
    BY <1>2, <1>3, OneMoreLine DEF EntryOK
  <2>3. /\ Effect(line(e), date, a, d) = Effect(e, date, a, d)
        /\ Effect(line(f), date, a, d) = Effect(f, date, a, d)
    BY DEF Effect
  <2>4. QED
    BY <2>1, <2>2, <2>3
<1>6. QED
  BY <1>1, <1>2, <1>4, <1>5

\* The journal of two or three different entries under a new key.
LEMMA TwoMoreLines ==
  ASSUME LedgerInv, NEW key, NEW date \in Nat, NEW e, NEW f, EntryOK(e), EntryOK(f),
         e.side # f.side, key \notin Keys,
         journal' = journal \cup Lines(key, date, {e, f}), NEW a, NEW d
  PROVE  Balance(a, d)' = Balance(a, d) + Effect(e, date, a, d) + Effect(f, date, a, d)
<1>1. IsFiniteSet(journal) /\ \A l \in journal : l.amount \in Nat /\ l.key # key
  BY DEF LedgerInv, LineOK, Keys
<1>2. BalanceIn(journal \cup Lines(key, date, {e, f}), a, d)
        = BalanceIn(journal, a, d) + Effect(e, date, a, d) + Effect(f, date, a, d)
  BY <1>1, TwoLinesIn
<1>3. /\ Balance(a, d) = BalanceIn(journal, a, d)
      /\ Balance(a, d)' = BalanceIn(journal', a, d)
  BY DEF Balance, Side, BalanceIn
<1>4. QED
  BY <1>2, <1>3

\* An entry of three lines, two of them on one side, changes a balance by the effects of the three.
LEMMA ThreeMoreLines ==
  ASSUME LedgerInv, NEW key, NEW date \in Nat, NEW e, NEW f, NEW g,
         EntryOK(e), EntryOK(f), EntryOK(g), e.side # f.side, e.side # g.side,
         f.account # g.account, key \notin Keys,
         journal' = journal \cup Lines(key, date, {e, f, g}), NEW a, NEW d
  PROVE  Balance(a, d)' = Balance(a, d) + Effect(e, date, a, d) + Effect(f, date, a, d)
                                        + Effect(g, date, a, d)
<1> DEFINE line(x) == [key |-> key, date |-> date, account |-> x.account, side |-> x.side,
                       amount |-> x.amount]
           first == journal \cup {line(e)}
           second == first \cup {line(f)}
<1>1. journal' = second \cup {line(g)}
  BY DEF Lines
<1>2. line(e) \notin journal /\ line(f) \notin first /\ line(g) \notin second
  BY DEF Keys
<1>3. /\ IsFiniteSet(journal) /\ IsFiniteSet(first) /\ IsFiniteSet(second)
      /\ \A l \in second : l.amount \in Nat
  <2>1. IsFiniteSet(journal) /\ \A l \in journal : l.amount \in Nat
    BY DEF LedgerInv, LineOK
  <2>2. IsFiniteSet(journal \cup {line(e)})
    BY <2>1, FS_AddElement
  <2> DEFINE set == first
  <2>3. IsFiniteSet(set)
    BY <2>2
  <2> HIDE DEF set
  <2>4. IsFiniteSet(set \cup {line(f)})
    BY <2>3, FS_AddElement
  <2>5. QED
    BY <2>1, <2>2, <2>4 DEF EntryOK, set
<1>4. BalanceIn(first, a, d) = BalanceIn(journal, a, d) + Effect(line(e), date, a, d)
  BY <1>2, <1>3, OneMoreLine DEF EntryOK
<1>5. BalanceIn(second, a, d) = BalanceIn(first, a, d) + Effect(line(f), date, a, d)
  BY <1>2, <1>3, OneMoreLine DEF EntryOK
<1>6. BalanceIn(second \cup {line(g)}, a, d)
        = BalanceIn(second, a, d) + Effect(line(g), date, a, d)
  BY <1>2, <1>3, OneMoreLine DEF EntryOK
<1>7. /\ Effect(line(e), date, a, d) = Effect(e, date, a, d)
      /\ Effect(line(f), date, a, d) = Effect(f, date, a, d)
      /\ Effect(line(g), date, a, d) = Effect(g, date, a, d)
  BY DEF Effect
<1>8. /\ Balance(a, d) = BalanceIn(journal, a, d)
      /\ Balance(a, d)' = BalanceIn(second \cup {line(g)}, a, d)
  BY <1>1 DEF Balance, Side, BalanceIn
<1>9. QED
  BY <1>4, <1>5, <1>6, <1>7, <1>8

-----------------------------------------------------------------------------
(* Bank lines and claims. *)

ClaimOK(c) == c.kind \in ClaimKinds /\ c.line \in bank /\ c.amount \in Nat \ {0}

OpeningRow == [account : BankAccounts, date : Days, direction : {"in", "out"},
               amount : Nat \ {0}]

\* The inductive form of BankTypeOK.
BankInv ==
  /\ LedgerInv
  /\ IsFiniteSet(claims)
  /\ bank \subseteq BankLine
  /\ \A c \in claims : ClaimOK(c)
  /\ openings \subseteq OpeningRow

\* A step claims at most once from a line, and at most what is left of it.
ClaimStep ==
  /\ claims \subseteq claims'
  /\ IsFiniteSet(claims' \ claims)
  /\ \A c \in claims' \ claims : ClaimOK(c) /\ c.amount <= Unallocated(c.line)
  /\ \A c, d \in claims' \ claims : c.line = d.line => c = d

\* Bank lines and openings are only added, and well formed.
RowsStep ==
  /\ bank \subseteq bank'
  /\ bank' \subseteq BankLine
  /\ openings' \subseteq OpeningRow

BankBookStep == LedgerStep /\ ClaimStep /\ RowsStep

-----------------------------------------------------------------------------
(* The shape of a step preserves the invariants. *)

\* The claims of a line total a natural number.
LEMMA ClaimedType ==
  ASSUME BankInv, NEW line
  PROVE  /\ Claimed(line) \in Nat
         /\ IsFiniteSet(Units({c \in claims : c.line = line}))
<1> DEFINE some == {c \in claims : c.line = line}
<1>1. some \in SUBSET claims /\ IsFiniteSet(claims) /\ \A c \in claims : c.amount \in Nat
  BY DEF BankInv, ClaimOK
<1> HIDE DEF some
<1>2. Total(some) \in Nat /\ IsFiniteSet(Units(some))
  BY <1>1, TotalType
<1>3. QED
  BY <1>2 DEF Claimed, some

\* The types survive a bank book step.
LEMMA BankInvStep ==
  ASSUME BankInv, BankBookStep
  PROVE  BankInv'
<1>1. LedgerInv'
  BY LedgerInvStep DEF BankInv, BankBookStep
<1>2. claims \cup (claims' \ claims) = claims'
  BY DEF BankBookStep, ClaimStep
<1>3. IsFiniteSet(claims \cup (claims' \ claims))
  BY FS_Union DEF BankInv, BankBookStep, ClaimStep
<1>4. \A c \in claims' : c.kind \in ClaimKinds /\ c.line \in bank' /\ c.amount \in Nat \ {0}
  BY DEF BankInv, BankBookStep, ClaimStep, RowsStep, ClaimOK
<1>5. bank' \subseteq BankLine /\ openings' \subseteq OpeningRow
  BY DEF BankBookStep, RowsStep
<1>6. IsFiniteSet(claims')
  BY <1>2, <1>3
<1>7. QED
  BY <1>1, <1>4, <1>5, <1>6 DEF BankInv, ClaimOK, OpeningRow, BankLine, Days

\* The inductive form gives the type invariant as the runs check it.
LEMMA BankInvImpliesTypeOK == BankInv => BankTypeOK
BY LedgerInvImpliesTypeOK DEF BankInv, BankTypeOK, ClaimOK, OpeningRow

\* A step that claims within the remainders overclaims no line, old or new.
LEMMA NoLineOverclaimedStep ==
  ASSUME BankInv, BankBookStep, NoLineOverclaimed
  PROVE  NoLineOverclaimed'
<1> SUFFICES ASSUME NEW line \in bank' PROVE Claimed(line)' <= line.amount
  BY DEF NoLineOverclaimed
<1> DEFINE old == {c \in claims : c.line = line}
           new == {c \in claims' : c.line = line}
<1>1. Claimed(line)' = Total(new) /\ Claimed(line) = Total(old)
  BY DEF Claimed
<1>2. Claimed(line) \in Nat /\ IsFiniteSet(Units(old))
  BY ClaimedType
<1>3. line.amount \in Nat
  BY DEF BankBookStep, RowsStep, BankLine
<1>4. Total(old) <= line.amount
  <2>1. CASE line \in bank
    BY <1>1, <2>1 DEF NoLineOverclaimed
  <2>2. CASE line \notin bank
    <3>1. old = {}
      BY <2>2 DEF BankInv, ClaimOK
    <3>2. QED
      BY <3>1, <1>3, TotalEmpty
  <2>3. QED
    BY <2>1, <2>2
<1>5. CASE \E c \in claims' \ claims : c.line = line
  <2>1. PICK c \in claims' \ claims : c.line = line
    BY <1>5
  <2>2. new = old \cup {c}
    BY <2>1 DEF BankBookStep, ClaimStep
  <2>3. c \notin old /\ c.amount \in Nat /\ c.amount <= line.amount - Claimed(line)
    BY <2>1 DEF BankBookStep, ClaimStep, ClaimOK, Unallocated
  <2> HIDE DEF old, new
  <2>4. Total(new) = Total(old) + c.amount
    BY <1>2, <2>2, <2>3, TotalAdd
  <2>5. QED
    BY <1>1, <1>2, <1>3, <2>3, <2>4
<1>6. CASE ~ \E c \in claims' \ claims : c.line = line
  <2>1. new = old
    BY <1>6 DEF BankBookStep, ClaimStep
  <2>2. QED
    BY <2>1, <1>1, <1>4
<1>7. QED
  BY <1>5, <1>6

-----------------------------------------------------------------------------
(* Every action has that shape. *)

\* Steps that add one claim, or none, within the remainder of its line.
LEMMA OneClaimStep ==
  ASSUME BankInv, NEW c, claims' = claims \cup {c}, ClaimOK(c), c.amount <= Unallocated(c.line)
  PROVE  ClaimStep
<1>1. claims' \ claims \subseteq {c} /\ IsFiniteSet({c})
  BY FS_Singleton
<1>2. IsFiniteSet(claims' \ claims)
  BY <1>1, FS_Subset
<1>3. QED
  BY <1>1, <1>2 DEF ClaimStep

\* Steps that claim nothing.
LEMMA NoClaimStep ==
  ASSUME BankInv, UNCHANGED claims
  PROVE  ClaimStep
<1>1. claims' \ claims = {}
  OBVIOUS
<1>2. QED
  BY <1>1, FS_EmptySet DEF ClaimStep

\* _bank_post, with whatever two entries the calling service posts.
LEMMA BankPostIsStep ==
  ASSUME BankInv, NEW line, NEW direction, NEW amount \in Nat \ {0}, NEW kind \in ClaimKinds,
         NEW reference, NEW doc, NEW entries, IsFiniteSet(entries),
         \A e \in entries : /\ e.account \in Accounts /\ e.side \in {"debit", "credit"}
                            /\ e.amount \in Nat \ {0},
         BankPost(line, direction, amount, kind, reference, doc, entries),
         UNCHANGED <<today, closings>>
  PROVE  LedgerStep /\ ClaimStep
<1> DEFINE key == <<"bank-event", reference>>
           c == Claim(kind, key, doc, line, amount)
<1>1. /\ line \in bank /\ amount <= Unallocated(line)
      /\ Post(key, line.date, entries)
      /\ claims' = claims \cup {c}
  BY DEF BankPost, BankPosted
<1>2. line.date \in Nat
  BY <1>1 DEF BankInv, BankLine, Days
<1>3. ClaimOK(c) /\ c.line = line /\ c.amount = amount
  BY <1>1 DEF ClaimOK, Claim
<1>4. LedgerInv
  BY DEF BankInv
<1> HIDE DEF key, c
<1>5. LedgerStep
  BY <1>1, <1>2, <1>4, PostIsStep DEF LedgerStep
<1>6. ClaimStep
  BY <1>1, <1>3, OneClaimStep
<1>7. QED
  BY <1>5, <1>6

\* reconcile_bank_adjustment, both kinds.
LEMMA AdjustmentIsStep ==
  ASSUME BankInv, NEW line, NEW amount \in Nat \ {0}, NEW reference,
         \/ ReconcileBankFee(line, amount, reference)
         \/ ReconcileOwnerFunding(line, amount, reference)
  PROVE  BankBookStep
<1>1. "EXPENSE" \in Accounts /\ "BANK" \in Accounts /\ "EQUITY" \in Accounts
  BY DEF Accounts
<1>2. "bank_fee" \in ClaimKinds /\ "owner_funding" \in ClaimKinds
  BY DEF ClaimKinds
<1>3. CASE ReconcileBankFee(line, amount, reference)
  <2> DEFINE entries == {Dr("EXPENSE", amount), Cr("BANK", amount)}
  <2>1. /\ BankPost(line, "out", amount, "bank_fee", reference, <<"fee">>, entries)
        /\ UNCHANGED <<today, closings, bank, openings>>
    BY <1>3 DEF ReconcileBankFee
  <2>2. /\ IsFiniteSet(entries)
        /\ \A e \in entries : /\ e.account \in Accounts /\ e.side \in {"debit", "credit"}
                              /\ e.amount \in Nat \ {0}
    BY <1>1, TwoEntries
  <2> HIDE DEF entries
  <2>3. LedgerStep /\ ClaimStep
    BY <1>2, <2>1, <2>2, BankPostIsStep
  <2>4. QED
    BY <2>1, <2>3 DEF BankBookStep, RowsStep, BankInv
<1>4. CASE ReconcileOwnerFunding(line, amount, reference)
  <2> DEFINE entries == {Dr("BANK", amount), Cr("EQUITY", amount)}
  <2>1. /\ BankPost(line, "in", amount, "owner_funding", reference, <<"funding">>, entries)
        /\ UNCHANGED <<today, closings, bank, openings>>
    BY <1>4 DEF ReconcileOwnerFunding
  <2>2. /\ IsFiniteSet(entries)
        /\ \A e \in entries : /\ e.account \in Accounts /\ e.side \in {"debit", "credit"}
                              /\ e.amount \in Nat \ {0}
    BY <1>1, TwoEntries
  <2> HIDE DEF entries
  <2>3. LedgerStep /\ ClaimStep
    BY <1>2, <2>1, <2>2, BankPostIsStep
  <2>4. QED
    BY <2>1, <2>3 DEF BankBookStep, RowsStep, BankInv
<1>5. QED
  BY <1>3, <1>4

\* reconcile_bank_transfer: two postings on two lines, which differ in their account.
LEMMA TransferIsStep ==
  ASSUME BankInv, NEW out, NEW inc, NEW amount \in Nat \ {0}, NEW reference,
         ReconcileBankTransfer(out, inc, amount, reference)
  PROVE  BankBookStep
<1> DEFINE outKey == <<"bank-event", reference, "out">>
           incKey == <<"bank-event", reference, "in">>
           outEntries == {Dr("BANK_TRANSFER", amount), Cr("BANK", amount)}
           incEntries == {Dr("BANK", amount), Cr("BANK_TRANSFER", amount)}
           outLines == Lines(outKey, out.date, outEntries)
           incLines == Lines(incKey, inc.date, incEntries)
           outClaim == Claim("transfer_out", outKey, <<"transfer", reference>>, out, amount)
           incClaim == Claim("transfer_in", incKey, <<"transfer", reference>>, inc, amount)
<1>1. /\ out \in bank /\ inc \in bank /\ out.account # inc.account
      /\ amount <= Unallocated(out) /\ amount <= Unallocated(inc)
      /\ OpenPeriod(out.date) /\ OpenPeriod(inc.date)
      /\ journal' = journal \cup outLines \cup incLines
      /\ claims' = claims \cup {outClaim, incClaim}
      /\ UNCHANGED <<today, closings, bank, openings>>
  BY DEF ReconcileBankTransfer, TransferPosted
<1>2. out.date \in Nat /\ inc.date \in Nat
  BY <1>1 DEF BankInv, BankLine, Days
<1>3. /\ IsFiniteSet(outEntries) /\ IsFiniteSet(incEntries)
      /\ \A e \in outEntries \cup incEntries :
           /\ e.account \in Accounts /\ e.side \in {"debit", "credit"} /\ e.amount \in Nat \ {0}
  <2>1. "BANK" \in Accounts /\ "BANK_TRANSFER" \in Accounts
    BY DEF Accounts
  <2>2. QED
    BY <2>1, TwoEntries
<1>4. ClaimOK(outClaim) /\ ClaimOK(incClaim) /\ outClaim.line = out /\ incClaim.line = inc
      /\ outClaim.amount = amount /\ incClaim.amount = amount
  BY <1>1 DEF ClaimOK, Claim, ClaimKinds
<1> HIDE DEF outEntries, incEntries, outClaim, incClaim, outKey, incKey
<1>5. /\ IsFiniteSet(outLines) /\ \A l \in outLines : LineOK(l) /\ l.date = out.date
      /\ IsFiniteSet(incLines) /\ \A l \in incLines : LineOK(l) /\ l.date = inc.date
  BY <1>2, <1>3, LinesOK
<1> HIDE DEF outLines, incLines
<1>6. LedgerStep
  <2>1. IsFiniteSet(outLines \cup incLines)
    BY <1>5, FS_Union
  <2>2. journal' \ journal \subseteq outLines \cup incLines
    BY <1>1
  <2>3. IsFiniteSet(journal' \ journal)
    BY <2>1, <2>2, FS_Subset
  <2>4. \A l \in journal' \ journal : LineOK(l) /\ OpenPeriod(l.date)
    BY <1>1, <1>5, <2>2
  <2>5. QED
    BY <1>1, <2>3, <2>4 DEF LedgerStep, PostingStep, BankInv, LedgerInv
<1>7. ClaimStep
  <2>1. claims' \ claims \subseteq {outClaim} \cup {incClaim}
    BY <1>1
  <2>2. IsFiniteSet({outClaim} \cup {incClaim})
    BY FS_Singleton, FS_Union
  <2>3. IsFiniteSet(claims' \ claims)
    BY <2>1, <2>2, FS_Subset
  <2>4. \A c \in claims' \ claims : ClaimOK(c) /\ c.amount <= Unallocated(c.line)
    BY <1>1, <1>4, <2>1
  <2>5. \A c, d \in claims' \ claims : c.line = d.line => c = d
    BY <1>1, <1>4, <2>1
  <2>6. QED
    BY <1>1, <2>3, <2>4, <2>5 DEF ClaimStep
<1>8. QED
  BY <1>1, <1>6, <1>7 DEF BankBookStep, RowsStep, BankInv

\* record_bank_opening, money and overdraft.
LEMMA OpeningIsStep ==
  ASSUME BankInv, NEW account \in BankAccounts, NEW date \in Days,
         NEW direction \in {"in", "out"}, NEW amount \in Nat \ {0},
         RecordBankOpening(account, date, direction, amount)
  PROVE  BankBookStep
<1> DEFINE entries == IF direction = "in" THEN {Dr("BANK", amount), Cr("EQUITY", amount)}
                                          ELSE {Dr("EQUITY", amount), Cr("BANK", amount)}
           row == [account |-> account, date |-> date, direction |-> direction,
                   amount |-> amount]
<1>1. /\ Post(<<"bank-opening", account>>, date, entries)
      /\ openings' = openings \cup {row}
      /\ UNCHANGED <<today, closings, bank, claims>>
  BY DEF RecordBankOpening, OpeningPosted
<1>2. /\ IsFiniteSet(entries)
      /\ \A e \in entries : /\ e.account \in Accounts /\ e.side \in {"debit", "credit"}
                            /\ e.amount \in Nat \ {0}
  <2>1. "BANK" \in Accounts /\ "EQUITY" \in Accounts
    BY DEF Accounts
  <2>2. CASE direction = "in"
    BY <2>1, <2>2, TwoEntries
  <2>3. CASE direction # "in"
    BY <2>1, <2>3, TwoEntries
  <2>4. QED
    BY <2>2, <2>3
<1>3. row \in OpeningRow /\ date \in Nat
  BY DEF OpeningRow, Days
<1> HIDE DEF entries, row
<1>4. LedgerStep
  BY <1>1, <1>2, <1>3, PostIsStep DEF LedgerStep, BankInv
<1>5. ClaimStep
  BY <1>1, NoClaimStep
<1>6. QED
  BY <1>1, <1>3, <1>4, <1>5 DEF BankBookStep, RowsStep, BankInv

\* import_bank_csv.
LEMMA ImportIsStep ==
  ASSUME BankInv, NEW file \in Statements, ImportBankCsv(file)
  PROVE  BankBookStep
<1>1. bank' = bank \cup file /\ UNCHANGED <<today, journal, closings, claims, openings>>
  BY DEF ImportBankCsv
<1>2. file \subseteq BankLine
  BY BankAssumption
<1>3. LedgerStep
  BY <1>1, QuietIsStep DEF BankInv, LedgerInv, LedgerStep
<1>4. QED
  BY <1>1, <1>2, <1>3, NoClaimStep DEF BankBookStep, RowsStep, BankInv

\* Every step of the bank book is a bank book step in the sense of the summary.
LEMMA BankNextIsStep ==
  ASSUME BankInv, BankNext
  PROVE  BankBookStep
<1>1. CASE NextDay /\ UNCHANGED bankVars
  <2>1. today' \in Nat /\ UNCHANGED <<journal, closings, bank, claims, openings>>
    BY <1>1 DEF NextDay, bankVars, BankInv, LedgerInv
  <2>2. LedgerStep
    BY <2>1, QuietIsStep DEF BankInv, LedgerStep
  <2>3. QED
    BY <2>1, <2>2, NoClaimStep DEF BankBookStep, RowsStep, BankInv
<1>2. CASE \E end \in MonthEnds : Close(end, BankBlocked(end)) /\ UNCHANGED bankVars
  <2>1. LedgerStep
    BY <1>2, CloseIsStep DEF LedgerStep
  <2>2. UNCHANGED <<bank, claims, openings>>
    BY <1>2 DEF bankVars
  <2>3. QED
    BY <2>1, <2>2, NoClaimStep DEF BankBookStep, RowsStep, BankInv
<1>3. CASE \E file \in Statements : ImportBankCsv(file)
  BY <1>3, ImportIsStep
<1>4. CASE BankStep
  <2>1. Amounts \subseteq Nat \ {0}
    BY BankAssumption
  <2>2. CASE \E line \in bank, amount \in Amounts, reference \in References :
                \/ ReconcileBankFee(line, amount, reference)
                \/ ReconcileOwnerFunding(line, amount, reference)
    BY <2>1, <2>2, AdjustmentIsStep
  <2>3. CASE \E out, inc \in bank, amount \in Amounts, reference \in References :
                ReconcileBankTransfer(out, inc, amount, reference)
    BY <2>1, <2>3, TransferIsStep
  <2>4. CASE \E account \in BankAccounts, date \in Days, direction \in {"in", "out"},
                amount \in Amounts : RecordBankOpening(account, date, direction, amount)
    BY <2>1, <2>4, OpeningIsStep
  <2>5. QED
    BY <1>4, <2>2, <2>3, <2>4 DEF BankStep
<1>5. QED
  BY <1>1, <1>2, <1>3, <1>4 DEF BankNext

-----------------------------------------------------------------------------
(* The theorems. *)

\* Initially there is nothing.
LEMMA BankInvInit == BankInit => BankInv /\ SnapshotsHold /\ NoLineOverclaimed
BY FS_EmptySet DEF BankInit, LedgerInit, BankInv, LedgerInv, SnapshotsHold, NoLineOverclaimed

\* A stuttering step changes nothing.
LEMMA BankInvStutter ==
  ASSUME BankInv, UNCHANGED <<ledgerVars, bankVars>>
  PROVE  /\ BankInv'
         /\ SnapshotsHold => SnapshotsHold'
         /\ NoLineOverclaimed => NoLineOverclaimed'
<1>1. BankBookStep
  <2>1. UNCHANGED <<today, journal, closings, bank, claims, openings>>
    BY DEF ledgerVars, bankVars
  <2>2. LedgerStep
    BY <2>1, QuietIsStep DEF BankInv, LedgerInv, LedgerStep
  <2>3. QED
    BY <2>1, <2>2, NoClaimStep DEF BankBookStep, RowsStep, BankInv
<1>2. LedgerStep /\ LedgerInv
  BY <1>1 DEF BankBookStep, BankInv
<1>3. QED
  BY <1>1, <1>2, BankInvStep, SnapshotsHoldStep, NoLineOverclaimedStep

\* The inductive invariant: types, snapshots and claims hold together.
LEMMA BankInvariant == BankSpec => [](BankInv /\ SnapshotsHold /\ NoLineOverclaimed)
<1>1. BankInit => BankInv /\ SnapshotsHold /\ NoLineOverclaimed
  BY BankInvInit
<1>2. /\ BankInv /\ SnapshotsHold /\ NoLineOverclaimed
      /\ [BankNext]_<<ledgerVars, bankVars>>
      => (BankInv /\ SnapshotsHold /\ NoLineOverclaimed)'
  <2> SUFFICES ASSUME BankInv, SnapshotsHold, NoLineOverclaimed,
                      [BankNext]_<<ledgerVars, bankVars>>
               PROVE  (BankInv /\ SnapshotsHold /\ NoLineOverclaimed)'
    OBVIOUS
  <2>1. CASE BankNext
    <3>1. BankBookStep
      BY <2>1, BankNextIsStep
    <3>2. LedgerStep /\ LedgerInv
      BY <3>1 DEF BankBookStep, BankInv
    <3>3. QED
      BY <3>1, <3>2, BankInvStep, SnapshotsHoldStep, NoLineOverclaimedStep
  <2>2. CASE UNCHANGED <<ledgerVars, bankVars>>
    BY <2>2, BankInvStutter
  <2>3. QED
    BY <2>1, <2>2
<1>3. QED
  BY <1>1, <1>2, PTL DEF BankSpec

\* Type correctness of the bank book, for every value of the constants.
THEOREM BankTypeCorrect == BankSpec => []BankTypeOK
BY BankInvariant, BankInvImpliesTypeOK, PTL

\* No interleaving of imports, fees, fundings and transfers uses more of a bank line
\* than the bank reported (_bank_post, reconcile_bank_transfer).
THEOREM NoLineIsOverclaimed == BankSpec => []NoLineOverclaimed
BY BankInvariant, PTL

\* The balances recorded by close_month stay true whatever is posted, opened or
\* imported afterwards.
THEOREM SnapshotsAlwaysHold == BankSpec => []SnapshotsHold
BY BankInvariant, PTL

\* No service changes a journal line of a closed month or reopens a month.
THEOREM HistoryIsFrozen == BankSpec => HistoryFrozen
<1>1. /\ BankInv
      /\ [BankNext]_<<ledgerVars, bankVars>>
      => [/\ closings \subseteq closings'
          /\ \A c \in closings : Upto(journal', c.end) = Upto(journal, c.end)]_ledgerVars
  <2> SUFFICES ASSUME BankInv, BankNext
               PROVE  /\ closings \subseteq closings'
                      /\ \A c \in closings : Upto(journal', c.end) = Upto(journal, c.end)
    BY DEF ledgerVars
  <2>1. BankBookStep
    BY BankNextIsStep
  <2>2. QED
    BY <2>1, FrozenLinesStep DEF BankBookStep, BankInv, LedgerInv
<1>2. QED
  BY <1>1, BankInvariant, PTL DEF BankSpec, HistoryFrozen
=============================================================================
