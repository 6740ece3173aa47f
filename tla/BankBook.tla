------------------------------ MODULE BankBook ------------------------------
(***************************************************************************)
(* Bank evidence and what it is used for (finance/services.py              *)
(* import_bank_csv, _bank_post and the services on bank lines alone).      *)
(*                                                                         *)
(* A bank line is an imported BankTransaction; it never changes. A claim   *)
(* is a row that uses part of a line: an Allocation, a BillPayment, or a   *)
(* BankPosting together with the row that belongs to it (CustomerAdvance,  *)
(* CustomerRefund, WithholdingSettlement, TaxRemittance). The signed       *)
(* amount of the code is a direction and a magnitude here.                 *)
(***************************************************************************)
EXTENDS Ledger

CONSTANTS
  BankAccounts,   \* BankAccount rows
  References,     \* references a user types for a bank posting
  Statements,     \* the statement files a user may import: sets of bank lines
  Amounts         \* the positive amounts a user may type

BankLine == [account : BankAccounts, reference : STRING, date : Days,
             direction : {"in", "out"}, amount : Nat \ {0}]

ASSUME BankAssumption ==
  /\ Amounts \subseteq Nat \ {0}
  /\ \A file \in Statements : file \subseteq BankLine /\ IsFiniteSet(file)

VARIABLES
  bank,           \* imported BankTransaction rows
  claims,         \* the uses made of bank lines
  openings        \* BankOpening rows; BankAccount.opening_date is the date of its row

bankVars == <<bank, claims, openings>>

-----------------------------------------------------------------------------
\* BankTransaction.allocated_amount and unallocated_amount, in the line's direction.
Claimed(line) == Total({c \in claims : c.line = line})

\* Faulty Unallocated: bank postings are forgotten, only allocations and payments count.
UnallocatedWithoutPostings(line) ==
  line.amount - Total({c \in claims : c.line = line /\ c.kind \in {"receipt", "bill_payment"}})
Unallocated(line) == line.amount - Claimed(line)

\* pending_bank_transactions: lines with a remainder.
PendingBankTransactions == {line \in bank : Unallocated(line) # 0}

ClaimKeys == {c.key : c \in claims}

Claim(kind, key, doc, line, amount) ==
  [kind |-> kind, key |-> key, doc |-> doc, line |-> line, amount |-> amount]

\* Sum("amount") over the claims of a kind whose bank line is dated up to a day.
ClaimsOf(kind, day) == Total({c \in claims : c.kind = kind /\ c.line.date <= day})

OpeningOf(account) == {o \in openings : o.account = account}

\* A row with these facts may be created: no row of the account has the reference
\* with other facts, and a new row is not in the future, not in a closed period
\* and not before the account's opening balance (BankTransaction.clean).
Importable(line, known) ==
  /\ \A other \in known :
       other.account = line.account /\ other.reference = line.reference => other = line
  /\ line \notin bank =>
       /\ OpenPeriod(line.date)
       /\ line.date <= today
       /\ \A o \in OpeningOf(line.account) : o.date <= line.date

\* import_bank_csv: a file is imported whole, known rows are skipped, and one bad
\* row (a known reference with other facts included) rolls the whole file back.
ImportBankCsv(file) ==
  /\ \A line \in file : Importable(line, bank \cup file)
  /\ bank' = bank \cup file
  /\ UNCHANGED <<today, journal, closings, claims, openings>>

\* What _bank_post writes: the journal on the line's date and the BankPosting.
BankPosted(line, amount, kind, reference, doc, entries) ==
  LET key == <<"bank-event", reference>> IN
  /\ key \notin ClaimKeys
  /\ Post(key, line.date, entries)
  /\ claims' = claims \cup {Claim(kind, key, doc, line, amount)}

\* _bank_post: part of a line's remainder, in the line's direction, is posted under a
\* reference. A reference already used returns the old row (a stutter) or is refused.
BankPost(line, direction, amount, kind, reference, doc, entries) ==
  /\ line \in bank
  /\ line.date <= today
  /\ line.direction = direction
  /\ amount <= Unallocated(line)
  /\ BankPosted(line, amount, kind, reference, doc, entries)

\* reconcile_bank_adjustment: a bank fee, or an owner's funding (owner only).
ReconcileBankFee(line, amount, reference) ==
  /\ BankPost(line, "out", amount, "bank_fee", reference, <<"fee">>,
              {Dr("EXPENSE", amount), Cr("BANK", amount)})
  /\ UNCHANGED <<today, closings, bank, openings>>

ReconcileOwnerFunding(line, amount, reference) ==
  /\ BankPost(line, "in", amount, "owner_funding", reference, <<"funding">>,
              {Dr("BANK", amount), Cr("EQUITY", amount)})
  /\ UNCHANGED <<today, closings, bank, openings>>

\* The two legs of a transfer, each with its own reference and journal.
TransferPosted(out, inc, amount, reference) ==
  LET outKey == <<"bank-event", reference, "out">>
      incKey == <<"bank-event", reference, "in">>
  IN
  /\ {outKey, incKey} \cap ClaimKeys = {}
  /\ OpenPeriod(out.date) /\ OpenPeriod(inc.date)
  /\ journal' = journal
       \cup Lines(outKey, out.date, {Dr("BANK_TRANSFER", amount), Cr("BANK", amount)})
       \cup Lines(incKey, inc.date, {Dr("BANK", amount), Cr("BANK_TRANSFER", amount)})
  /\ claims' = claims \cup
       {Claim("transfer_out", outKey, <<"transfer", reference>>, out, amount),
        Claim("transfer_in", incKey, <<"transfer", reference>>, inc, amount)}
  /\ UNCHANGED <<today, closings, bank, openings>>

\* reconcile_bank_transfer: both legs in one transaction, or none.
ReconcileBankTransfer(out, inc, amount, reference) ==
  /\ {out, inc} \subseteq bank
  /\ out.account # inc.account
  /\ out.direction = "out" /\ inc.direction = "in"
  /\ inc.date >= out.date /\ inc.date <= today
  /\ amount <= Unallocated(out) /\ amount <= Unallocated(inc)
  /\ TransferPosted(out, inc, amount, reference)

\* The journal of an opening balance and its row; the account takes its date.
OpeningPosted(account, date, direction, amount, entries) ==
  /\ Post(<<"bank-opening", account>>, date, entries)
  /\ openings' = openings \cup
       {[account |-> account, date |-> date, direction |-> direction, amount |-> amount]}
  /\ UNCHANGED <<today, closings, bank, claims>>

\* Faulty RecordBankOpening: an overdraft is posted as money.
RecordBankOpeningUnsigned(account, date, direction, amount) ==
  /\ date <= today /\ OpeningOf(account) = {}
  /\ ~ \E line \in bank : line.account = account /\ line.date < date
  /\ ~ \E l \in journal : l.date < date
  /\ OpeningPosted(account, date, direction, amount, {Dr("BANK", amount), Cr("EQUITY", amount)})

\* record_bank_opening: one per account, of a day before which the account has no bank
\* line and the organization no journal. A negative balance is direction "out".
RecordBankOpening(account, date, direction, amount) ==
  /\ date <= today
  /\ OpeningOf(account) = {}
  /\ ~ \E line \in bank : line.account = account /\ line.date < date
  /\ ~ \E l \in journal : l.date < date
  /\ OpeningPosted(account, date, direction, amount,
                   IF direction = "in" THEN {Dr("BANK", amount), Cr("EQUITY", amount)}
                                       ELSE {Dr("EQUITY", amount), Cr("BANK", amount)})

-----------------------------------------------------------------------------
\* The blockers of _close_blockers that concern bank lines.
BankBlocked(end) == \E line \in PendingBankTransactions : line.date <= end

BankInit == LedgerInit /\ bank = {} /\ claims = {} /\ openings = {}

\* The services on bank lines alone, each with the inputs a user may choose.
BankStep ==
  \/ \E line \in bank, amount \in Amounts, reference \in References :
       \/ ReconcileBankFee(line, amount, reference)
       \/ ReconcileOwnerFunding(line, amount, reference)
  \/ \E out, inc \in bank, amount \in Amounts, reference \in References :
       ReconcileBankTransfer(out, inc, amount, reference)
  \/ \E account \in BankAccounts, date \in Days, direction \in {"in", "out"}, amount \in Amounts :
       RecordBankOpening(account, date, direction, amount)

BankNext ==
  \/ NextDay /\ UNCHANGED bankVars
  \/ \E end \in MonthEnds : Close(end, BankBlocked(end)) /\ UNCHANGED bankVars
  \/ \E file \in Statements : ImportBankCsv(file)
  \/ BankStep

BankSpec == BankInit /\ [][BankNext]_<<ledgerVars, bankVars>>

-----------------------------------------------------------------------------
(* Properties *)

ClaimKinds == {"receipt", "bill_payment", "bank_fee", "owner_funding", "transfer_out",
               "transfer_in", "customer_advance", "customer_refund", "withheld_supplier",
               "tax_remittance"}

BankTypeOK ==
  /\ LedgerTypeOK
  /\ bank \subseteq BankLine
  /\ \A c \in claims : c.kind \in ClaimKinds /\ c.line \in bank /\ c.amount \in Nat \ {0}
  /\ openings \subseteq [account : BankAccounts, date : Days, direction : {"in", "out"},
                         amount : Nat \ {0}]

\* However receipts, fees, transfers and refunds interleave on a bank line, together
\* they use no more of it than the bank reported (reconcile_receipt, _bank_post).
NoLineOverclaimed == \A line \in bank : Claimed(line) <= line.amount

\* On every day the ledger's bank balance is what the reviewed openings and the claimed
\* bank lines up to that day add up to, which _close_blockers never compares; and no line
\* is dated before the opening balance of its account, which would contain it already,
\* whichever of the two came first. Money in transit between accounts is never negative
\* as of any day, and none stays there once both legs' days have passed
\* (reconcile_bank_transfer).
Moved(rows, direction) == Total({r \in rows : r.direction = direction})
ClaimedLines(direction, day) ==
  Total({c \in claims : c.line.direction = direction /\ c.line.date <= day})
BankTiesOut ==
  /\ \A day \in Days :
       LET opened == {o \in openings : o.date <= day} IN
       Balance("BANK", day) =
         Moved(opened, "in") - Moved(opened, "out")
           + ClaimedLines("in", day) - ClaimedLines("out", day)
  /\ \A o \in openings : \A line \in bank : line.account = o.account => o.date <= line.date
  /\ \A day \in Days : Balance("BANK_TRANSFER", day) >= 0
  /\ Balance("BANK_TRANSFER", MaxDay) = 0

\* services.py:725 "Opening balances cannot be inserted after any posting and silently
\* recast old reports": an opening leaves the balances of every day that already had an
\* operational posting as they were reported.
OpeningsRecastNothing ==
  [][openings' # openings =>
       \A l \in journal : l.key[1] # "bank-opening" =>
          TrialBalance(l.date)' = TrialBalance(l.date)]_<<ledgerVars, bankVars>>
=============================================================================
