--------------------------- MODULE StatementIntake ---------------------------
(***************************************************************************)
(* Bank statements from the upload of a file to its confirmation           *)
(* (webapp/statement_views.py, webapp/statement_import.py,                 *)
(* webapp/models.py StatementImport), in front of BankBook.                *)
(*                                                                         *)
(* The bank keeps one history of an account; a file is a stretch of it, as *)
(* the bank exports it. A user chooses by a mapping how rows are named and *)
(* which of them are taken, sees the result, and confirms it with a token  *)
(* that is good for that user, file and mapping, for half an hour.         *)
(***************************************************************************)
EXTENDS BankBook, Sequences

CONSTANTS
  History,    \* what happened on the account: day, signed amount, the bank's reference
  Exports,    \* the stretches <<first, last>> that were downloaded
  Modes,      \* the values of reference_mode that users choose
  NoReference,
  MaxPreviews \* bound on the tokens in force at a time

Account == CHOOSE a \in BankAccounts : TRUE
Moments == DOMAIN History

ASSUME IntakeAssumption ==
  /\ BankAccounts # {} /\ Moments = 1..Len(History) /\ Len(History) \in Nat
  /\ \A i \in Moments : History[i].amount \in Int \ {0} /\ History[i].date \in Days
  /\ \A i, j \in Moments : i <= j => History[i].date <= History[j].date
  /\ Exports \subseteq Moments \X Moments /\ MaxPreviews \in Nat

VARIABLES
  confirmed,   \* the mapping each file was confirmed with, or Pending; by file
  stored,      \* the bytes kept for a file: "none", "as uploaded" or "changed"
  previews     \* preview tokens in force: file and mapping

intakeVars == <<confirmed, stored, previews>>

Pending == [mode |-> "pending", column |-> FALSE, first |-> 1, last |-> 0]

\* The choices of MappingForm that matter: how rows are identified, whether a column is
\* chosen for the bank's reference, which one way of the two may leave out, and the data
\* rows.
MappingsOf(file) ==
  {m \in [mode : Modes, column : BOOLEAN, first : Moments, last : Moments] :
     /\ m.mode = "bank_reference" => m.column
     /\ file[1] <= m.first /\ m.first <= m.last /\ m.last <= file[2]}

-----------------------------------------------------------------------------
\* The running balance after each movement, which the bank prints on its row.
RunningBalance[i \in 0..Len(History)] ==
  IF i = 0 THEN 0 ELSE RunningBalance[i - 1] + History[i].amount

\* Faulty Identity: the balance is not part of the fingerprint.
IdentityOfDay(i, m) ==
  IF m.column /\ History[i].reference # NoReference
  THEN <<"reference", History[i].reference>>
  ELSE <<"fingerprint", History[i].date, History[i].amount>>

\* The reference of a row: the bank's own where the mapping reads it and the row has one;
\* else the day, the amount and the running balance (time of day and description are the
\* same for all rows here).
Identity(i, m) ==
  IF m.column /\ History[i].reference # NoReference
  THEN <<"reference", History[i].reference>>
  ELSE <<"fingerprint", History[i].date, History[i].amount, RunningBalance[i]>>

\* No two movements have the bank's number, or day, amount and balance, in common.
MovementsToldApart ==
  \A i, j \in Moments, m, n \in [column : BOOLEAN] : Identity(i, m) = Identity(j, n) => i = j

\* Debit and credit columns, or a signed amount, become a direction and a magnitude.
Facts(i) ==
  [date |-> History[i].date,
   direction |-> IF History[i].amount > 0 THEN "in" ELSE "out",
   amount |-> IF History[i].amount > 0 THEN History[i].amount ELSE - History[i].amount]

\* The line of a movement that is told under a name.
Line(i, name) ==
  [account |-> Account, reference |-> name, date |-> Facts(i).date,
   direction |-> Facts(i).direction, amount |-> Facts(i).amount]

\* normalize_statement finds no error: no future day, no empty and no repeated reference.
Normalizes(m) ==
  \A i \in m.first..m.last :
    /\ History[i].date <= today
    /\ m.mode = "bank_reference" => History[i].reference # NoReference
    /\ \A j \in m.first..(i - 1) : Identity(j, m) # Identity(i, m)

CanonicalCsv(m) == {Line(i, Identity(i, m)) : i \in m.first..m.last}

-----------------------------------------------------------------------------
\* upload: the bytes are kept once per account and digest; whoever uploads them again is
\* shown the statement that exists. A file can only tell what has happened.
Upload(file) ==
  /\ History[file[2]].date <= today
  /\ stored' = IF stored[file] = "none" THEN [stored EXCEPT ![file] = "as uploaded"] ELSE stored
  /\ UNCHANGED <<confirmed, previews>> /\ UNCHANGED <<ledgerVars, bankVars>>

\* A disk, a restore or a person changes what the private storage holds.
StorageChanges(file) ==
  /\ stored[file] = "as uploaded"
  /\ stored' = [stored EXCEPT ![file] = "changed"]
  /\ UNCHANGED <<confirmed, previews>> /\ UNCHANGED <<ledgerVars, bankVars>>

\* preview reads the rows kept in the database, not the file.
Preview(file, m) ==
  /\ stored[file] # "none" /\ confirmed[file] = Pending
  /\ Normalizes(m) /\ Cardinality(previews) < MaxPreviews
  /\ previews' = previews \cup {<<file, m>>}
  /\ UNCHANGED <<confirmed, stored>> /\ UNCHANGED <<ledgerVars, bankVars>>

Expire(preview) ==
  /\ previews' = previews \ {preview}
  /\ UNCHANGED <<confirmed, stored>> /\ UNCHANGED <<ledgerVars, bankVars>>

\* preview, action "confirm": once per file, from the bytes that were uploaded, whole or
\* not at all. A second confirmation is told of the first.
Confirm(file, m) ==
  /\ <<file, m>> \in previews
  /\ confirmed[file] = Pending
  /\ stored[file] = "as uploaded"
  /\ Normalizes(m)
  /\ ImportBankCsv(CanonicalCsv(m))
  /\ confirmed' = [confirmed EXCEPT ![file] = m]
  /\ UNCHANGED <<stored, previews>>

IntakeInit ==
  /\ BankInit
  /\ confirmed = [file \in Exports |-> Pending]
  /\ stored = [file \in Exports |-> "none"]
  /\ previews = {}

IntakeNext ==
  \/ NextDay /\ UNCHANGED <<bankVars, intakeVars>>
  \/ \E end \in MonthEnds : Close(end, BankBlocked(end)) /\ UNCHANGED <<bankVars, intakeVars>>
  \/ \E file \in Exports :
       \/ Upload(file) \/ StorageChanges(file)
       \/ \E m \in MappingsOf(file) : Preview(file, m) \/ Confirm(file, m)
  \/ \E preview \in previews : Expire(preview)

IntakeSpec == IntakeInit /\ [][IntakeNext]_<<ledgerVars, bankVars, intakeVars>>

-----------------------------------------------------------------------------
IntakeTypeOK ==
  /\ \A file \in Exports : confirmed[file] = Pending \/ confirmed[file] \in MappingsOf(file)
  /\ stored \in [Exports -> {"none", "as uploaded", "changed"}]
  /\ \A p \in previews : p[2] \in MappingsOf(p[1])

\* What the confirmed statements together tell of the account: movements, by the names they
\* are told under.
Tellings ==
  UNION {{[movement |-> i, name |-> Identity(i, confirmed[file])] :
            i \in confirmed[file].first..confirmed[file].last} : file \in Exports}

\* The bank's reference was used in the same way for overlapping files, as the form and
\* docs/FINANCE-OPERATING-GUIDE.md:15 ask. Nothing in the code makes users do so.
ToldUnderOneName == \A t, u \in Tellings : t.movement = u.movement => t = u

\* A movement that confirmed statements tell of is in the books once for every name it was
\* told under, and so just once where users keep to one way of naming: files that overlap
\* do not enter it twice, and no movement is taken for an earlier one that looks alike (the
\* references of normalize_statement, import_bank_csv; the audit of 2026-09-09).
BooksMatchStatements ==
  \A i \in Moments :
    LET lines == {line \in bank : [date |-> line.date, direction |-> line.direction,
                                   amount |-> line.amount] = Facts(i)}
        named == {t \in Tellings : Facts(t.movement) = Facts(i)}
    IN  /\ Cardinality(lines) = Cardinality(named)
        /\ ToldUnderOneName => Cardinality(lines) = Cardinality({t.movement : t \in named})
=============================================================================
