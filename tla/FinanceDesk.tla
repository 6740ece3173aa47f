----------------------------- MODULE FinanceDesk -----------------------------
(***************************************************************************)
(* What finance is told and enters: the bank's statements and the forms,   *)
(* side by side (webapp/statement_views.py, webapp/operations_views.py,    *)
(* webapp/views.py). Requests of the two share no row that the other       *)
(* writes; they interleave in any order.                                   *)
(***************************************************************************)
EXTENDS StatementIntake, FinanceForms

booksVars == <<ledgerVars, bankVars, intakeVars>>

DeskInit == IntakeInit /\ FormsInit

DeskNext ==
  \/ IntakeNext /\ UNCHANGED formsVars
  \/ FormsNext /\ UNCHANGED booksVars

DeskSpec == DeskInit /\ [][DeskNext]_<<booksVars, formsVars>>

-----------------------------------------------------------------------------
\* What the bank and the users tell is in the books once: each movement, from however
\* many overlapping files it came (once for every name, where users name it in two ways),
\* and each form, however often it was sent
\* (webapp/statement_import.py, webapp/operations_views.py, core/numbering.py,
\* evidence/services.py).
ToldOnceRecordedOnce == BooksMatchStatements /\ FormsRecordOnce
=============================================================================
