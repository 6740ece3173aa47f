------------------------------ MODULE MCBankBook ------------------------------
(* The bank book for TLC: what is posted against two accounts, the way of statement files
   into it, the reading of what files say, and the forms finance fills in. A behaviour
   follows one of them and the others rest. *)
EXTENDS FinanceDesk, Readings

CONSTANT Parts    \* the components this instance has
VARIABLE part     \* the one followed

-----------------------------------------------------------------------------
CONSTANTS A, B      \* two bank accounts

BankRow(account, reference, date, direction, amount) ==
  [account |-> account, reference |-> reference, date |-> date,
   direction |-> direction, amount |-> amount]

OutOfA == BankRow(A, "a1", 2, "out", 2)
IntoB  == BankRow(B, "b1", 3, "in", 2)

\* An outgoing line, an incoming one, a file repeating the first with a new line, and
\* a file whose second row reuses a reference with another amount.
TwoAccountStatements ==
  { {OutOfA}, {IntoB}, {OutOfA, BankRow(A, "a2", 1, "in", 1)},
    {BankRow(B, "b2", 1, "in", 1), BankRow(B, "b1", 3, "in", 1)} }

-----------------------------------------------------------------------------
Movement(date, amount, reference) == [date |-> date, amount |-> amount, reference |-> reference]

\* Three movements that look alike, of which the bank numbers the second, which both files
\* tell of, and a fourth in the next month.
LookAlikes == << Movement(2, 1, NoReference), Movement(2, 1, "r1"), Movement(2, 1, NoReference),
                 Movement(3, -1, NoReference) >>
Overlapping == { <<1, 3>>, <<2, 4>> }

\* A deposit, its withdrawal and the same deposit again, all without a number.
ThereAndBack == << Movement(1, 1, NoReference), Movement(1, -1, NoReference),
                   Movement(1, 1, NoReference) >>
Adjacent == { <<1, 1>>, <<2, 3>> }

-----------------------------------------------------------------------------
CONSTANTS Deposit, Withdrawal, Olga, Fitri, p1, p2

\* A deposit of three units and a withdrawal of two; an owner and a finance user.
LineAmounts == [line \in FormLines |-> IF line = Deposit THEN 3 ELSE -2]
FormRoles   == [u \in FormUsers |-> IF u = Olga THEN "owner" ELSE "finance"]

\* Orders and bills of two years, the second closed; one order with an earlier service.
FilledIn ==
  {[kind |-> kind, year |-> year, date |-> 2, due |-> 2, service |-> service] :
     kind \in {"INV", "BILL"}, year \in {1, 2}, service \in {1, 3}}

-----------------------------------------------------------------------------
CONSTANTS order, bill, s1, s2

\* A letter, the same bytes under another name, a photograph, and files that are refused.
Letter == [suffix |-> "pdf", signature |-> "pdf", size |-> 1, hash |-> "letter",
           readable |-> TRUE, encrypted |-> FALSE, pages |-> 2, active |-> FALSE,
           format |-> "none", megapixels |-> 0, frames |-> 0]
Photo  == [Letter EXCEPT !.suffix = "jpg", !.signature = "jpeg", !.hash = "photo",
           !.format = "jpeg", !.megapixels = 12, !.frames = 1]
Photo2 == [Photo EXCEPT !.suffix = "jpeg"]
Uploaded ==
  {Letter, Photo, Photo2, [Letter EXCEPT !.suffix = "jpg"], [Letter EXCEPT !.active = TRUE],
   [Letter EXCEPT !.size = MaxUpload + 1], [Photo EXCEPT !.frames = 2],
   [Photo EXCEPT !.readable = FALSE]}

-----------------------------------------------------------------------------
\* Two digits, of which each run of digits is made.
ZeroAndOne == [d \in {"0", "1"} |-> IF d = "1" THEN 1 ELSE 0]

-----------------------------------------------------------------------------
BankPartsInit == IntakeInit /\ ReadingInit /\ FormsInit /\ part \in Parts

\* The history of the intake ends on the third day.
BankPartsNext ==
  /\ UNCHANGED part
  /\ part # "reading" => UNCHANGED readingVars
  /\ part # "matching" => UNCHANGED matchVars
  /\ part # "numbering" => UNCHANGED numberVars
  /\ part # "attaching" => UNCHANGED attachVars
  /\ part \notin {"book", "intake"} => UNCHANGED <<ledgerVars, bankVars, intakeVars>>
  /\ \/ part = "reading" /\ ReadingNext
     \/ part = "matching" /\ MatchNext
     \/ part = "numbering" /\ NumberNext
     \/ part = "attaching" /\ AttachNext
     \/ part = "book" /\ BankNext /\ UNCHANGED intakeVars
     \/ part = "intake" /\ IntakeNext /\ today' <= 3

BankPartsSpec == BankPartsInit /\ [][BankPartsNext]_<<ledgerVars, bankVars, intakeVars, readingVars, formsVars, part>>

=============================================================================
