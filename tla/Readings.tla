------------------------------ MODULE Readings ------------------------------
(***************************************************************************)
(* How the cells and lines of files become amounts, days and rows          *)
(* (webapp/statement_import.py, finance/services.py _parse_csv,            *)
(* marketing/imports.py, director/marketing_import.py). Somebody writes an *)
(* amount, a day or the lines of a file, one symbol after the other; the   *)
(* readers are functions of what has been written.                         *)
(*                                                                         *)
(* Digits are symbols with a value; a run of digits in a day is a symbol.  *)
(* Blanks and the prefix Rp, which parse_money removes, are left out.      *)
(***************************************************************************)
EXTENDS Integers, Sequences, FiniteSets

CONSTANTS DigitValue,                       \* the value of each digit
          MaxAmount, MaxStamp, MaxLines,    \* how much is written
          MaxRows, HeaderLines              \* MAX_ROWS, and where a heading is looked for (40)

Digits == DOMAIN DigitValue
Marks  == {".", ",", "-", "(", ")"}
NoMark == "none"

\* There is a nought, and no two digits have one value.
ASSUME ReadingAssumption ==
  /\ DigitValue \in [Digits -> 0..9] /\ Digits \cap (Marks \cup {NoMark}) = {}
  /\ \E d \in Digits : DigitValue[d] = 0
  /\ \A d, e \in Digits : DigitValue[d] = DigitValue[e] => d = e
  /\ {MaxAmount, MaxStamp, MaxLines, MaxRows, HeaderLines} \subseteq Nat \ {0}

VARIABLES amountCell, dayCell, fileLines

readingVars == <<amountCell, dayCell, fileLines>>

-----------------------------------------------------------------------------
(* Amounts, in hundredths; a reader answers with no or one value. *)

AmountSymbols == Digits \cup Marks

AllDigits(s) == \A i \in DOMAIN s : s[i] \in Digits
\* Faulty Grouped: the marks are removed wherever they stand.
GroupedAnywhere(s, mark) ==
  s # <<>> /\ s[1] \in Digits /\ \A i \in DOMAIN s : s[i] \in Digits \cup {mark}

\* \d{1,3}(?:\.\d{3})+, and plain digits: every fourth symbol from the end is the mark.
Grouped(s, mark) ==
  /\ s # <<>> /\ s[1] \in Digits
  /\ AllDigits(s) \/ \A i \in DOMAIN s : IF (Len(s) - i) % 4 = 3 THEN s[i] = mark ELSE s[i] \in Digits

\* The numbers read off the first symbols, over whatever is no digit.
NumbersOf(s) ==
  LET read[i \in 0..Len(s)] ==
        IF i = 0 THEN 0
        ELSE IF s[i] \in Digits THEN 10 * read[i - 1] + DigitValue[s[i]] ELSE read[i - 1]
  IN  read
NumberOf(s) == NumbersOf(s)[Len(s)]

\* The places at which a decimal mark leaves one or two digits.
Cut(s, point) ==
  {i \in DOMAIN s : s[i] = point /\ Len(s) - i \in {1, 2} /\ AllDigits(SubSeq(s, i + 1, Len(s)))}

Unsigned(s, mark, point) ==
  IF Grouped(s, mark) THEN {100 * NumberOf(s)}
  ELSE {100 * NumberOf(SubSeq(s, 1, i - 1)) +
        NumberOf(SubSeq(s, i + 1, Len(s))) * (IF Len(s) - i = 1 THEN 10 ELSE 1) :
          i \in {j \in Cut(s, point) : Grouped(SubSeq(s, 1, j - 1), mark)}}

Signed(s, mark, point) ==
  IF s # <<>> /\ Head(s) = "-" THEN {- v : v \in Unsigned(Tail(s), mark, point)}
  ELSE Unsigned(s, mark, point)

\* (...) is a negative amount.
Bracketed(s) ==
  IF Len(s) > 1 /\ Head(s) = "(" /\ s[Len(s)] = ")" THEN <<"-">> \o SubSeq(s, 2, Len(s) - 1) ELSE s

\* parse_money: Indonesian or international; an empty cell or a dash is nothing.
ParseMoney(s, format) ==
  IF s \in {<<>>, <<"-">>} THEN {0}
  ELSE IF format = "id" THEN Signed(Bracketed(s), ".", ",")
                        ELSE Signed(Bracketed(s), ",", ".")

\* _parse_csv and _amount: no mark between thousands, and no line of nothing.
BankAmount(s) == Signed(s, NoMark, ".") \ {0}
\* _money, parse_ad_csv and _count: never negative; an empty cell is unknown.
ReportedMoney(s) == Unsigned(s, NoMark, ".")
ReportedCount(s) == IF s # <<>> /\ AllDigits(s) THEN {100 * NumberOf(s)} ELSE {}

\* str(amount) in canonical_csv: two decimals, no mark between thousands.
DigitOf(n) == CHOOSE d \in Digits : DigitValue[d] = n
WholeDigits[n \in Nat] ==
  IF n < 10 THEN <<DigitOf(n)>> ELSE Append(WholeDigits[n \div 10], DigitOf(n % 10))
WrittenUnsigned(units) ==
  WholeDigits[units \div 100] \o <<".", DigitOf((units \div 10) % 10), DigitOf(units % 10)>>
Written(v) == IF v < 0 THEN <<"-">> \o WrittenUnsigned(- v) ELSE WrittenUnsigned(v)

AmountReaders(s) ==
  {ParseMoney(s, "id"), ParseMoney(s, "en"), BankAmount(s), ReportedMoney(s), ReportedCount(s)}

-----------------------------------------------------------------------------
(* Days: runs of one, two, four and eight digits, the name of a month, a time. *)

StampSymbols == {"d", "dd", "dddd", "dddddddd", "Jan", "/", "-", "space", "time"}
Short == {"d", "dd"}

\* A format is the sets of symbols at its places; day is the place of the day of the month.
Format(places, day) == [places |-> places, day |-> day]
IsoDay == << {"dddd"}, {"-"}, {"dd"}, {"-"}, {"dd"} >>

\* parse_timestamp: ISO first, then five formats; _date and the others read ISO only.
StampFormats ==
  { Format(IsoDay, 5), Format(IsoDay \o <<{"time"}>>, 5), Format(<<{"dddddddd"}>>, 1),
    Format(<<Short, {"/"}, Short, {"/"}, {"dddd"}>>, 1),
    Format(<<Short, {"-"}, Short, {"-"}, {"dddd"}>>, 1),
    Format(<<{"dddd"}, {"/"}, Short, {"/"}, Short>>, 5),
    Format(<<Short, {"/"}, Short, {"/"}, {"dddd"}, {"time"}>>, 1),
    Format(<<Short, {"space"}, {"Jan"}, {"space"}, {"dddd"}>>, 1) }

Matches(s, f) == Len(s) = Len(f.places) /\ \A i \in DOMAIN s : s[i] \in f.places[i]
DaysRead(s) == {f.day : f \in {g \in StampFormats : Matches(s, g)}}

-----------------------------------------------------------------------------
(* Lines *)

LineKinds == {"heading", "row", "twin", "blank", "bad"}

\* read_statement: the heading is looked for in the first lines, else the first is taken;
\* blank lines are rows, and bad ones are shown as errors of the preview.
HeadingAt(file) ==
  LET found == {i \in DOMAIN file : i <= HeaderLines /\ file[i] = "heading"}
  IN  IF found = {} THEN 1 ELSE CHOOSE i \in found : \A j \in found : i <= j
StatementRows(file) == SubSeq(file, HeadingAt(file) + 1, Len(file))

\* The whole file is measured before its heading is known.
TooLong(file) == Len(file) > MaxRows + HeaderLines

ReadStatement(file) ==
  IF file = <<>> \/ TooLong(file) \/ Len(StatementRows(file)) \notin 1..MaxRows
  THEN <<>> ELSE StatementRows(file)

\* What a file's first lines hold below its heading; blank lines are skipped.
FilledBelow(file) ==
  LET filled[i \in 0..Len(file)] ==
        IF i <= 1 THEN <<>>
        ELSE IF file[i] = "blank" THEN filled[i - 1] ELSE Append(filled[i - 1], file[i])
  IN  filled

\* A template's heading is its first line, and one refused line refuses the file.
ReadTemplate(file, refused) ==
  LET body == FilledBelow(file)[Len(file)]
  IN  IF file = <<>> \/ Head(file) # "heading" \/ Len(body) \notin 1..MaxRows
         \/ \E i \in DOMAIN body : body[i] \in refused
      THEN <<>> ELSE body

\* _parse_csv and parse_ad_csv; a row may repeat an earlier reference with other figures,
\* which the imports refuse. parse_marketing_csv refuses it already in the file.
ReadBankTemplate(file) == ReadTemplate(file, {"heading", "bad"})
ReadAdTemplate(file)   == ReadTemplate(file, {"heading", "bad"})
ReadObservations(file) == ReadTemplate(file, {"heading", "bad", "twin"})

-----------------------------------------------------------------------------
ReadingInit == amountCell = <<>> /\ dayCell = <<>> /\ fileLines = <<>>

WriteAmount(symbol) ==
  /\ dayCell = <<>> /\ fileLines = <<>> /\ Len(amountCell) < MaxAmount
  /\ amountCell' = Append(amountCell, symbol) /\ UNCHANGED <<dayCell, fileLines>>
WriteStamp(symbol) ==
  /\ amountCell = <<>> /\ fileLines = <<>> /\ Len(dayCell) < MaxStamp
  /\ dayCell' = Append(dayCell, symbol) /\ UNCHANGED <<amountCell, fileLines>>
WriteLine(kind) ==
  /\ amountCell = <<>> /\ dayCell = <<>> /\ Len(fileLines) < MaxLines
  /\ fileLines' = Append(fileLines, kind) /\ UNCHANGED <<amountCell, dayCell>>

ReadingNext ==
  \/ \E symbol \in AmountSymbols : WriteAmount(symbol)
  \/ \E symbol \in StampSymbols : WriteStamp(symbol)
  \/ \E kind \in LineKinds : WriteLine(kind)

ReadingSpec == ReadingInit /\ [][ReadingNext]_readingVars

-----------------------------------------------------------------------------
\* Whatever format is chosen or file it is put in, an amount that is accepted twice is
\* accepted with one value: a wrong choice is refused, never misread by a factor.
AmountsHaveOneValue ==
  Cardinality(UNION (IF amountCell = <<"-">> \/ amountCell = <<>> THEN {} ELSE AmountReaders(amountCell))) <= 1

\* What the preview shows of an amount is what the import books: its canonical form is
\* accepted by the bank's template, with the same value.
PreviewedAsBooked ==
  \A format \in {"id", "en"} : \A v \in ParseMoney(amountCell, format) \ {0} : BankAmount(Written(v)) = {v}

\* The formats are tried in some order; no order would read another day.
StampsHaveOneDay == Cardinality(DaysRead(dayCell)) <= 1

\* The limit of a statement is on the rows below its heading, wherever that stands; a
\* template is read to its last line or not at all, and none takes what a stricter refuses.
FilesAreReadWhole ==
  fileLines # <<>> =>
    /\ ReadStatement(fileLines) # <<>> <=> Len(StatementRows(fileLines)) \in 1..MaxRows
    /\ \A rows \in {ReadBankTemplate(fileLines), ReadAdTemplate(fileLines), ReadObservations(fileLines)} :
         rows # <<>> => Len(rows) = Cardinality({i \in 2..Len(fileLines) : fileLines[i] # "blank"})
    /\ ReadObservations(fileLines) \in {<<>>, ReadAdTemplate(fileLines)}

\* A file is read in one way or refused (webapp/statement_import.py, where the number
\* format is a choice of the user that nothing else confirms).
FilesAreReadOneWay ==
  AmountsHaveOneValue /\ PreviewedAsBooked /\ StampsHaveOneDay /\ FilesAreReadWhole
=============================================================================
