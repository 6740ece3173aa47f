---------------------------- MODULE DeskTheorems ----------------------------
(***************************************************************************)
(* What is told is recorded once, for any history of an account, any files *)
(* cut from it and any number of users, pages, requests and documents, as  *)
(* long as movements can be told apart by what the bank prints.            *)
(*                                                                         *)
(* The bank lines are one for each name that a movement is told under, and *)
(* a name is one movement's. A form's page is drawn once, and what is      *)
(* recorded under it satisfies what the page asked for; a number in hand   *)
(* is the next of its series, which nobody else holds; one request at a    *)
(* time attaches, by somebody who still may.                               *)
(*                                                                         *)
(* A file is read in one way, however long. An amount is cut at one place  *)
(* at most, whichever mark ends its whole part; the number before and the  *)
(* number behind the cut are numbers that can be written, so the canonical *)
(* form of what was read is read again with the value shown. A row filled  *)
(* below the header of a file stays so to the end of it. What is defined   *)
(* by recursion on a text is reached from its first symbol on: the least   *)
(* place at which a fact fails has a place before it at which it holds.    *)
(***************************************************************************)
EXTENDS FinanceDesk, Readings, AmountTheorems

(* Statements *)

LineOf(t) == Line(t.movement, t.name)
TellingsOf(m) == {[movement |-> i, name |-> Identity(i, m)] : i \in m.first..m.last}

\* A mapping of some file, or none yet.
IsMapping(m) ==
  m = Pending \/ (m.column \in BOOLEAN /\ m.first \in Moments /\ m.last \in Moments)

BooksInv ==
  /\ confirmed = [file \in Exports |-> confirmed[file]]
  /\ \A file \in Exports : IsMapping(confirmed[file])
  /\ bank = {LineOf(t) : t \in Tellings}

\* What is told is what each file tells.
LEMMA TellingsAre == \A t : t \in Tellings <=> \E file \in Exports : t \in TellingsOf(confirmed[file])
BY DEF Tellings, TellingsOf

\* Only Confirm tells anything, and it enters the rows of its file that were not told under
\* the same name.
LEMMA BooksStep == BooksInv /\ [IntakeNext]_booksVars => BooksInv'
<1> SUFFICES ASSUME BooksInv, [IntakeNext]_booksVars PROVE BooksInv'
  OBVIOUS
<1>1. ASSUME UNCHANGED <<bank, confirmed>> PROVE BooksInv'
  <2>1. Tellings' = Tellings
    BY <1>1 DEF Tellings
  <2> QED
    BY <1>1, <2>1 DEF BooksInv
<1>2. ASSUME NEW file \in Exports, NEW m \in MappingsOf(file), Confirm(file, m)
      PROVE  BooksInv'
  <2>1. /\ confirmed[file] = Pending /\ confirmed' = [confirmed EXCEPT ![file] = m]
        /\ bank' = bank \cup CanonicalCsv(m)
    BY <1>2 DEF Confirm, ImportBankCsv
  <2>2. IsMapping(m)
    BY DEF MappingsOf, IsMapping
  <2>3. CanonicalCsv(m) = {LineOf(t) : t \in TellingsOf(m)}
    <3>1. \A i \in m.first..m.last :
            LineOf([movement |-> i, name |-> Identity(i, m)]) = Line(i, Identity(i, m))
      BY DEF LineOf
    <3> QED
      BY <3>1 DEF CanonicalCsv, TellingsOf
  <2>4. \A f \in Exports : confirmed'[f] = IF f = file THEN m ELSE confirmed[f]
    BY <2>1 DEF BooksInv
  <2>5. TellingsOf(Pending) = {}
    BY DEF TellingsOf, Pending
  <2>6. Tellings' = Tellings \cup TellingsOf(m)
    <3>1. \A t : t \in Tellings' <=> \E f \in Exports : t \in TellingsOf(confirmed'[f])
      BY DEF Tellings, TellingsOf
    <3>2. ASSUME NEW t, t \in Tellings PROVE t \in Tellings'
      <4>1. PICK f \in Exports : t \in TellingsOf(confirmed[f])
        BY <3>2, TellingsAre
      <4>2. f # file
        BY <2>1, <2>5, <4>1
      <4> QED
        BY <2>4, <3>1, <4>1, <4>2
    <3>3. ASSUME NEW t, t \in TellingsOf(m) PROVE t \in Tellings'
      BY <2>4, <3>1, <3>3
    <3>4. ASSUME NEW t, t \in Tellings' PROVE t \in Tellings \cup TellingsOf(m)
      BY <2>4, <3>1, <3>4, TellingsAre
    <3> QED
      BY <3>2, <3>3, <3>4
  <2>7. bank' = {LineOf(t) : t \in Tellings'}
    BY <2>1, <2>3, <2>6 DEF BooksInv
  <2>8. confirmed' = [f \in Exports |-> confirmed'[f]] /\ \A f \in Exports : IsMapping(confirmed'[f])
    BY <2>1, <2>2, <2>4 DEF BooksInv
  <2> QED
    BY <2>7, <2>8 DEF BooksInv
<1>3. CASE UNCHANGED booksVars
  BY <1>1, <1>3 DEF booksVars, bankVars, intakeVars
<1>4. ASSUME NEW file \in Exports,
             Upload(file) \/ StorageChanges(file) \/ \E m \in MappingsOf(file) : Preview(file, m)
      PROVE  BooksInv'
  BY <1>1, <1>4 DEF Upload, StorageChanges, Preview, bankVars
<1>5. ASSUME NEW preview \in previews, Expire(preview) PROVE BooksInv'
  BY <1>1, <1>5 DEF Expire, bankVars
<1>6. ASSUME UNCHANGED <<bankVars, intakeVars>> PROVE BooksInv'
  BY <1>1, <1>6 DEF bankVars, intakeVars
<1> QED
  BY <1>2, <1>3, <1>4, <1>5, <1>6 DEF IntakeNext

\* What is told: a movement of the history, under a name that one of the two ways gives it.
LEMMA TellingNames ==
  ASSUME BooksInv, NEW t \in Tellings
  PROVE  /\ t = [movement |-> t.movement, name |-> t.name] /\ t.movement \in Moments
         /\ \E m \in [column : BOOLEAN] : t.name = Identity(t.movement, m)
<1>1. PICK file \in Exports : t \in TellingsOf(confirmed[file])
  BY TellingsAre
<1>2. PICK m : m = confirmed[file] /\ IsMapping(m)
  BY DEF BooksInv
<1>3. PICK i \in m.first..m.last : t = [movement |-> i, name |-> Identity(i, m)]
  BY <1>1, <1>2 DEF TellingsOf
<1>4. i \in Moments /\ m.column \in BOOLEAN
  BY <1>2, <1>3, IntakeAssumption DEF IsMapping, Pending
<1>5. Identity(i, m) = Identity(i, [column |-> m.column])
  BY DEF Identity
<1> QED
  BY <1>3, <1>4, <1>5

\* One name, one movement.
LEMMA TellingsApart ==
  ASSUME MovementsToldApart, BooksInv, NEW t \in Tellings, NEW u \in Tellings, t.name = u.name
  PROVE  t = u
<1>1. t.movement \in Moments /\ u.movement \in Moments
  BY TellingNames
<1>2. PICK m \in [column : BOOLEAN] : t.name = Identity(t.movement, m)
  BY TellingNames
<1>3. PICK n \in [column : BOOLEAN] : u.name = Identity(u.movement, n)
  BY TellingNames
<1>4. Identity(t.movement, m) = Identity(u.movement, n) => t.movement = u.movement
  BY <1>1 DEF MovementsToldApart
<1>5. t.movement = u.movement
  BY <1>2, <1>3, <1>4
<1> QED
  BY <1>5, TellingNames

\* A line shows the facts of its movement, and its name.
LEMMA LineShowsFacts ==
  ASSUME NEW t
  PROVE  /\ [date |-> LineOf(t).date, direction |-> LineOf(t).direction, amount |-> LineOf(t).amount]
              = Facts(t.movement)
         /\ LineOf(t).reference = t.name
BY DEF LineOf, Line, Facts

\* A set and its image under a function that tells its members apart are equally large.
LEMMA ImageCounts ==
  ASSUME NEW S, NEW T, NEW f, IsFiniteSet(S), f \in [S -> T],
         \A x \in T : \E s \in S : f[s] = x, \A r, s \in S : f[r] = f[s] => r = s
  PROVE  Cardinality(T) = Cardinality(S)
<1>1. f \in Surjection(S, T)
  BY DEF Surjection
<1>2. f \in Injection(S, T)
  BY DEF Injection, IsInjective
<1>3. f \in Bijection(S, T)
  BY <1>1, <1>2 DEF Bijection
<1> QED
  BY <1>3, FS_Bijection DEF ExistsBijection

\* There are finitely many tellings, some of each file.
LEMMA TellingsFinite == BooksInv => IsFiniteSet(Tellings)
<1> SUFFICES ASSUME BooksInv PROVE IsFiniteSet(Tellings)
  OBVIOUS
<1> DEFINE P == Moments \X BOOLEAN
           f == [p \in P |-> [movement |-> p[1], name |-> Identity(p[1], [column |-> p[2]])]]
           R == {f[p] : p \in P}
<1>1. IsFiniteSet(Moments) /\ IsFiniteSet(BOOLEAN)
  <2>1. IsFiniteSet(Moments)
    BY IntakeAssumption, FS_Interval
  <2>2. BOOLEAN = {TRUE, FALSE} /\ IsFiniteSet({TRUE}) /\ IsFiniteSet({FALSE})
    BY FS_Singleton
  <2>3. IsFiniteSet({TRUE} \cup {FALSE})
    BY <2>2, FS_Union
  <2> QED
    BY <2>1, <2>2, <2>3
<1>2. IsFiniteSet(P)
  BY <1>1, FS_Product
<1>3. Tellings \subseteq R
  <2> SUFFICES ASSUME NEW t \in Tellings PROVE \E p \in P : t = f[p]
    OBVIOUS
  <2>1. PICK m \in [column : BOOLEAN] : t.name = Identity(t.movement, m)
    BY TellingNames
  <2>2. m = [column |-> m.column] /\ m.column \in BOOLEAN
    OBVIOUS
  <2>3. <<t.movement, m.column>> \in P
    BY <2>2, TellingNames
  <2>4. t = f[<<t.movement, m.column>>]
    BY <2>1, <2>2, <2>3, TellingNames
  <2> QED
    BY <2>3, <2>4
<1> HIDE DEF P, f
<1>4. IsFiniteSet(R)
  <2>1. f \in Surjection(P, R)
    BY DEF Surjection, f
  <2> QED
    BY <1>2, <2>1, FS_Surjection
<1> QED
  BY <1>3, <1>4, FS_Subset

\* One line for each name told, and one name for each movement where users keep to one way.
LEMMA BooksMatch == MovementsToldApart /\ BooksInv => BooksMatchStatements
<1> SUFFICES ASSUME MovementsToldApart, BooksInv PROVE BooksMatchStatements
  OBVIOUS
<1> SUFFICES ASSUME NEW i \in Moments
             PROVE  LET lines == {line \in bank : [date |-> line.date, direction |-> line.direction,
                                                   amount |-> line.amount] = Facts(i)}
                        named == {t \in Tellings : Facts(t.movement) = Facts(i)}
                    IN  /\ Cardinality(lines) = Cardinality(named)
                        /\ ToldUnderOneName => Cardinality(lines) = Cardinality({t.movement : t \in named})
  BY DEF BooksMatchStatements
<1> DEFINE S == {t \in Tellings : Facts(t.movement) = Facts(i)}
           T == {line \in bank : [date |-> line.date, direction |-> line.direction,
                                  amount |-> line.amount] = Facts(i)}
           U == {t.movement : t \in S}
           f == [t \in S |-> LineOf(t)]
           g == [t \in S |-> t.movement]
<1>1. IsFiniteSet(S)
  BY TellingsFinite, FS_Subset
<1>2. Cardinality(T) = Cardinality(S)
  <2>1. \A t \in S : LineOf(t) \in T
    BY LineShowsFacts DEF BooksInv
  <2>2. ASSUME NEW line \in T PROVE \E t \in S : LineOf(t) = line
    BY LineShowsFacts DEF BooksInv
  <2>3. ASSUME NEW t \in S, NEW u \in S, LineOf(t) = LineOf(u) PROVE t = u
    BY <2>3, LineShowsFacts, TellingsApart
  <2>4. f \in [S -> T] /\ \A t \in S : f[t] = LineOf(t)
    BY <2>1
  <2> HIDE DEF S, T, f
  <2> QED
    BY <1>1, <2>2, <2>3, <2>4, ImageCounts
<1>3. ASSUME ToldUnderOneName PROVE Cardinality(U) = Cardinality(S)
  <2>1. g \in [S -> U] /\ \A t \in S : g[t] = t.movement
    OBVIOUS
  <2>2. \A x \in U : \E t \in S : g[t] = x
    OBVIOUS
  <2>3. \A t, u \in S : g[t] = g[u] => t = u
    BY <1>3 DEF ToldUnderOneName
  <2> HIDE DEF S, U, g
  <2> QED
    BY <1>1, <2>1, <2>2, <2>3, ImageCounts
<1> QED
  BY <1>2, <1>3

-----------------------------------------------------------------------------
(* Forms about bank lines *)

RowKept(r) ==
  /\ r.amount \in Nat \ {0} /\ Sign(r.line) = Direction[r.kind]
  /\ \E d \in drawn : d.reference = r.reference /\ r.kind \in KindsFor(d.user)

MatchInv ==
  /\ \A d, e \in drawn : d.reference = e.reference => d = e
  /\ IsFiniteSet(recorded) /\ \A r \in recorded : RowKept(r)
  /\ PagesRecordOnce

\* A form that was recorded is complete whenever it is sent again.
LEMMA RecordedIsValid ==
  ASSUME MatchInv, NEW d \in drawn, NEW post \in Posts(d), PostingRow(post) \in recorded,
         post.confirmed
  PROVE  FormValid(d, post)
<1>1. RowKept(PostingRow(post)) /\ post.reference = d.reference
  BY DEF MatchInv, Posts
<1>2. post.amount \in Nat \ {0} /\ Sign(post.line) = Direction[post.kind] /\ post.kind \in KindsFor(d.user)
  BY <1>1 DEF RowKept, PostingRow, MatchInv
<1> QED
  BY <1>2 DEF FormValid, Offered

\* What is accepted under a new reference fits its line.
LEMMA RemainderKept ==
  ASSUME MatchInv, NEW post, post.amount \in Nat \ {0}, post.amount <= Remaining(post.line),
         PostingRow(post) \notin recorded, recorded' = recorded \cup {PostingRow(post)},
         NEW line \in FormLines
  PROVE  Remaining(line)' >= 0
<1>1. PICK r : r = PostingRow(post)
  OBVIOUS
<1>2. r.line = post.line /\ r.amount = post.amount /\ r \notin recorded /\ recorded' = recorded \cup {r}
  BY <1>1 DEF PostingRow
<1>3. Sign(line) * LineAmountOf[line] \in Nat /\ Remaining(line) >= 0
  BY FormsAssumption DEF Sign, MatchInv, PagesRecordOnce
<1>4. IsFiniteSet(recorded) /\ \A x \in recorded : x.amount \in Nat
  BY DEF MatchInv, RowKept
<1>5. PICK old : old = {x \in recorded : x.line = line}
  OBVIOUS
<1>6. IsFiniteSet(Units(old)) /\ Total(old) \in Nat /\ r \notin old
  BY <1>2, <1>4, <1>5, TotalType
<1>7. CASE post.line # line
  BY <1>2, <1>3, <1>5, <1>7 DEF Remaining, Sign
<1>8. CASE post.line = line
  <2>1. {x \in recorded' : x.line = line} = old \cup {r}
    BY <1>2, <1>5, <1>8
  <2>2. Total(old \cup {r}) = Total(old) + r.amount
    BY <1>2, <1>6, TotalAdd
  <2>3. Remaining(line) = Sign(line) * LineAmountOf[line] - Total(old)
    BY <1>5 DEF Remaining
  <2>4. Remaining(line)' = Sign(line) * LineAmountOf[line] - Total(old \cup {r})
    BY <2>1 DEF Remaining, Sign
  <2> QED
    BY <1>2, <1>3, <1>6, <1>8, <2>2, <2>3, <2>4
<1> QED
  BY <1>7, <1>8

\* A new row leaves one row to a reference.
LEMMA RowAdded ==
  ASSUME MatchInv, NEW d \in drawn, NEW post \in Posts(d), FormValid(d, post), Accepts(post),
         recorded' = recorded \cup {PostingRow(post)}, UNCHANGED drawn
  PROVE  /\ IsFiniteSet(recorded') /\ \A r \in recorded' : RowKept(r)'
         /\ \A r, s \in recorded' : r.reference = s.reference => r = s
         /\ \A line \in FormLines : Remaining(line)' >= 0
<1>1. /\ post.reference = d.reference /\ post.amount \in Nat \ {0} /\ post.kind \in KindsFor(d.user)
      /\ PostingRow(post).reference = post.reference
  BY FormsAssumption DEF Posts, FormValid, PostingRow
<1>2. CASE PostingRow(post) \in recorded
  <2>1. recorded' = recorded
    BY <1>2
  <2> QED
    BY <2>1 DEF MatchInv, PagesRecordOnce, RowKept, Remaining, Sign
<1>3. CASE PostingRow(post) \notin recorded
  <2>1. /\ \A r \in recorded : r.reference # post.reference
        /\ Sign(post.line) = Direction[post.kind] /\ post.amount <= Remaining(post.line)
    BY <1>3 DEF Accepts, Used
  <2>2. IsFiniteSet(recorded')
    BY FS_AddElement DEF MatchInv
  <2>3. RowKept(PostingRow(post))'
    BY <1>1, <2>1 DEF RowKept, PostingRow, Sign, KindsFor
  <2>4. \A r \in recorded : RowKept(r)'
    BY DEF MatchInv, RowKept, Sign, KindsFor
  <2>5. \A line \in FormLines : Remaining(line)' >= 0
    BY <1>1, <1>3, <2>1, RemainderKept
  <2> QED
    BY <1>1, <2>1, <2>2, <2>3, <2>4, <2>5 DEF MatchInv, PagesRecordOnce
<1> QED
  BY <1>2, <1>3

\* A page that is drawn and a form that is sent keep what pages recorded.
LEMMA MatchStep == MatchInv /\ (MatchNext \/ UNCHANGED matchVars) => MatchInv'
<1> SUFFICES ASSUME MatchInv, MatchNext \/ UNCHANGED matchVars PROVE MatchInv'
  OBVIOUS
<1>1. ASSUME NEW u \in FormUsers, NEW page \in PagesDrawn, NEW operation, NEW source,
             DrawForm(u, page, operation, source)
      PROVE  MatchInv'
  <2>1. /\ \A d \in drawn : d.reference # page
        /\ drawn' = drawn \cup {[reference |-> page, user |-> u, operation |-> operation, source |-> source]}
        /\ UNCHANGED <<answered, recorded>>
    BY <1>1 DEF DrawForm
  <2>2. \A d, e \in drawn' : d.reference = e.reference => d = e
    BY <2>1 DEF MatchInv
  <2>3. \A r \in recorded' : RowKept(r)'
    BY <2>1 DEF MatchInv, RowKept, Sign, KindsFor
  <2> QED
    BY <2>1, <2>2, <2>3 DEF MatchInv, PagesRecordOnce, Remaining, Sign, PostingRow
<1>2. ASSUME NEW d \in drawn, NEW post \in Posts(d), FinancialOperation(d, post)
      PROVE  MatchInv'
  <2>1. UNCHANGED drawn
    BY <1>2 DEF FinancialOperation
  <2>2. PostingRow(post).reference = post.reference
    BY DEF PostingRow
  <2>3. CASE FormValid(d, post) /\ Accepts(post)
    <3>1. answered' = {[post |-> post, outcome |-> "recorded"]} /\ recorded' = recorded \cup {PostingRow(post)}
      BY <1>2, <2>3 DEF FinancialOperation, Answer
    <3>2. \A a \in answered' : a.outcome = "recorded" <=> PostingRow(a.post) \in recorded' /\ a.post.confirmed
      BY <2>3, <3>1 DEF FormValid
    <3> QED
      BY <2>1, <2>3, <3>1, <3>2, RowAdded DEF MatchInv, PagesRecordOnce, PostingRow
  <2>4. CASE ~FormValid(d, post) \/ ~Accepts(post)
    <3>1. PICK outcome \in {"invalid", "refused"} : answered' = {[post |-> post, outcome |-> outcome]}
      BY <1>2, <2>4 DEF FinancialOperation, Answer
    <3>2. recorded' = recorded
      BY <1>2, <2>4 DEF FinancialOperation
    <3>3. ~(PostingRow(post) \in recorded /\ post.confirmed)
      BY <2>2, <2>4, RecordedIsValid DEF Accepts, Used
    <3>4. \A a \in answered' : a.outcome # "recorded" /\ a.post = post
      BY <3>1
    <3>5. \A r \in recorded' : RowKept(r)'
      BY <2>1, <3>2 DEF MatchInv, RowKept, Sign, KindsFor
    <3> QED
      BY <2>1, <3>2, <3>3, <3>4, <3>5 DEF MatchInv, PagesRecordOnce, Remaining, Sign, PostingRow
  <2> QED
    BY <2>3, <2>4
<1>3. CASE UNCHANGED matchVars
  BY <1>3 DEF matchVars, MatchInv, PagesRecordOnce, RowKept, Remaining, Sign, KindsFor, PostingRow
<1> QED
  BY <1>1, <1>2, <1>3 DEF MatchNext

-----------------------------------------------------------------------------
(* Numbers of orders and bills *)

InHand(q) ==
  /\ creating[q] = [kind |-> "taken", data |-> creating[q].data, value |-> creating[q].value]
  /\ Series(creating[q].data) \in DOMAIN lastNumber
  /\ creating[q].value = lastNumber[Series(creating[q].data)] + 1

NumberInv ==
  /\ lastNumber \in [DOMAIN lastNumber -> Nat]
  /\ DOMAIN lastNumber = {Series(data) : data \in OrderData}
  /\ \E C : creating \in [Creations -> C]
  /\ \A q \in Creations : creating[q] # Free => InHand(q)
  /\ \A p, q \in Creations : /\ p # q /\ creating[p] # Free /\ creating[q] # Free
                             => Series(creating[p].data) # Series(creating[q].data)
  /\ \E D : drafts \in Seq(D)
  /\ NumbersRunThrough

\* The draft of a request takes the next number of its series, and of no other.
LEMMA DraftNumbered ==
  ASSUME NumberInv, NEW s \in DOMAIN lastNumber, NEW draft, NEW D, drafts \in Seq(D),
         draft.number = lastNumber[s] + 1, draft.series = s,
         drafts' = Append(drafts, draft), lastNumber' = [lastNumber EXCEPT ![s] = @ + 1]
  PROVE  NumbersRunThrough' /\ \E E : drafts' \in Seq(E)
<1>1. Len(drafts) \in Nat /\ Len(drafts') = Len(drafts) + 1
  OBVIOUS
<1>2. drafts'[Len(drafts')] = draft /\ \A d \in 1..Len(drafts) : drafts'[d] = drafts[d]
  OBVIOUS
<1>3. \A t \in DOMAIN lastNumber : lastNumber[t] \in Nat
  BY DEF NumberInv
<1>4. /\ DOMAIN lastNumber' = DOMAIN lastNumber /\ lastNumber'[s] = lastNumber[s] + 1
      /\ \A t \in DOMAIN lastNumber : t # s => lastNumber'[t] = lastNumber[t]
  OBVIOUS
<1>5. ASSUME NEW t \in DOMAIN lastNumber
      PROVE  LET given == {d \in 1..Len(drafts') : drafts'[d].series = t} IN
             /\ {drafts'[d].number : d \in given} = 1..lastNumber'[t]
             /\ \A d, e \in given : d < e => drafts'[d].number < drafts'[e].number
  <2>1. PICK old : old = {d \in 1..Len(drafts) : drafts[d].series = t}
    OBVIOUS
  <2>2. /\ {drafts[d].number : d \in old} = 1..lastNumber[t]
        /\ \A d, e \in old : d < e => drafts[d].number < drafts[e].number
    BY <2>1 DEF NumberInv, NumbersRunThrough
  <2>3. PICK given : given = {d \in 1..Len(drafts') : drafts'[d].series = t}
    OBVIOUS
  <2>4. \A d \in old : drafts'[d] = drafts[d] /\ d < Len(drafts')
    BY <1>1, <1>2, <2>1
  <2>5. CASE t # s
    <3>1. given = old
      BY <1>1, <1>2, <2>1, <2>3, <2>5
    <3> QED
      BY <1>4, <2>2, <2>3, <2>4, <2>5, <3>1
  <2>6. CASE t = s
    <3>1. given = old \cup {Len(drafts')}
      BY <1>1, <1>2, <2>1, <2>3, <2>6
    <3>2. \A d \in old : drafts[d].number \in 1..lastNumber[t]
      BY <2>2
    <3>3. {drafts'[d].number : d \in given} = {drafts[d].number : d \in old} \cup {lastNumber[t] + 1}
      BY <1>2, <2>4, <2>6, <3>1
    <3>4. 1..lastNumber'[t] = (1..lastNumber[t]) \cup {lastNumber[t] + 1}
      BY <1>3, <1>4, <2>6
    <3>5. \A d, e \in given : d < e => drafts'[d].number < drafts'[e].number
      <4> SUFFICES ASSUME NEW d \in given, NEW e \in given, d < e
                   PROVE  drafts'[d].number < drafts'[e].number
        OBVIOUS
      <4>1. d \in old
        BY <1>1, <2>1, <2>3, <3>1
      <4>2. CASE e \in old
        BY <2>2, <2>4, <4>1, <4>2
      <4>3. CASE e = Len(drafts')
        <5>1. drafts'[d].number \in 1..lastNumber[t] /\ drafts'[e].number = lastNumber[t] + 1
          BY <1>2, <2>4, <2>6, <3>2, <4>1, <4>3
        <5>2. PICK n \in Nat : n = lastNumber[t]
          BY <1>3
        <5>3. \A k \in 1..n : k < n + 1
          OBVIOUS
        <5> QED
          BY <5>1, <5>2, <5>3
      <4> QED
        BY <3>1, <4>2, <4>3
    <3> QED
      BY <2>2, <2>3, <3>3, <3>4, <3>5
  <2> QED
    BY <2>5, <2>6
<1>6. drafts' \in Seq(D \cup {draft})
  <2>1. drafts \in Seq(D \cup {draft})
    OBVIOUS
  <2> QED
    BY <2>1
<1> QED
  BY <1>4, <1>5, <1>6 DEF NumbersRunThrough

\* Requests overlap, fail and end, and a number is given with its draft or to the next one.
LEMMA NumberStep == NumberInv /\ (NumberNext \/ UNCHANGED numberVars) => NumberInv'
<1> SUFFICES ASSUME NumberInv, NumberNext \/ UNCHANGED numberVars PROVE NumberInv'
  OBVIOUS
<1>1. PICK C : creating \in [Creations -> C]
  BY DEF NumberInv
<1>2. ASSUME NEW q \in Creations, NEW new, creating' = [creating EXCEPT ![q] = new]
      PROVE  /\ creating' \in [Creations -> C \cup {new}]
             /\ creating'[q] = new /\ \A p \in Creations \ {q} : creating'[p] = creating[p]
  BY <1>1, <1>2
<1>3. ASSUME NEW q \in Creations, NEW data \in OrderData, TakeNumber(q, data)
      PROVE  NumberInv'
  <2>1. PICK new : new = [kind |-> "taken", data |-> data, value |-> lastNumber[Series(data)] + 1]
    OBVIOUS
  <2>2. /\ creating' = [creating EXCEPT ![q] = new] /\ UNCHANGED <<lastNumber, drafts>>
        /\ \A p \in Creations : creating[p] # Free => Series(creating[p].data) # Series(data)
    BY <1>3, <2>1 DEF TakeNumber
  <2>3. /\ creating' \in [Creations -> C \cup {new}]
        /\ creating'[q] = new /\ \A p \in Creations \ {q} : creating'[p] = creating[p]
    BY <1>2, <2>2
  <2>4. \A p \in Creations : creating'[p] # Free => InHand(p)'
    BY <2>1, <2>2, <2>3 DEF NumberInv, InHand
  <2>5. \A o, p \in Creations : o # p /\ creating'[o] # Free /\ creating'[p] # Free
                             => Series(creating'[o].data) # Series(creating'[p].data)
    BY <2>1, <2>2, <2>3 DEF NumberInv
  <2>6. NumbersRunThrough'
    BY <2>2 DEF NumberInv, NumbersRunThrough
  <2> QED
    BY <2>2, <2>3, <2>4, <2>5, <2>6 DEF NumberInv
<1>4. ASSUME NEW q \in Creations, NEW kind, CreateDraft(q, kind) PROVE NumberInv'
  <2>1. PICK s : s = Series(creating[q].data)
    OBVIOUS
  <2>2. PICK draft : draft = [series |-> s, number |-> creating[q].value]
    OBVIOUS
  <2>3. /\ creating[q] # Free /\ creating' = [creating EXCEPT ![q] = Free]
        /\ lastNumber' = [lastNumber EXCEPT ![s] = creating[q].value]
        /\ drafts' = Append(drafts, draft)
    BY <1>4, <2>1, <2>2 DEF CreateDraft
  <2>4. s \in DOMAIN lastNumber /\ creating[q].value = lastNumber[s] + 1
    BY <2>1, <2>3 DEF NumberInv, InHand
  <2>5. lastNumber' = [lastNumber EXCEPT ![s] = @ + 1]
    BY <2>3, <2>4
  <2>6. PICK D : drafts \in Seq(D)
    BY DEF NumberInv
  <2>7. NumbersRunThrough' /\ \E E : drafts' \in Seq(E)
    BY <2>2, <2>3, <2>4, <2>5, <2>6, DraftNumbered
  <2>8. /\ creating' \in [Creations -> C \cup {Free}]
        /\ creating'[q] = Free /\ \A p \in Creations \ {q} : creating'[p] = creating[p]
    BY <1>2, <2>3
  <2>9. lastNumber' \in [DOMAIN lastNumber' -> Nat] /\ DOMAIN lastNumber' = DOMAIN lastNumber
    BY <2>4, <2>5 DEF NumberInv
  <2>10. ASSUME NEW p \in Creations, creating'[p] # Free PROVE InHand(p)'
    <3>1. p # q /\ creating'[p] = creating[p] /\ Series(creating[p].data) # s /\ InHand(p)
      BY <2>1, <2>3, <2>8, <2>10 DEF NumberInv
    <3> QED
      BY <2>5, <3>1 DEF InHand, Series
  <2>11. \A o, p \in Creations : o # p /\ creating'[o] # Free /\ creating'[p] # Free
                             => Series(creating'[o].data) # Series(creating'[p].data)
    BY <2>8 DEF NumberInv
  <2> QED
    BY <2>7, <2>8, <2>9, <2>10, <2>11 DEF NumberInv
<1>5. ASSUME NEW q \in Creations, DraftFails(q) PROVE NumberInv'
  <2>1. creating' = [creating EXCEPT ![q] = Free] /\ UNCHANGED <<lastNumber, drafts>>
    BY <1>5 DEF DraftFails
  <2>2. /\ creating' \in [Creations -> C \cup {Free}]
        /\ creating'[q] = Free /\ \A p \in Creations \ {q} : creating'[p] = creating[p]
    BY <1>2, <2>1
  <2>3. (\E E : creating' \in [Creations -> E]) /\ NumbersRunThrough'
    BY <2>1, <2>2, ZenonT(40) DEF NumberInv, NumbersRunThrough
  <2> QED
    BY <2>1, <2>2, <2>3 DEF NumberInv, InHand
<1>6. CASE UNCHANGED numberVars
  <2>1. lastNumber' = lastNumber /\ creating' = creating /\ drafts' = drafts
    BY <1>6 DEF numberVars
  <2>2. NumbersRunThrough'
    BY <2>1 DEF NumberInv, NumbersRunThrough
  <2>3. \A q \in Creations : creating'[q] # Free => InHand(q)'
    BY <2>1 DEF NumberInv, InHand
  <2> QED
    BY <2>1, <2>2, <2>3 DEF NumberInv
<1> QED
  BY <1>3, <1>4, <1>5, <1>6 DEF NumberNext, SaleCreate, BillCreate

-----------------------------------------------------------------------------
(* Documents beside orders and bills *)

\* A request that has inspected its file, and one whose transaction is open.
Request(q) ==
  /\ attaching[q] = [kind |-> attaching[q].kind, user |-> attaching[q].user,
                     source |-> attaching[q].source, file |-> attaching[q].file]
  /\ Inspected(attaching[q].file)

OpenFor(q) ==
  /\ MayAttach(attaching[q].user) /\ Existing(Document(q)) = {}
  /\ \A p \in Attachers : attaching[p].kind = "open" => p = q

AttachInv ==
  /\ \E A : attaching \in [Attachers -> A]
  /\ \A q \in Attachers : attaching[q] # Free => Request(q)
  /\ \A q \in Attachers : attaching[q].kind = "open" => OpenFor(q)
  /\ DocumentsAttachedOnce

\* One transaction at a time attaches, and who may write cannot be changed under it.
LEMMA AttachStep == AttachInv /\ (AttachNext \/ UNCHANGED attachVars) => AttachInv'
<1> SUFFICES ASSUME AttachInv, AttachNext \/ UNCHANGED attachVars PROVE AttachInv'
  OBVIOUS
<1>1. PICK A : attaching \in [Attachers -> A]
  BY DEF AttachInv
<1>2. ASSUME NEW q \in Attachers, NEW new, attaching' = [attaching EXCEPT ![q] = new]
      PROVE  /\ attaching' \in [Attachers -> A \cup {new}]
             /\ attaching'[q] = new /\ \A p \in Attachers \ {q} : attaching'[p] = attaching[p]
  BY <1>1, <1>2
<1>3. ASSUME NEW q \in Attachers, NEW u, NEW source, NEW file, InspectUpload(q, u, source, file)
      PROVE  AttachInv'
  <2>1. PICK new : new = [kind |-> "inspected", user |-> u, source |-> source, file |-> file]
    OBVIOUS
  <2>2. /\ attaching' = [attaching EXCEPT ![q] = new] /\ Inspected(file)
        /\ UNCHANGED <<members, attachments, told>>
    BY <1>3, <2>1 DEF InspectUpload
  <2>3. /\ attaching' \in [Attachers -> A \cup {new}]
        /\ attaching'[q] = new /\ \A p \in Attachers \ {q} : attaching'[p] = attaching[p]
    BY <1>2, <2>2
  <2>4. Request(q)'
    BY <2>1, <2>2, <2>3 DEF Request
  <2>5. ASSUME NEW p \in Attachers, attaching'[p] # Free PROVE Request(p)'
    BY <2>3, <2>4, <2>5 DEF AttachInv, Request
  <2>6. ASSUME NEW p \in Attachers, attaching'[p].kind = "open" PROVE OpenFor(p)'
    <3>1. p # q /\ attaching'[p] = attaching[p] /\ OpenFor(p)
      BY <2>1, <2>3, <2>6 DEF AttachInv
    <3> QED
      BY <2>1, <2>2, <2>3, <3>1 DEF OpenFor, MayAttach, MayWrite, Existing, Document
  <2> QED
    BY <2>2, <2>3, <2>5, <2>6 DEF AttachInv, DocumentsAttachedOnce
<1>4. ASSUME NEW q \in Attachers, attaching' = [attaching EXCEPT ![q] = Free],
             UNCHANGED members, DocumentsAttachedOnce',
             attachments' = attachments \/ attaching[q].kind = "open"
      PROVE  AttachInv'
  <2>1. /\ attaching' \in [Attachers -> A \cup {Free}]
        /\ attaching'[q] = Free /\ \A p \in Attachers \ {q} : attaching'[p] = attaching[p]
    BY <1>2, <1>4
  <2>2. ASSUME NEW p \in Attachers, attaching'[p] # Free PROVE Request(p)'
    BY <2>1, <2>2 DEF AttachInv, Request
  <2>3. ASSUME NEW p \in Attachers, attaching'[p].kind = "open" PROVE OpenFor(p)'
    <3>1. p # q /\ attaching'[p] = attaching[p] /\ OpenFor(p)
      BY <2>1, <2>3 DEF AttachInv, Free
    <3>2. attachments' = attachments
      BY <1>4, <3>1 DEF OpenFor
    <3> QED
      BY <1>4, <2>1, <3>1, <3>2 DEF OpenFor, MayAttach, MayWrite, Existing, Document, Free
  <2> QED
    BY <1>4, <2>1, <2>2, <2>3 DEF AttachInv
<1>5. ASSUME NEW q \in Attachers, LockAndCompare(q) PROVE AttachInv'
  <2>1. /\ attaching[q].kind = "inspected" /\ Request(q) /\ OrganizationFree
        /\ UNCHANGED <<members, attachments>>
    BY <1>5 DEF LockAndCompare, AttachInv, Free
  <2>2. CASE MayAttach(attaching[q].user) /\ Existing(Document(q)) = {}
    <3>1. attaching' = [attaching EXCEPT ![q].kind = "open"] /\ UNCHANGED told
      BY <1>5, <2>2 DEF LockAndCompare
    <3>2. PICK new : new = [kind |-> "open", user |-> attaching[q].user,
                            source |-> attaching[q].source, file |-> attaching[q].file]
      OBVIOUS
    <3>3. attaching' = [attaching EXCEPT ![q] = new]
      <4>1. PICK old : old = attaching[q]
        OBVIOUS
      <4>2. old = [kind |-> old.kind, user |-> old.user, source |-> old.source, file |-> old.file]
        BY <2>1, <4>1 DEF Request
      <4>3. [old EXCEPT !.kind = "open"] = new
        BY <3>2, <4>1, <4>2
      <4>4. attaching' = [attaching EXCEPT ![q] = [old EXCEPT !.kind = "open"]]
        BY <3>1, <4>1
      <4> QED
        BY <4>3, <4>4
    <3>4. /\ attaching' \in [Attachers -> A \cup {new}]
          /\ attaching'[q] = new /\ \A p \in Attachers \ {q} : attaching'[p] = attaching[p]
      BY <1>2, <3>3
    <3>5. Request(q)'
      BY <2>1, <3>2, <3>4 DEF Request
    <3>6. ASSUME NEW p \in Attachers, attaching'[p] # Free PROVE Request(p)'
      BY <3>4, <3>5, <3>6 DEF AttachInv, Request
    <3>7. \A p \in Attachers : attaching'[p].kind = "open" => p = q
      BY <2>1, <3>4 DEF OrganizationFree
    <3>8. OpenFor(q)'
      BY <2>1, <2>2, <3>2, <3>4, <3>7 DEF OpenFor, MayAttach, MayWrite, Existing, Document
    <3> QED
      BY <2>1, <3>1, <3>4, <3>6, <3>7, <3>8 DEF AttachInv, DocumentsAttachedOnce
  <2>3. CASE ~(MayAttach(attaching[q].user) /\ Existing(Document(q)) = {})
    <3>1. /\ attaching' = [attaching EXCEPT ![q] = Free]
          /\ IF MayAttach(attaching[q].user) THEN Tell(Document(q)) ELSE UNCHANGED told
      BY <1>5, <2>3 DEF LockAndCompare
    <3>2. \A doc \in told' : \E row \in attachments : row.doc = doc
      BY <2>3, <3>1 DEF AttachInv, DocumentsAttachedOnce, Tell, Existing
    <3>3. DocumentsAttachedOnce'
      BY <2>1, <3>2 DEF AttachInv, DocumentsAttachedOnce
    <3> QED
      BY <1>4, <2>1, <3>1, <3>3
  <2> QED
    BY <2>2, <2>3
<1>6. ASSUME NEW q \in Attachers, SaveAttachment(q) PROVE AttachInv'
  <2>1. PICK row : row = [doc |-> Document(q), file |-> attaching[q].file,
                          allowed |-> MayAttach(attaching[q].user)]
    OBVIOUS
  <2>2. /\ attaching[q].kind = "open" /\ attaching' = [attaching EXCEPT ![q] = Free]
        /\ attachments' = attachments \cup {row} /\ told' = told \cup {Document(q)}
        /\ UNCHANGED members
    BY <1>6, <2>1 DEF SaveAttachment, Tell
  <2>3. OpenFor(q) /\ Inspected(attaching[q].file)
    BY <2>2 DEF AttachInv, Free, Request
  <2>4. row.doc = Document(q) /\ row.allowed /\ \A r \in attachments : r.doc # row.doc
    BY <2>1, <2>3 DEF OpenFor, Existing
  <2>5. row.file.readable /\ row.file.signature = TypeOf[row.file.suffix]
    BY <2>1, <2>3 DEF Inspected, Sound
  <2>6. DocumentsAttachedOnce'
    BY <2>2, <2>4, <2>5 DEF AttachInv, DocumentsAttachedOnce
  <2> QED
    BY <1>4, <2>2, <2>6
<1>7. ASSUME NEW q \in Attachers, AttachFails(q) PROVE AttachInv'
  <2>1. attaching' = [attaching EXCEPT ![q] = Free] /\ UNCHANGED <<members, attachments, told>>
    BY <1>7 DEF AttachFails
  <2>2. DocumentsAttachedOnce'
    BY <2>1 DEF AttachInv, DocumentsAttachedOnce
  <2> QED
    BY <1>4, <2>1, <2>2
<1>8. ASSUME NEW u, RevokeMember(u) PROVE AttachInv'
  <2>1. /\ \A q \in Attachers : attaching[q].kind # "open"
        /\ attaching' = attaching /\ UNCHANGED <<attachments, told>>
    BY <1>8 DEF RevokeMember, OrganizationFree
  <2>2. \A q \in Attachers : attaching'[q] # Free => Request(q)'
    BY <2>1 DEF AttachInv, Request
  <2> QED
    BY <2>1, <2>2 DEF AttachInv, DocumentsAttachedOnce
<1>9. CASE UNCHANGED attachVars
  <2>1. UNCHANGED <<members, attaching, attachments, told>>
    BY <1>9 DEF attachVars
  <2>2. \A q \in Attachers : attaching'[q] # Free => Request(q)'
    BY <2>1 DEF AttachInv, Request
  <2>3. \A q \in Attachers : attaching'[q].kind = "open" => OpenFor(q)'
    BY <2>1 DEF AttachInv, OpenFor, MayAttach, MayWrite, Existing, Document
  <2> QED
    BY <2>1, <2>2, <2>3 DEF AttachInv, DocumentsAttachedOnce
<1> QED
  BY <1>3, <1>5, <1>6, <1>7, <1>8, <1>9 DEF AttachNext

-----------------------------------------------------------------------------
(* The desk *)

DeskInv == BooksInv /\ MatchInv /\ NumberInv /\ AttachInv

\* Nothing is told, drawn, numbered or attached at first.
LEMMA DeskStarts == DeskInit => DeskInv
<1> SUFFICES ASSUME DeskInit PROVE DeskInv
  OBVIOUS
<1>1. /\ bank = {} /\ confirmed = [file \in Exports |-> Pending]
  BY DEF DeskInit, IntakeInit, BankInit
<1>2. BooksInv
  <2>1. \A file \in Exports : confirmed[file] = Pending
    BY <1>1
  <2>2. TellingsOf(Pending) = {}
    BY DEF TellingsOf, Pending
  <2>3. Tellings = {}
    BY <2>1, <2>2, TellingsAre
  <2>4. /\ confirmed = [file \in Exports |-> confirmed[file]]
        /\ \A file \in Exports : IsMapping(confirmed[file])
    BY <1>1 DEF IsMapping
  <2>5. bank = {LineOf(t) : t \in Tellings}
    BY <1>1, <2>3
  <2> QED
    BY <2>4, <2>5 DEF BooksInv
<1>3. drawn = {} /\ answered = {} /\ recorded = {}
  BY DEF DeskInit, FormsInit
<1>4. MatchInv
  <2>1. \A line \in FormLines : Sign(line) * LineAmountOf[line] \in Nat
    BY FormsAssumption DEF Sign
  <2>2. \A line \in FormLines : {r \in recorded : r.line = line} = {}
    BY <1>3
  <2>3. ASSUME NEW line \in FormLines PROVE Remaining(line) >= 0
    <3>1. PICK n \in Nat : n = Sign(line) * LineAmountOf[line]
      BY <2>1
    <3>2. Remaining(line) = n - 0
      BY <2>2, <3>1, TotalEmpty DEF Remaining
    <3> QED
      BY <3>2
  <2> QED
    BY <1>3, <2>3, FS_EmptySet DEF MatchInv, PagesRecordOnce
<1>5. NumberInv
  <2>1. /\ lastNumber = [s \in {Series(data) : data \in OrderData} |-> 0]
        /\ creating = [q \in Creations |-> Free] /\ drafts = <<>>
    BY DEF DeskInit, FormsInit
  <2>2. /\ DOMAIN lastNumber = {Series(data) : data \in OrderData}
        /\ \A s \in DOMAIN lastNumber : lastNumber[s] = 0
    BY <2>1
  <2>3. lastNumber \in [DOMAIN lastNumber -> Nat]
    BY <2>1, <2>2
  <2>4. drafts \in Seq({}) /\ Len(drafts) = 0
    BY <2>1
  <2>5. creating \in [Creations -> {Free}] /\ \A q \in Creations : creating[q] = Free
    BY <2>1
  <2>6. NumbersRunThrough
    BY <2>2, <2>4 DEF NumbersRunThrough
  <2> QED
    BY <2>2, <2>3, <2>4, <2>5, <2>6 DEF NumberInv
<1>6. AttachInv
  <2>1. attaching = [q \in Attachers |-> Free] /\ attachments = {} /\ told = {}
    BY DEF DeskInit, FormsInit
  <2>2. attaching \in [Attachers -> {Free}] /\ \A q \in Attachers : attaching[q] = Free
    BY <2>1
  <2>3. Free.kind # "open"
    BY DEF Free
  <2> QED
    BY <2>1, <2>2, <2>3 DEF AttachInv, DocumentsAttachedOnce
<1> QED
  BY <1>2, <1>4, <1>5, <1>6 DEF DeskInv

\* A step of one part leaves the others' tables alone.
LEMMA PartsRest ==
  /\ IntakeNext /\ UNCHANGED formsVars => UNCHANGED <<matchVars, numberVars, attachVars>>
  /\ FormsNext /\ UNCHANGED booksVars =>
       /\ UNCHANGED booksVars
       /\ MatchNext \/ UNCHANGED matchVars
       /\ NumberNext \/ UNCHANGED numberVars
       /\ AttachNext \/ UNCHANGED attachVars
<1>1. MatchNext => UNCHANGED <<numberVars, attachVars>>
  BY DEF MatchNext, DrawForm, FinancialOperation
<1>2. NumberNext => UNCHANGED <<matchVars, attachVars>>
  BY DEF NumberNext, TakeNumber, SaleCreate, BillCreate, CreateDraft, DraftFails
<1>3. AttachNext => UNCHANGED <<matchVars, numberVars>>
  BY DEF AttachNext, RevokeMember, InspectUpload, LockAndCompare, SaveAttachment, AttachFails
<1> QED
  BY <1>1, <1>2, <1>3 DEF FormsNext, formsVars

\* Whatever statements and forms come in, from however many users and in whatever order,
\* each posting, number and document is in the books once, and each movement once for every
\* name it is told under (once where users keep to one way of naming), if the bank prints
\* something that tells any two movements apart; the run LookAlikeRows shows that this
\* condition is needed (normalize_statement, import_bank_csv, _bank_post, next_number,
\* attach_document).
THEOREM ToldIsRecordedOnce ==
  ASSUME MovementsToldApart
  PROVE  DeskSpec => []ToldOnceRecordedOnce
<1>1. DeskInv /\ [DeskNext]_<<booksVars, formsVars>> => DeskInv'
  <2> SUFFICES ASSUME DeskInv, [DeskNext]_<<booksVars, formsVars>> PROVE DeskInv'
    OBVIOUS
  <2>1. /\ [IntakeNext]_booksVars
        /\ MatchNext \/ UNCHANGED matchVars
        /\ NumberNext \/ UNCHANGED numberVars
        /\ AttachNext \/ UNCHANGED attachVars
    BY PartsRest DEF DeskNext, formsVars
  <2> QED
    BY <2>1, BooksStep, MatchStep, NumberStep, AttachStep DEF DeskInv
<1>2. DeskInv => ToldOnceRecordedOnce
  BY BooksMatch DEF DeskInv, MatchInv, NumberInv, AttachInv, ToldOnceRecordedOnce, FormsRecordOnce
<1> QED
  BY <1>1, <1>2, DeskStarts, PTL DEF DeskSpec

-----------------------------------------------------------------------------
(* Days and lines of files *)

\* A format that begins with a year ends with the day, and every other begins with it.
LEMMA FormatsBegin ==
  ASSUME NEW f \in StampFormats
  PROVE  /\ Len(f.places) \in Nat \ {0}
         /\ \/ f.places[1] = {"dddd"} /\ f.day = 5
            \/ f.places[1] \in {Short, {"dddddddd"}} /\ f.day = 1
<1>1. /\ IsoDay \in Seq(SUBSET StampSymbols) /\ Len(IsoDay) = 5 /\ IsoDay[1] = {"dddd"}
      /\ <<{"time"}>> \in Seq(SUBSET StampSymbols) /\ Len(<<{"time"}>>) = 1
  BY DEF IsoDay, StampSymbols
<1>2. /\ Len(IsoDay \o <<{"time"}>>) = 6 /\ (IsoDay \o <<{"time"}>>)[1] = {"dddd"}
  <2>1. PICK D, s, t : s = IsoDay /\ t = <<{"time"}>> /\ D = SUBSET StampSymbols
    OBVIOUS
  <2>2. s \in Seq(D) /\ t \in Seq(D) /\ Len(s) = 5 /\ Len(t) = 1
    BY <1>1, <2>1
  <2>3. Len(s \o t) = Len(s) + Len(t)
    BY <2>2, Joined
  <2>4. (s \o t)[1] = s[1]
    <3>1. 1 \in 1..Len(s)
      BY <2>2
    <3> QED
      BY <2>2, <3>1, Joined
  <2>5. PICK st : st = s \o t /\ st = IsoDay \o <<{"time"}>>
    BY <2>1, Zenon
  <2>6. Len(s) + Len(t) = 6
    BY <2>2
  <2>7. s[1] = {"dddd"}
    BY <1>1, <2>1, Zenon
  <2>8. Len(st) = 6 /\ st[1] = {"dddd"}
    BY <2>3, <2>4, <2>5, <2>6, <2>7, Zenon
  <2> QED
    BY <2>5, <2>8, Zenon
<1>3. CASE f = Format(IsoDay, 5)
  BY <1>1, <1>3 DEF Format
<1>4. CASE f = Format(IsoDay \o <<{"time"}>>, 5)
  BY <1>2, <1>4 DEF Format
<1>5. CASE f = Format(<<{"dddddddd"}>>, 1)
  BY <1>5 DEF Format
<1>6. CASE f = Format(<<Short, {"/"}, Short, {"/"}, {"dddd"}>>, 1)
  BY <1>6 DEF Format
<1>7. CASE f = Format(<<Short, {"-"}, Short, {"-"}, {"dddd"}>>, 1)
  BY <1>7 DEF Format
<1>8. CASE f = Format(<<{"dddd"}, {"/"}, Short, {"/"}, Short>>, 5)
  BY <1>8 DEF Format
<1>9. CASE f = Format(<<Short, {"/"}, Short, {"/"}, {"dddd"}, {"time"}>>, 1)
  BY <1>9 DEF Format
<1>10. CASE f = Format(<<Short, {"space"}, {"Jan"}, {"space"}, {"dddd"}>>, 1)
  BY <1>10 DEF Format
<1> QED
  BY <1>3, <1>4, <1>5, <1>6, <1>7, <1>8, <1>9, <1>10 DEF StampFormats

\* No two formats that a stamp matches read different days of it.
LEMMA StampReadOnce ==
  ASSUME NEW s \in Seq(StampSymbols)
  PROVE  Cardinality(DaysRead(s)) <= 1
<1>1. ASSUME NEW f \in StampFormats, NEW g \in StampFormats, Matches(s, f), Matches(s, g)
      PROVE  f.day = g.day
  <2>1. Len(f.places) \in Nat \ {0}
    BY FormatsBegin
  <2>2. s[1] \in f.places[1] /\ s[1] \in g.places[1]
    <3>1. /\ Len(s) = Len(f.places) /\ DOMAIN s = 1..Len(s)
          /\ \A i \in DOMAIN s : s[i] \in f.places[i] /\ s[i] \in g.places[i]
      BY <1>1 DEF Matches
    <3>2. 1 \in DOMAIN s
      BY <2>1, <3>1
    <3> QED
      BY <3>1, <3>2
  <2>3. ~(s[1] \in {"dddd"} /\ s[1] \in Short \cup {"dddddddd"})
    BY DEF Short
  <2> QED
    BY <2>2, <2>3, FormatsBegin
<1>2. \A x, y \in DaysRead(s) : x = y
  BY <1>1 DEF DaysRead
<1> QED
  BY <1>2, FewApart

\* The heading is a line of the file, one of the first.
LEMMA HeadingIsALine ==
  ASSUME NEW file \in Seq(LineKinds), file # <<>>
  PROVE  HeadingAt(file) \in 1..Len(file) /\ HeadingAt(file) <= HeaderLines
<1> DEFINE found == {i \in DOMAIN file : i <= HeaderLines /\ file[i] = "heading"}
<1>1. found \subseteq Nat /\ HeaderLines \in Nat \ {0} /\ Len(file) \in Nat \ {0}
      /\ \A i \in found : i \in 1..Len(file) /\ i <= HeaderLines
  BY ReadingAssumption
<1>2. HeadingAt(file) = IF found = {} THEN 1 ELSE CHOOSE i \in found : \A j \in found : i <= j
  BY DEF HeadingAt
<1> HIDE DEF found
<1>3. CASE found = {}
  BY <1>1, <1>2, <1>3
<1>4. CASE found # {}
  <2>1. \E i \in found : \A j \in found : i <= j
    BY <1>1, <1>4, LeastNat
  <2>2. HeadingAt(file) \in found
    BY <1>2, <1>4, <2>1
  <2> QED
    BY <1>1, <2>2
<1> QED
  BY <1>3, <1>4

\* A file that is measured too long has too many rows wherever its heading stands.
LEMMA StatementReadWhole ==
  ASSUME NEW file \in Seq(LineKinds), file # <<>>
  PROVE  ReadStatement(file) # <<>> <=> Len(StatementRows(file)) \in 1..MaxRows
<1>1. /\ HeadingAt(file) \in 1..Len(file) /\ HeadingAt(file) <= HeaderLines
      /\ HeaderLines \in Nat /\ MaxRows \in Nat /\ Len(file) \in Nat
  BY HeadingIsALine, ReadingAssumption
<1>2. /\ StatementRows(file) \in Seq(LineKinds)
      /\ Len(StatementRows(file)) = Len(file) - HeadingAt(file)
  BY <1>1 DEF StatementRows
<1>3. TooLong(file) => Len(StatementRows(file)) \notin 1..MaxRows
  BY <1>1, <1>2 DEF TooLong
<1>4. Len(StatementRows(file)) \in 1..MaxRows => StatementRows(file) # <<>>
  BY <1>1, <1>2
<1> QED
  BY <1>3, <1>4 DEF ReadStatement

\* What is read of a template grows line by line, and counts its filled lines.
LEMMA FilledOfLines ==
  ASSUME NEW file \in Seq(LineKinds)
  PROVE  \A i \in 0..Len(file) :
           /\ FilledBelow(file)[i] \in Seq(LineKinds)
           /\ FilledBelow(file)[i] =
                IF i <= 1 THEN <<>>
                ELSE IF file[i] = "blank" THEN FilledBelow(file)[i - 1]
                ELSE Append(FilledBelow(file)[i - 1], file[i])
<1> DEFINE n == Len(file)
           V == Seq(LineKinds)
           next(i, v) == IF i <= 1 THEN <<>> ELSE IF file[i] = "blank" THEN v ELSE Append(v, file[i])
           step == [i \in 1..n |-> [v \in V |-> next(i, v)]]
           Fits(g) == g = [i \in 0..n |-> next(i, g[i - 1])]
<1>1. n \in Nat /\ <<>> \in V /\ \A i \in 1..n : file[i] \in LineKinds
  OBVIOUS
<1>2. \A i \in 1..n : \A v \in V : next(i, v) \in V
  BY <1>1
<1>3. step \in [1..n -> [V -> V]] /\ \A i \in 1..n : \A v \in V : step[i][v] = next(i, v)
  BY <1>2
<1> HIDE DEF step, V
<1>4. PICK f \in [0..n -> V] : f[0] = <<>> /\ \A i \in 1..n : f[i] = step[i][f[i - 1]]
  <2>1. Along(V, <<>>, n, step)
    BY <1>1, <1>3 DEF Along
  <2> QED
    BY <2>1, RecursionAlong
<1>5. \A i \in 0..n : i = 0 \/ (i \in 1..n /\ i - 1 \in 0..n)
  BY <1>1
<1>6. ASSUME NEW i \in 0..n PROVE f[i] = next(i, f[i - 1])
  <2>1. CASE i = 0
    BY <1>4, <2>1
  <2>2. CASE i \in 1..n /\ i - 1 \in 0..n
    <3>1. f[i] = step[i][f[i - 1]] /\ f[i - 1] \in V
      BY <1>4, <2>2
    <3> HIDE DEF next
    <3> QED
      BY <1>3, <2>2, <3>1
  <2> QED
    BY <1>5, <2>1, <2>2
<1>7. Fits(f)
  BY <1>4, <1>6
<1>8. FilledBelow(file) = CHOOSE g : Fits(g)
  BY DEF FilledBelow
<1> DEFINE filled == FilledBelow(file)
<1>9. Fits(filled)
  BY <1>7, <1>8
<1> HIDE DEF filled
<1>10. filled \in [0..n -> V]
  <2> DEFINE T == {i \in 0..n : filled[i] \notin V}
  <2>1. T = {}
    <3> SUFFICES ASSUME T # {} PROVE FALSE
      OBVIOUS
    <3>0. T \subseteq Nat
      OBVIOUS
    <3>1. PICK i \in T : \A j \in T : i <= j
      <4> HIDE DEF T
      <4> QED
        BY <3>0, LeastNat
    <3>2. i \in 1..n /\ i - 1 \in 0..n /\ i - 1 \notin T
      <4>1. filled[0] = <<>>
        BY <1>1, <1>9
      <4>2. i \in 0..n /\ i # 0
        BY <1>1, <3>1, <4>1
      <4> QED
        BY <1>1, <3>1, <4>2
    <3>3. filled[i] = next(i, filled[i - 1])
      BY <1>9, <3>1
    <3> QED
      BY <1>2, <3>1, <3>2, <3>3
  <2>2. DOMAIN filled = 0..n /\ filled = [i \in 0..n |-> filled[i]]
    BY <1>9
  <2> QED
    BY <2>1, <2>2
<1> QED
  BY <1>9, <1>10 DEF filled, V

\* What is read of a template has a row for each of its lines that is not blank.
LEMMA FilledCounted ==
  ASSUME NEW file \in Seq(LineKinds)
  PROVE  \A i \in 0..Len(file) :
           Len(FilledBelow(file)[i]) = Cardinality({j \in 2..i : file[j] # "blank"})
<1> DEFINE Rows(i) == {j \in 2..i : file[j] # "blank"}
           filled == FilledBelow(file)
           T == {i \in 0..Len(file) : Len(filled[i]) # Cardinality(Rows(i))}
<1> SUFFICES ASSUME T # {} PROVE FALSE
  OBVIOUS
<1>1. T \subseteq Nat /\ Len(file) \in Nat
  OBVIOUS
<1>2. PICK i : i \in T /\ \A j \in T : i <= j
  <2> HIDE DEF T
  <2> QED
    BY <1>1, LeastNat
<1>3. i \in 0..Len(file) /\ i \in Nat
  BY <1>1, <1>2
<1>4. filled[i] \in Seq(LineKinds)
      /\ filled[i] = IF i <= 1 THEN <<>>
                     ELSE IF file[i] = "blank" THEN filled[i - 1] ELSE Append(filled[i - 1], file[i])
  BY <1>3, FilledOfLines
<1>5. CASE i <= 1
  <2>1. Rows(i) = {} /\ filled[i] = <<>>
    BY <1>3, <1>4, <1>5
  <2> QED
    BY <1>2, <2>1, FS_EmptySet
<1>6. CASE i > 1
  <2>1. i - 1 \in 0..Len(file) /\ i - 1 \notin T
    <3>1. i - 1 \in 0..Len(file) /\ ~(i <= i - 1)
      BY <1>1, <1>3, <1>6
    <3> HIDE DEF T
    <3> QED
      BY <1>2, <3>1
  <2>2. Len(filled[i - 1]) = Cardinality(Rows(i - 1)) /\ filled[i - 1] \in Seq(LineKinds)
    BY <2>1, FilledOfLines
  <2>3. IsFiniteSet(Rows(i - 1)) /\ i \notin Rows(i - 1)
    <3>1. IsFiniteSet(2..(i - 1))
      BY <1>3, FS_Interval
    <3> QED
      BY <1>3, <3>1, FS_Subset
  <2>4. file[i] \in LineKinds
    BY <1>1, <1>3, <1>6
  <2>5. CASE file[i] = "blank"
    <3>1. Rows(i) = Rows(i - 1)
      BY <1>3, <2>5
    <3> QED
      BY <1>2, <1>4, <1>6, <2>2, <2>5, <3>1
  <2>6. CASE file[i] # "blank"
    <3>1. Rows(i) = Rows(i - 1) \cup {i}
      BY <1>3, <1>6, <2>6
    <3>2. Cardinality(Rows(i)) = Cardinality(Rows(i - 1)) + 1
      <4> HIDE DEF Rows
      <4> QED
        BY <2>3, <3>1, FS_AddElement
    <3>3. Len(filled[i]) = Len(filled[i - 1]) + 1
      <4>1. PICK s, r : s = filled[i - 1] /\ r = filled[i]
        OBVIOUS
      <4>2. s \in Seq(LineKinds) /\ r = Append(s, file[i])
        <5>1. filled[i] = Append(filled[i - 1], file[i])
          BY <1>3, <1>4, <1>6, <2>6
        <5> QED
          BY <2>2, <4>1, <5>1
      <4>3. Len(r) = Len(s) + 1
        BY <2>4, <4>2
      <4> QED
        BY <4>1, <4>3
    <3> QED
      BY <1>2, <2>2, <3>2, <3>3
  <2> QED
    BY <2>5, <2>6
<1> QED
  BY <1>3, <1>5, <1>6

\* A template is read to its last line or not at all, and none takes what a stricter refuses.
LEMMA FileReadWhole ==
  ASSUME NEW file \in Seq(LineKinds), file # <<>>
  PROVE  /\ \A rows \in {ReadBankTemplate(file), ReadAdTemplate(file), ReadObservations(file)} :
              rows # <<>> => Len(rows) = Cardinality({i \in 2..Len(file) : file[i] # "blank"})
         /\ ReadObservations(file) \in {<<>>, ReadAdTemplate(file)}
<1> DEFINE body == FilledBelow(file)[Len(file)]
<1>1. Len(body) = Cardinality({i \in 2..Len(file) : file[i] # "blank"})
  <2>1. Len(file) \in 0..Len(file)
    OBVIOUS
  <2> QED
    BY <2>1, FilledCounted
<1> HIDE DEF body
<1>2. \A refused : ReadTemplate(file, refused) \in {<<>>, body}
  BY DEF ReadTemplate, body
<1>3. ReadObservations(file) # <<>> => ReadAdTemplate(file) = body
  BY DEF ReadObservations, ReadAdTemplate, ReadTemplate, body
<1> QED
  BY <1>1, <1>2, <1>3 DEF ReadBankTemplate, ReadAdTemplate, ReadObservations

-----------------------------------------------------------------------------
(* Amounts *)

Points == {".", ","}

\* A text whose thousands are marked, or that has digits only, is nowhere cut.
LEMMA GroupedUncut ==
  ASSUME NEW s \in Seq(AmountSymbols), NEW mark, Grouped(s, mark), NEW point \in Points
  PROVE  Cut(s, point) = {}
<1> SUFFICES ASSUME NEW i \in Cut(s, point) PROVE FALSE
  OBVIOUS
<1>1. i \in DOMAIN s /\ s[i] = point /\ Len(s) - i \in {1, 2} /\ i \in Nat /\ Len(s) \in Nat
  BY DEF Cut
<1>2. (Len(s) - i) % 4 # 3
  BY <1>1
<1>3. s[i] \in Digits
  BY <1>1, <1>2 DEF Grouped, AllDigits
<1> QED
  BY <1>1, <1>3, ReadingAssumption DEF Points, Marks

\* A text is cut at one place: what stands right of a cut has digits only.
LEMMA CutOnce ==
  ASSUME NEW s \in Seq(AmountSymbols), NEW p \in Points, NEW q \in Points,
         NEW i \in Cut(s, p), NEW j \in Cut(s, q)
  PROVE  i = j
<1>1. \A point \in Points : \A k \in Cut(s, point) :
        /\ k \in 1..Len(s) /\ s[k] \notin Digits
        /\ \A l \in (k + 1)..Len(s) : s[l] \in Digits
  <2> SUFFICES ASSUME NEW point \in Points, NEW k \in Cut(s, point)
               PROVE  /\ k \in 1..Len(s) /\ s[k] \notin Digits
                      /\ \A l \in (k + 1)..Len(s) : s[l] \in Digits
    OBVIOUS
  <2>0. DOMAIN s = 1..Len(s)
    OBVIOUS
  <2>1. k \in 1..Len(s) /\ s[k] = point /\ AllDigits(SubSeq(s, k + 1, Len(s)))
    BY <2>0, Zenon DEF Cut
  <2>2. s[k] \notin Digits
    BY <2>1, ReadingAssumption DEF Points, Marks
  <2>3. ASSUME NEW l \in (k + 1)..Len(s) PROVE s[l] \in Digits
    <3>1. PICK rest : rest = SubSeq(s, k + 1, Len(s))
      OBVIOUS
    <3>2. l - k \in DOMAIN rest /\ rest[l - k] = s[l]
      BY <2>1, <3>1
    <3> QED
      BY <2>1, <3>1, <3>2 DEF AllDigits
  <2> QED
    BY <2>1, <2>2, <2>3
<1>2. i \in 1..Len(s) /\ j \in 1..Len(s) /\ Len(s) \in Nat
  BY <1>1
<1>3. ~(i < j) /\ ~(j < i)
  <2>1. i < j => j \in (i + 1)..Len(s)
    BY <1>2
  <2>2. j < i => i \in (j + 1)..Len(s)
    BY <1>2
  <2> QED
    BY <1>1, <2>1, <2>2
<1> QED
  BY <1>2, <1>3

\* The value of a text cut at i.
ValueCut(s, i) ==
  100 * NumberOf(SubSeq(s, 1, i - 1)) +
    NumberOf(SubSeq(s, i + 1, Len(s))) * (IF Len(s) - i = 1 THEN 10 ELSE 1)

\* An amount without a sign is the number it writes in whole, or its value cut at a point.
LEMMA UnsignedIs ==
  ASSUME NEW s, NEW mark, NEW point
  PROVE  /\ Grouped(s, mark) => Unsigned(s, mark, point) = {100 * NumberOf(s)}
         /\ ~Grouped(s, mark) =>
              \A v \in Unsigned(s, mark, point) :
                \E i \in Cut(s, point) : Grouped(SubSeq(s, 1, i - 1), mark) /\ v = ValueCut(s, i)
BY DEF Unsigned, ValueCut

\* All readings of an amount without a sign are one.
LEMMA UnsignedOnce ==
  ASSUME NEW s \in Seq(AmountSymbols), NEW m, NEW n, NEW p \in Points, NEW q \in Points,
         NEW x \in Unsigned(s, m, p), NEW y \in Unsigned(s, n, q)
  PROVE  x = y
<1>1. CASE Grouped(s, m) /\ Grouped(s, n)
  BY <1>1, UnsignedIs
<1>2. CASE Grouped(s, m) /\ ~Grouped(s, n)
  BY <1>2, UnsignedIs, GroupedUncut
<1>3. CASE ~Grouped(s, m) /\ Grouped(s, n)
  BY <1>3, UnsignedIs, GroupedUncut
<1>4. CASE ~Grouped(s, m) /\ ~Grouped(s, n)
  <2>1. PICK i \in Cut(s, p) : x = ValueCut(s, i)
    BY <1>4, UnsignedIs
  <2>2. PICK j \in Cut(s, q) : y = ValueCut(s, j)
    BY <1>4, UnsignedIs
  <2> QED
    BY <2>1, <2>2, CutOnce
<1> QED
  BY <1>1, <1>2, <1>3, <1>4

\* An amount without a sign begins with a digit.
LEMMA UnsignedBegins ==
  ASSUME NEW s \in Seq(AmountSymbols), NEW m, NEW p, Unsigned(s, m, p) # {}
  PROVE  s # <<>> /\ s[1] \in Digits
<1>1. CASE Grouped(s, m)
  BY <1>1 DEF Grouped
<1>2. CASE ~Grouped(s, m)
  <2>1. PICK i \in Cut(s, p) : Grouped(SubSeq(s, 1, i - 1), m)
    BY <1>2, UnsignedIs
  <2>2. i \in 1..Len(s)
    BY DEF Cut
  <2>3. PICK first : first = SubSeq(s, 1, i - 1)
    OBVIOUS
  <2>4. first # <<>> /\ first[1] \in Digits
    BY <2>1, <2>3 DEF Grouped
  <2>5. i - 1 >= 1 /\ first[1] = s[1]
    BY <2>2, <2>3, <2>4
  <2> QED
    BY <2>2, <2>4, <2>5
<1> QED
  BY <1>1, <1>2

\* What a number says under a sign.
LEMMA SignedIs ==
  ASSUME NEW s \in Seq(AmountSymbols), NEW m, NEW p
  PROVE  /\ s # <<>> /\ s[1] = "-" => Signed(s, m, p) = {- v : v \in Unsigned(Tail(s), m, p)}
         /\ ~(s # <<>> /\ s[1] = "-") => Signed(s, m, p) = Unsigned(s, m, p)
BY DEF Signed

\* All readings of an amount that may have a sign are one.
LEMMA SignedOnce ==
  ASSUME NEW s \in Seq(AmountSymbols), NEW m, NEW n, NEW p \in Points, NEW q \in Points,
         NEW x \in Signed(s, m, p), NEW y \in Signed(s, n, q)
  PROVE  x = y
<1>1. CASE s # <<>> /\ s[1] = "-"
  <2>0. PICK t : t = Tail(s)
    OBVIOUS
  <2>1. PICK u \in Unsigned(t, m, p) : x = - u
    BY <1>1, <2>0, SignedIs
  <2>2. PICK w \in Unsigned(t, n, q) : y = - w
    BY <1>1, <2>0, SignedIs
  <2>3. t \in Seq(AmountSymbols)
    BY <1>1, <2>0
  <2>4. u = w
    BY <2>3, UnsignedOnce
  <2> QED
    BY <2>1, <2>2, <2>4
<1>2. CASE ~(s # <<>> /\ s[1] = "-")
  BY <1>2, SignedIs, UnsignedOnce
<1> QED
  BY <1>1, <1>2

\* Where a sign or a bracket stands first, no reader without signs accepts the text.
LEMMA MarkedFirst ==
  ASSUME NEW s \in Seq(AmountSymbols), s # <<>>, s[1] \in {"-", "("}, NEW m, NEW p
  PROVE  Unsigned(s, m, p) = {}
BY UnsignedBegins, ReadingAssumption DEF Marks

\* A bracketed text is read as one with a sign, and any other as it stands.
LEMMA BracketedIs ==
  ASSUME NEW s \in Seq(AmountSymbols)
  PROVE  /\ Bracketed(s) \in Seq(AmountSymbols)
         /\ \/ Bracketed(s) = s
            \/ s # <<>> /\ s[1] = "("
<1>1. "-" \in AmountSymbols
  BY DEF AmountSymbols, Marks
<1>2. CASE Len(s) > 1 /\ Head(s) = "(" /\ s[Len(s)] = ")"
  <2>1. PICK sign, inner : sign = <<"-">> /\ inner = SubSeq(s, 2, Len(s) - 1)
    OBVIOUS
  <2>2. sign \in Seq(AmountSymbols) /\ inner \in Seq(AmountSymbols)
    BY <1>1, <1>2, <2>1
  <2>3. sign \o inner \in Seq(AmountSymbols)
    BY <2>2
  <2> QED
    BY <1>2, <2>1, <2>3 DEF Bracketed
<1>3. CASE ~(Len(s) > 1 /\ Head(s) = "(" /\ s[Len(s)] = ")")
  BY <1>3 DEF Bracketed
<1> QED
  BY <1>2, <1>3

\* Every reader reads the text, or the text without brackets, in one of the styles.
LEMMA ReadersRead ==
  ASSUME NEW s \in Seq(AmountSymbols), s # <<>>, s # <<"-">>,
         NEW x \in UNION AmountReaders(s)
  PROVE  \E m, p \in Points \cup {NoMark} :
           p \in Points /\ (x \in Signed(Bracketed(s), m, p) \/ x \in Signed(s, m, p))
<1>1. CASE x \in ParseMoney(s, "id")
  BY <1>1 DEF ParseMoney, Points
<1>2. CASE x \in ParseMoney(s, "en")
  BY <1>2 DEF ParseMoney, Points
<1>3. CASE x \in BankAmount(s)
  BY <1>3 DEF BankAmount, Points
<1>4. ASSUME x \in Unsigned(s, NoMark, ".")
      PROVE  x \in Signed(s, NoMark, ".")
  <2>1. s[1] # "-"
    BY <1>4, MarkedFirst
  <2> QED
    BY <1>4, <2>1, SignedIs
<1>5. CASE x \in ReportedMoney(s)
  BY <1>4, <1>5 DEF ReportedMoney, Points
<1>6. CASE x \in ReportedCount(s)
  <2>1. AllDigits(s) /\ x = 100 * NumberOf(s)
    BY <1>6 DEF ReportedCount
  <2>2. Grouped(s, NoMark)
    BY <2>1 DEF Grouped, AllDigits
  <2>3. x \in Unsigned(s, NoMark, ".")
    BY <2>1, <2>2, UnsignedIs
  <2> QED
    BY <1>4, <2>3 DEF Points
<1> QED
  BY <1>1, <1>2, <1>3, <1>5, <1>6 DEF AmountReaders

\* Whatever readers accept an amount, they accept it with one value.
LEMMA AmountReadOnce ==
  ASSUME NEW s \in Seq(AmountSymbols), s # <<>>, s # <<"-">>
  PROVE  Cardinality(UNION AmountReaders(s)) <= 1
<1>1. Bracketed(s) \in Seq(AmountSymbols)
  BY BracketedIs
<1>2. ASSUME Bracketed(s) # s, NEW m, NEW p PROVE Signed(s, m, p) = {}
  <2>1. s[1] = "("
    BY <1>2, BracketedIs
  <2> QED
    BY <2>1, MarkedFirst, SignedIs
<1>3. ASSUME NEW x \in UNION AmountReaders(s)
      PROVE  \E m, p : p \in Points /\ x \in Signed(Bracketed(s), m, p)
  <2>1. CASE Bracketed(s) = s
    BY <2>1, ReadersRead
  <2>2. CASE Bracketed(s) # s
    BY <1>2, <2>2, ReadersRead
  <2> QED
    BY <2>1, <2>2
<1>4. ASSUME NEW x \in UNION AmountReaders(s), NEW y \in UNION AmountReaders(s)
      PROVE  x = y
  BY <1>1, <1>3, SignedOnce
<1> QED
  BY <1>4, FewApart

-----------------------------------------------------------------------------
(* Amounts written and read again *)

\* A digit added on the right moves the number by one place.
Worth(n, symbol) == IF symbol \in Digits THEN 10 * n + DigitValue[symbol] ELSE n

\* What a number is read as, symbol by symbol.
LEMMA NumbersRead ==
  ASSUME NEW D, NEW s \in Seq(D)
  PROVE  /\ NumbersOf(s)[0] = 0
         /\ \A i \in 0..Len(s) : NumbersOf(s)[i] \in Nat
         /\ \A i \in 1..Len(s) : NumbersOf(s)[i] = Worth(NumbersOf(s)[i - 1], s[i])
<1> DEFINE n == Len(s)
           step == [i \in 1..n |-> [v \in Nat |-> Worth(v, s[i])]]
           Fits(g) == g = [i \in 0..n |-> IF i = 0 THEN 0 ELSE Worth(g[i - 1], s[i])]
<1>1. n \in Nat
  OBVIOUS
<1>2. ASSUME NEW i \in 1..n, NEW v \in Nat PROVE Worth(v, s[i]) \in Nat
  <2>1. ASSUME s[i] \in Digits PROVE DigitValue[s[i]] \in Nat
    BY <2>1, ReadingAssumption
  <2> QED
    BY <2>1 DEF Worth
<1>3. step \in [1..n -> [Nat -> Nat]] /\ \A i \in 1..n : \A v \in Nat : step[i][v] = Worth(v, s[i])
  BY <1>2
<1> HIDE DEF step
<1>4. PICK f \in [0..n -> Nat] : f[0] = 0 /\ \A i \in 1..n : f[i] = step[i][f[i - 1]]
  <2>1. Along(Nat, 0, n, step)
    BY <1>1, <1>3 DEF Along
  <2> QED
    BY <2>1, RecursionAlong
<1>5. \A i \in 0..n : i = 0 \/ (i \in 1..n /\ i - 1 \in 0..n)
  BY <1>1
<1>6. \A i \in 0..n : f[i] = IF i = 0 THEN 0 ELSE Worth(f[i - 1], s[i])
  BY <1>1, <1>3, <1>4, <1>5
<1>7. Fits(f)
  BY <1>4, <1>6
<1>8. NumbersOf(s) = CHOOSE g : Fits(g)
  BY DEF NumbersOf, Worth
<1> DEFINE read == NumbersOf(s)
<1>9. Fits(read)
  BY <1>7, <1>8
<1> HIDE DEF read
<1>10. /\ read[0] = 0
       /\ \A i \in 1..n : read[i] = Worth(read[i - 1], s[i])
  <2>1. 0 \in 0..n /\ \A i \in 1..n : i \in 0..n /\ i # 0
    BY <1>1
  <2> QED
    BY <1>9, <2>1
<1>11. \A i \in 0..n : read[i] = f[i]
  <2> DEFINE T == {i \in 0..n : read[i] # f[i]}
  <2> SUFFICES ASSUME T # {} PROVE FALSE
    OBVIOUS
  <2>0. T \subseteq Nat
    OBVIOUS
  <2>1. PICK i \in T : \A j \in T : i <= j
    <3> HIDE DEF T
    <3> QED
      BY <2>0, LeastNat
  <2>2. i \in 1..n /\ i - 1 \in 0..n /\ ~(i <= i - 1)
    BY <1>4, <1>5, <1>10, <2>1
  <2>3. read[i - 1] = f[i - 1]
    BY <2>1, <2>2
  <2>4. f[i] = Worth(f[i - 1], s[i])
    BY <1>6, <2>2
  <2> QED
    BY <1>10, <2>1, <2>2, <2>3, <2>4
<1> QED
  BY <1>4, <1>10, <1>11 DEF read

\* Reading on after some symbols does not change what they were read as.
LEMMA NumberAppended ==
  ASSUME NEW D, NEW s \in Seq(D), NEW d \in D
  PROVE  NumberOf(Append(s, d)) = Worth(NumberOf(s), d)
<1>1. PICK t : t = Append(s, d)
  OBVIOUS
<1>2. /\ t \in Seq(D) /\ Len(t) = Len(s) + 1 /\ t[Len(s) + 1] = d
      /\ \A i \in 1..Len(s) : t[i] = s[i]
      /\ Len(s) \in Nat
  BY <1>1
<1> DEFINE T == {i \in 0..Len(s) : NumbersOf(t)[i] # NumbersOf(s)[i]}
<1>3. T = {}
  <2> SUFFICES ASSUME T # {} PROVE FALSE
    OBVIOUS
  <2>0. T \subseteq Nat
    OBVIOUS
  <2>1. PICK i \in T : \A j \in T : i <= j
    <3> HIDE DEF T
    <3> QED
      BY <2>0, LeastNat
  <2>2. i # 0
    BY <1>2, <2>1, NumbersRead
  <2>3. i \in 1..Len(s) /\ i \in 1..Len(t) /\ i - 1 \in 0..Len(s) /\ ~(i <= i - 1)
    BY <1>2, <2>1, <2>2
  <2>4. NumbersOf(t)[i - 1] = NumbersOf(s)[i - 1]
    BY <2>1, <2>3
  <2>5. NumbersOf(t)[i] = Worth(NumbersOf(t)[i - 1], t[i])
    BY <1>2, <2>3, NumbersRead
  <2>6. NumbersOf(s)[i] = Worth(NumbersOf(s)[i - 1], s[i])
    BY <2>3, NumbersRead
  <2> QED
    BY <1>2, <2>1, <2>3, <2>4, <2>5, <2>6
<1>4. NumbersOf(t)[Len(s)] = NumbersOf(s)[Len(s)]
  BY <1>2, <1>3
<1>5. NumbersOf(t)[Len(s) + 1] = Worth(NumbersOf(t)[Len(s)], d)
  <2>1. Len(s) + 1 \in 1..Len(t) /\ Len(s) + 1 - 1 = Len(s)
    BY <1>2
  <2>2. NumbersOf(t)[Len(s) + 1] = Worth(NumbersOf(t)[Len(s) + 1 - 1], t[Len(s) + 1])
    BY <1>2, <2>1, NumbersRead
  <2> QED
    BY <1>2, <2>1, <2>2
<1> QED
  BY <1>1, <1>2, <1>4, <1>5 DEF NumberOf

\* The numbers of one and of two digits.
LEMMA ShortNumbers ==
  ASSUME NEW s \in Seq(Digits)
  PROVE  /\ Len(s) = 1 => NumberOf(s) = DigitValue[s[1]]
         /\ Len(s) = 2 => NumberOf(s) = 10 * DigitValue[s[1]] + DigitValue[s[2]]
<1> DEFINE read == NumbersOf(s)
<1>1. /\ read[0] = 0 /\ \A i \in 1..Len(s) : read[i] = Worth(read[i - 1], s[i])
      /\ \A i \in 1..Len(s) : s[i] \in Digits /\ DigitValue[s[i]] \in 0..9
  BY NumbersRead, ReadingAssumption
<1>2. \A i \in 1..Len(s) : read[i] = 10 * read[i - 1] + DigitValue[s[i]]
  BY <1>1 DEF Worth
<1> HIDE DEF read
<1>3. CASE Len(s) = 1
  <2>1. 1 \in 1..Len(s)
    BY <1>3
  <2>2. read[1] = 10 * read[0] + DigitValue[s[1]]
    BY <1>2, <2>1
  <2> QED
    BY <1>1, <1>3, <2>1, <2>2 DEF NumberOf, read
<1>4. CASE Len(s) = 2
  <2>1. 1 \in 1..Len(s) /\ 2 \in 1..Len(s)
    BY <1>4
  <2>2. read[1] = 10 * read[0] + DigitValue[s[1]] /\ read[2] = 10 * read[1] + DigitValue[s[2]]
    BY <1>2, <2>1
  <2>3. read[2] = 10 * DigitValue[s[1]] + DigitValue[s[2]]
    BY <1>1, <2>1, <2>2
  <2> QED
    BY <1>4, <2>3 DEF NumberOf, read
<1> QED
  BY <1>3, <1>4

\* The digit of a value that a digit has.
Values == {DigitValue[d] : d \in Digits}

\* Every value of a digit has a digit that is written for it, and 0 is one of the values.
LEMMA DigitOfValue ==
  /\ 0 \in Values /\ Values \subseteq 0..9
  /\ \A v \in Values : DigitOf(v) \in Digits /\ DigitValue[DigitOf(v)] = v
<1>1. \A v \in Values : \E d \in Digits : DigitValue[d] = v
  BY DEF Values
<1>2. \A v \in Values : DigitOf(v) \in Digits /\ DigitValue[DigitOf(v)] = v
  BY <1>1 DEF DigitOf
<1> QED
  BY <1>2, ReadingAssumption DEF Values

\* The text of a number: the digits of its tens, and one more.
LEMMA WholeDigitsAre ==
  \A n \in Nat : WholeDigits[n] = IF n < 10 THEN <<DigitOf(n)>>
                                  ELSE Append(WholeDigits[n \div 10], DigitOf(n % 10))
<1> DEFINE D == {DigitOf(n) : n \in 0..9}
           V == Seq(D)
           next(n, v) == IF n < 10 THEN <<DigitOf(n)>> ELSE Append(v, DigitOf(n % 10))
           before == [n \in Nat |-> n \div 10]
           step == [n \in Nat |-> [v \in V |-> next(n, v)]]
           Fits(g) == g = [n \in Nat |-> next(n, g[n \div 10])]
<1>1. /\ before \in [Nat -> Nat] /\ \A n \in Nat \ {0} : before[n] < n
      /\ \A n \in Nat : before[n] = n \div 10
  <2>1. \A n \in Nat : n \div 10 \in Nat /\ (n # 0 => n \div 10 < n)
    OBVIOUS
  <2> QED
    BY <2>1
<1>2. \A n \in Nat : \A v \in V : next(n, v) \in V
  <2>1. \A n \in Nat : n % 10 \in 0..9 /\ (n < 10 => n \in 0..9)
    OBVIOUS
  <2>2. \A n \in Nat : DigitOf(n % 10) \in D /\ (n < 10 => DigitOf(n) \in D)
    BY <2>1
  <2> HIDE DEF D
  <2> QED
    BY <2>2
<1>3. step \in [Nat -> [V -> V]] /\ \A n \in Nat : \A v \in V : step[n][v] = next(n, v)
  BY <1>2
<1>4. <<DigitOf(0)>> \in V
  <2>1. DigitOf(0) \in D
    OBVIOUS
  <2> HIDE DEF D
  <2> QED
    BY <2>1
<1> HIDE DEF before, step, V, D
<1>5. PICK f \in [Nat -> V] :
        f[0] = <<DigitOf(0)>> /\ \A n \in Nat \ {0} : f[n] = step[n][f[before[n]]]
  <2>1. Recursion(V, <<DigitOf(0)>>, before, step)
    BY <1>1, <1>3, <1>4 DEF Recursion
  <2> QED
    BY <2>1, RecursionDefines
<1>6. \A n \in Nat : f[n] = next(n, f[n \div 10])
  <2> SUFFICES ASSUME NEW n \in Nat PROVE f[n] = next(n, f[n \div 10])
    OBVIOUS
  <2>1. CASE n = 0
    BY <1>5, <2>1
  <2>2. CASE n # 0
    <3>1. before[n] = n \div 10 /\ before[n] \in Nat
      BY <1>1
    <3>2. PICK v : v = f[n \div 10]
      OBVIOUS
    <3>3. v \in V /\ f[n] = step[n][v]
      BY <1>5, <2>2, <3>1, <3>2
    <3>4. step[n][v] = next(n, v)
      BY <1>3, <3>3
    <3> HIDE DEF next
    <3> QED
      BY <3>2, <3>3, <3>4
  <2> QED
    BY <2>1, <2>2
<1>7. Fits(f)
  BY <1>5, <1>6
<1>8. WholeDigits = CHOOSE g : Fits(g)
  BY DEF WholeDigits
<1>9. Fits(WholeDigits)
  BY <1>7, <1>8
<1> QED
  BY <1>9

\* The numbers whose text is read as themselves.
Spelled ==
  {n \in Nat : /\ WholeDigits[n] \in Seq(Digits) /\ WholeDigits[n] # <<>>
               /\ NumberOf(WholeDigits[n]) = n}

\* A number of one digit can be written.
LEMMA ValuesSpelled == Values \subseteq Spelled
<1> SUFFICES ASSUME NEW v \in Values PROVE v \in Spelled
  OBVIOUS
<1>1. v \in 0..9 /\ DigitOf(v) \in Digits /\ DigitValue[DigitOf(v)] = v
  BY DigitOfValue
<1>2. PICK s : s = WholeDigits[v]
  OBVIOUS
<1>3. s = <<DigitOf(v)>>
  <2>1. v \in Nat /\ v < 10
    BY <1>1
  <2>2. WholeDigits[v] = IF v < 10 THEN <<DigitOf(v)>>
                         ELSE Append(WholeDigits[v \div 10], DigitOf(v % 10))
    BY <2>1, WholeDigitsAre
  <2> QED
    BY <1>2, <2>1, <2>2, Zenon
<1>4. s \in Seq(Digits) /\ Len(s) = 1 /\ s[1] = DigitOf(v) /\ s # <<>>
  BY <1>1, <1>3
<1>5. NumberOf(s) = v
  BY <1>1, <1>4, ShortNumbers
<1> QED
  BY <1>1, <1>2, <1>4, <1>5 DEF Spelled

\* With a digit more a number is spelled as well.
LEMMA SpelledOn ==
  ASSUME NEW n \in Spelled, NEW v \in Values
  PROVE  10 * n + v \in Spelled
<1>1. v \in 0..9 /\ DigitOf(v) \in Digits /\ DigitValue[DigitOf(v)] = v /\ n \in Nat
  BY DigitOfValue DEF Spelled
<1>2. CASE n = 0
  <2>1. 10 * n + v = v
    BY <1>1, <1>2
  <2> QED
    BY <2>1, ValuesSpelled
<1>3. CASE n # 0
  <2>1. PICK m : m = 10 * n + v
    OBVIOUS
  <2>2. m \in Nat /\ ~(m < 10) /\ m \div 10 = n /\ m % 10 = v
    BY <1>1, <1>3, <2>1
  <2>3. PICK s : s = WholeDigits[n]
    OBVIOUS
  <2>4. s \in Seq(Digits) /\ NumberOf(s) = n
    BY <2>3 DEF Spelled
  <2>5. PICK t : t = WholeDigits[m]
    OBVIOUS
  <2>6. t = Append(s, DigitOf(v))
    BY <2>2, <2>3, <2>5, WholeDigitsAre
  <2>7. NumberOf(t) = Worth(NumberOf(s), DigitOf(v))
    BY <1>1, <2>4, <2>6, NumberAppended
  <2>8. NumberOf(t) = m
    BY <1>1, <2>1, <2>4, <2>7 DEF Worth
  <2>9. t \in Seq(Digits) /\ t # <<>>
    BY <1>1, <2>4, <2>6
  <2> QED
    BY <2>1, <2>2, <2>5, <2>8, <2>9 DEF Spelled
<1> QED
  BY <1>2, <1>3

\* Every number that is read can be written.
LEMMA NumberIsSpelled ==
  ASSUME NEW D, NEW s \in Seq(D)
  PROVE  NumberOf(s) \in Spelled
<1> DEFINE T == {i \in 0..Len(s) : NumbersOf(s)[i] \notin Spelled}
<1>1. T = {}
  <2> SUFFICES ASSUME T # {} PROVE FALSE
    OBVIOUS
  <2>0. T \subseteq Nat
    OBVIOUS
  <2>1. PICK i \in T : \A j \in T : i <= j
    <3> HIDE DEF T
    <3> QED
      BY <2>0, LeastNat
  <2>2. i # 0
    BY <2>1, NumbersRead, DigitOfValue, ValuesSpelled
  <2>3. i \in 1..Len(s) /\ i - 1 \in 0..Len(s) /\ ~(i <= i - 1)
    BY <2>1, <2>2
  <2>4. NumbersOf(s)[i - 1] \in Spelled
    BY <2>1, <2>3
  <2>5. NumbersOf(s)[i] = Worth(NumbersOf(s)[i - 1], s[i])
    BY <2>3, NumbersRead
  <2>6. s[i] \in Digits => DigitValue[s[i]] \in Values
    BY DEF Values
  <2>7. NumbersOf(s)[i] \in Spelled
    BY <2>4, <2>5, <2>6, SpelledOn DEF Worth
  <2> QED
    BY <2>1, <2>7
<1>2. Len(s) \in 0..Len(s)
  OBVIOUS
<1> QED
  BY <1>1, <1>2 DEF NumberOf

\* An amount in hundredths: a number that can be written, tenths and hundredths.
Amount(u) == \E n \in Spelled, c, e \in Values : u = 100 * n + 10 * c + e

\* What an amount without a sign is read as is an amount that can be written.
LEMMA UnsignedAmounts ==
  ASSUME NEW s \in Seq(AmountSymbols), NEW m, NEW p \in Points, NEW u \in Unsigned(s, m, p)
  PROVE  Amount(u)
<1>0. 0 \in Values /\ Values \subseteq 0..9 /\ Spelled \subseteq Nat
  BY DigitOfValue DEF Spelled
<1>1. CASE Grouped(s, m)
  <2>1. PICK n \in Spelled : u = 100 * n
    BY <1>1, UnsignedIs, NumberIsSpelled
  <2>2. u = 100 * n + 10 * 0 + 0
    BY <1>0, <2>1
  <2> QED
    BY <1>0, <2>2 DEF Amount
<1>2. CASE ~Grouped(s, m)
  <2>1. PICK i \in Cut(s, p) : u = ValueCut(s, i)
    BY <1>2, UnsignedIs
  <2>2. PICK a, b : a = SubSeq(s, 1, i - 1) /\ b = SubSeq(s, i + 1, Len(s))
    OBVIOUS
  <2>3. i \in 1..Len(s) /\ Len(s) - i \in {1, 2} /\ AllDigits(b)
    <3>1. DOMAIN s = 1..Len(s)
      OBVIOUS
    <3> QED
      BY <2>2, <3>1, Zenon DEF Cut
  <2>4. a \in Seq(AmountSymbols) /\ b \in Seq(AmountSymbols) /\ Len(b) = Len(s) - i
    BY <2>2, <2>3
  <2>5. b \in Seq(Digits)
    BY <2>3, <2>4 DEF AllDigits
  <2>6. PICK n \in Spelled : n = NumberOf(a)
    BY <2>4, NumberIsSpelled
  <2>7. u = 100 * n + NumberOf(b) * (IF Len(b) = 1 THEN 10 ELSE 1)
    BY <2>1, <2>2, <2>4, <2>6 DEF ValueCut
  <2>8. \A j \in 1..Len(b) : DigitValue[b[j]] \in Values
    BY <2>5 DEF Values
  <2>9. CASE Len(b) = 1
    <3>1. PICK c \in Values : c = DigitValue[b[1]]
      BY <2>8, <2>9
    <3>2. NumberOf(b) = c
      BY <2>5, <2>9, <3>1, ShortNumbers
    <3>3. u = 100 * n + 10 * c + 0
      BY <1>0, <2>7, <2>9, <3>2
    <3> QED
      BY <1>0, <3>3 DEF Amount
  <2>10. CASE Len(b) = 2
    <3>1. PICK c, e \in Values : c = DigitValue[b[1]] /\ e = DigitValue[b[2]]
      BY <2>8, <2>10
    <3>2. NumberOf(b) = 10 * c + e
      BY <2>5, <2>10, <3>1, ShortNumbers
    <3>3. u = 100 * n + 10 * c + e
      BY <1>0, <2>7, <2>10, <3>2
    <3> QED
      BY <3>3 DEF Amount
  <2> QED
    BY <2>3, <2>4, <2>9, <2>10
<1> QED
  BY <1>1, <1>2

\* An amount u of n wholes, c tenths and e hundredths, the text q of its wholes and its own, t.
Spells(n, c, e, u, q, t) ==
  /\ n \in Spelled /\ c \in Values /\ e \in Values /\ u = 100 * n + 10 * c + e
  /\ q = WholeDigits[n] /\ t = WrittenUnsigned(u)

\* The places of a written amount.
LEMMA WrittenOut ==
  ASSUME NEW n, NEW c, NEW e, NEW u, NEW q, NEW t, Spells(n, c, e, u, q, t)
  PROVE  /\ u \in Nat /\ n \in Nat
         /\ q \in Seq(Digits) /\ q # <<>> /\ NumberOf(q) = n
         /\ t \in Seq(AmountSymbols) /\ Len(t) = Len(q) + 3
         /\ \A i \in 1..Len(q) : t[i] = q[i]
         /\ t[Len(q) + 1] = "." /\ t[Len(q) + 2] = DigitOf(c) /\ t[Len(q) + 3] = DigitOf(e)
<1>0. /\ n \in Spelled /\ c \in Values /\ e \in Values /\ u = 100 * n + 10 * c + e
      /\ q = WholeDigits[n] /\ t = WrittenUnsigned(u)
  BY DEF Spells
<1>1. /\ n \in Nat /\ c \in 0..9 /\ e \in 0..9
      /\ DigitOf(c) \in Digits /\ DigitOf(e) \in Digits
      /\ q \in Seq(Digits) /\ q # <<>> /\ NumberOf(q) = n
  BY <1>0, DigitOfValue DEF Spelled
<1>2. u \in Nat /\ u \div 100 = n /\ (u \div 10) % 10 = c /\ u % 10 = e
  <2>1. u = 10 * (10 * n + c) + e /\ u = 100 * n + (10 * c + e)
    BY <1>0, <1>1
  <2>2. u \in Nat /\ u % 10 = e /\ u \div 10 = 10 * n + c
    BY <1>1, <2>1
  <2>3. (u \div 10) % 10 = c
    BY <1>1, <2>2
  <2>4. u \div 100 = n
    BY <1>1, <2>1
  <2> QED
    BY <2>2, <2>3, <2>4
<1>3. PICK r : r = <<".", DigitOf(c), DigitOf(e)>>
  OBVIOUS
<1>4. t = q \o r
  BY <1>0, <1>2, <1>3, Zenon DEF WrittenUnsigned
<1>5. /\ r \in Seq(AmountSymbols) /\ Len(r) = 3
      /\ r[1] = "." /\ r[2] = DigitOf(c) /\ r[3] = DigitOf(e)
  <2>1. "." \in AmountSymbols /\ DigitOf(c) \in AmountSymbols /\ DigitOf(e) \in AmountSymbols
    BY <1>1 DEF AmountSymbols, Marks
  <2> QED
    BY <1>3, <2>1, ThreeSymbols
<1>6. q \in Seq(AmountSymbols)
  BY <1>1 DEF AmountSymbols
<1>7. /\ t \in Seq(AmountSymbols) /\ Len(t) = Len(q) + Len(r)
      /\ \A i \in 1..Len(q) : t[i] = q[i]
      /\ \A i \in 1..Len(r) : t[Len(q) + i] = r[i]
  <2>1. PICK x : x = q \o r
    OBVIOUS
  <2>2. /\ x \in Seq(AmountSymbols) /\ Len(x) = Len(q) + Len(r)
        /\ \A i \in 1..Len(q) : x[i] = q[i]
        /\ \A i \in 1..Len(r) : x[Len(q) + i] = r[i]
    <3>1. r \in Seq(AmountSymbols)
      BY <1>5
    <3> QED
      BY <1>6, <2>1, <3>1, Joined
  <2>3. x = t
    BY <1>4, <2>1, Zenon
  <2> QED
    BY <2>2, <2>3, Zenon
<1>8. Len(t) = Len(q) + 3 /\ 1 \in 1..Len(r) /\ 2 \in 1..Len(r) /\ 3 \in 1..Len(r)
  BY <1>5, <1>7
<1> QED
  BY <1>1, <1>2, <1>5, <1>7, <1>8

\* A written amount is read, without a mark between thousands, as what was written.
LEMMA WrittenIsRead ==
  ASSUME NEW u, Amount(u)
  PROVE  /\ u \in Nat /\ WrittenUnsigned(u) \in Seq(AmountSymbols)
         /\ WrittenUnsigned(u) # <<>> /\ WrittenUnsigned(u)[1] # "-"
         /\ Unsigned(WrittenUnsigned(u), NoMark, ".") = {u}
<1>1. PICK n \in Spelled, c \in Values, e \in Values : u = 100 * n + 10 * c + e
  BY DEF Amount
<1>2. PICK q, t : q = WholeDigits[n] /\ t = WrittenUnsigned(u)
  OBVIOUS
<1>3. /\ u \in Nat /\ n \in Nat
      /\ q \in Seq(Digits) /\ q # <<>> /\ NumberOf(q) = n
      /\ t \in Seq(AmountSymbols) /\ Len(t) = Len(q) + 3
      /\ \A i \in 1..Len(q) : t[i] = q[i]
      /\ t[Len(q) + 1] = "." /\ t[Len(q) + 2] = DigitOf(c) /\ t[Len(q) + 3] = DigitOf(e)
  <2>1. Spells(n, c, e, u, q, t)
    BY <1>1, <1>2 DEF Spells
  <2> QED
    BY <2>1, WrittenOut
<1>4. DigitOf(c) \in Digits /\ DigitOf(e) \in Digits /\ c \in 0..9 /\ e \in 0..9
      /\ DigitValue[DigitOf(c)] = c /\ DigitValue[DigitOf(e)] = e
  BY DigitOfValue
<1> DEFINE i == Len(q) + 1
<1>5. i \in 1..Len(t) /\ Len(t) - i = 2 /\ i \in Nat \ {0, 1} /\ i - 1 = Len(q)
  BY <1>3
<1>6. PICK a, b : a = SubSeq(t, 1, i - 1) /\ b = SubSeq(t, i + 1, Len(t))
  OBVIOUS
<1>7. a = q
  <2>1. a \in Seq(AmountSymbols) /\ Len(a) = Len(q) /\ \A j \in 1..Len(q) : a[j] = t[j]
    BY <1>3, <1>5, <1>6
  <2> QED
    BY <1>3, <2>1
<1>8. b \in Seq(Digits) /\ Len(b) = 2 /\ b[1] = DigitOf(c) /\ b[2] = DigitOf(e)
  <2>1. b \in Seq(AmountSymbols) /\ Len(b) = 2 /\ b[1] = t[i + 1] /\ b[2] = t[i + 2]
    BY <1>3, <1>5, <1>6
  <2>2. b[1] = DigitOf(c) /\ b[2] = DigitOf(e)
    BY <1>3, <2>1
  <2>3. \A j \in 1..2 : j = 1 \/ j = 2
    OBVIOUS
  <2>4. \A j \in 1..2 : b[j] \in Digits
    BY <1>4, <2>2, <2>3
  <2>5. \A j \in 1..Len(b) : b[j] \in Digits
    BY <2>1, <2>4
  <2>6. b \in Seq(Digits)
    BY <2>1, <2>5, TextOf
  <2> QED
    BY <2>1, <2>2, <2>6
<1>9. NumberOf(b) = 10 * c + e
  BY <1>4, <1>8, ShortNumbers
<1>10. i \in Cut(t, ".")
  BY <1>3, <1>5, <1>6, <1>8 DEF Cut, AllDigits
<1>11. Cut(t, ".") = {i}
  <2>1. "." \in Points
    BY DEF Points
  <2>2. \A j \in Cut(t, ".") : j = i
    BY <1>3, <1>10, <2>1, CutOnce
  <2> QED
    BY <1>10, <2>2
<1>12. ~Grouped(t, NoMark)
  BY <1>3, <1>10, GroupedUncut DEF Points
<1>13. Grouped(q, NoMark)
  BY <1>3 DEF Grouped, AllDigits
<1>14. ValueCut(t, i) = u
  <2>1. ValueCut(t, i) = 100 * NumberOf(a) + NumberOf(b) * (IF Len(t) - i = 1 THEN 10 ELSE 1)
    BY <1>6, Zenon DEF ValueCut
  <2>2. NumberOf(a) = n
    BY <1>3, <1>7
  <2> HIDE DEF i
  <2> QED
    BY <1>1, <1>3, <1>4, <1>5, <1>9, <2>1, <2>2
<1>15. Unsigned(t, NoMark, ".") = {ValueCut(t, j) : j \in {k \in Cut(t, ".") : Grouped(SubSeq(t, 1, k - 1), NoMark)}}
  BY <1>12, Zenon DEF Unsigned, ValueCut
<1>16. {k \in Cut(t, ".") : Grouped(SubSeq(t, 1, k - 1), NoMark)} = {i}
  BY <1>6, <1>7, <1>11, <1>13
<1>17. Unsigned(t, NoMark, ".") = {u}
  BY <1>14, <1>15, <1>16
<1>18. t # <<>> /\ t[1] # "-"
  <2>1. 1 \in 1..Len(q) /\ q[1] \in Digits
    BY <1>3
  <2>2. t[1] = q[1]
    BY <1>3, <2>1
  <2>3. "-" \notin Digits
    BY ReadingAssumption DEF Marks
  <2> QED
    BY <1>3, <2>1, <2>2, <2>3
<1> QED
  BY <1>2, <1>3, <1>17, <1>18

\* What is shown of an amount is what is booked: its canonical form is accepted with its value.
LEMMA PreviewBooks ==
  ASSUME NEW s \in Seq(AmountSymbols), NEW format \in {"id", "en"},
         NEW v \in ParseMoney(s, format) \ {0}
  PROVE  BankAmount(Written(v)) = {v}
<1>1. PICK r \in Seq(AmountSymbols), p \in Points, m \in Points :
        v \in Signed(r, m, p)
  <2>1. ParseMoney(s, format) \in
          {{0}, Signed(Bracketed(s), ".", ","), Signed(Bracketed(s), ",", ".")}
    BY DEF ParseMoney
  <2> QED
    BY <2>1, BracketedIs DEF Points
<1>2. v \in Int /\ (Amount(v) \/ Amount(- v))
  <2>1. CASE r # <<>> /\ r[1] = "-"
    <3>1. PICK w : w \in Unsigned(Tail(r), m, p) /\ v = - w
      BY <1>1, <2>1, SignedIs
    <3>2. PICK t : t = Tail(r)
      OBVIOUS
    <3>3. t \in Seq(AmountSymbols)
      BY <2>1, <3>2
    <3>4. Amount(w)
      BY <3>1, <3>2, <3>3, UnsignedAmounts
    <3>5. w \in Nat
      BY <3>4, WrittenIsRead
    <3> QED
      BY <3>1, <3>4, <3>5
  <2>2. CASE ~(r # <<>> /\ r[1] = "-")
    <3>1. v \in Unsigned(r, m, p)
      BY <1>1, <2>2, SignedIs
    <3>2. Amount(v)
      BY <3>1, UnsignedAmounts
    <3> QED
      BY <3>2, WrittenIsRead
  <2> QED
    BY <2>1, <2>2
<1>3. CASE Amount(v)
  <2>1. PICK t : t = WrittenUnsigned(v)
    OBVIOUS
  <2>2. v \in Nat /\ t \in Seq(AmountSymbols) /\ t # <<>> /\ t[1] # "-" /\ Unsigned(t, NoMark, ".") = {v}
    BY <1>3, <2>1, WrittenIsRead
  <2>3. Written(v) = t /\ Signed(t, NoMark, ".") = {v}
    BY <2>1, <2>2, SignedIs DEF Written
  <2> QED
    BY <2>3 DEF BankAmount
<1>4. CASE v \in Int /\ Amount(- v)
  <2>1. PICK t, w : t = WrittenUnsigned(w) /\ w = - v
    OBVIOUS
  <2>2. w \in Nat /\ t \in Seq(AmountSymbols) /\ t # <<>> /\ Unsigned(t, NoMark, ".") = {w}
    BY <1>4, <2>1, WrittenIsRead
  <2>3. v < 0 /\ v = - w
    BY <1>4, <2>1, <2>2
  <2>4. PICK sign, st : sign = <<"-">> /\ st = sign \o t
    OBVIOUS
  <2>5. Written(v) = st
    BY <2>1, <2>3, <2>4 DEF Written
  <2>6. sign \in Seq(AmountSymbols) /\ Len(sign) = 1 /\ sign[1] = "-"
    <3>1. "-" \in AmountSymbols
      BY DEF AmountSymbols, Marks
    <3> QED
      BY <2>4, <3>1
  <2>7. st \in Seq(AmountSymbols) /\ Len(st) = Len(sign) + Len(t) /\ st[1] = sign[1]
        /\ \A i \in 1..Len(t) : st[Len(sign) + i] = t[i]
    BY <2>2, <2>4, <2>6, Joined
  <2>8. st # <<>> /\ st[1] = "-"
    BY <2>2, <2>6, <2>7
  <2>9. Tail(st) = t
    <3>1. PICK rest : rest = Tail(st)
      OBVIOUS
    <3>2. rest \in Seq(AmountSymbols) /\ Len(rest) = Len(t) /\ \A i \in 1..Len(t) : rest[i] = st[1 + i]
      BY <2>2, <2>6, <2>7, <2>8, <3>1
    <3> QED
      BY <2>2, <2>6, <2>7, <3>1, <3>2
  <2>10. Signed(st, NoMark, ".") = {- x : x \in {w}}
    <3>1. Signed(st, NoMark, ".") = {- x : x \in Unsigned(Tail(st), NoMark, ".")}
      BY <2>7, <2>8, SignedIs
    <3> QED
      BY <2>2, <2>9, <3>1, Zenon
  <2> QED
    BY <2>3, <2>5, <2>10 DEF BankAmount
<1> QED
  BY <1>2, <1>3, <1>4

-----------------------------------------------------------------------------
(* Files *)

ReadingTypeOK ==
  /\ amountCell \in Seq(AmountSymbols) /\ dayCell \in Seq(StampSymbols)
  /\ fileLines \in Seq(LineKinds)

\* A file is read in one way or refused, whatever is written in it and however long: parse_money
\* finds one value in a cell and canonical_csv writes it so that it is booked as previewed,
\* parse_timestamp finds one day in a stamp, and parse_ad_csv, parse_marketing_csv, read_statement
\* and _parse_csv take every row of a file or refuse it.
THEOREM FilesAreAlwaysReadOneWay == ReadingSpec => []FilesAreReadOneWay
<1>1. ReadingInit => ReadingTypeOK
  BY DEF ReadingInit, ReadingTypeOK
<1>2. ReadingTypeOK /\ [ReadingNext]_readingVars => ReadingTypeOK'
  <2> SUFFICES ASSUME ReadingTypeOK, [ReadingNext]_readingVars PROVE ReadingTypeOK'
    OBVIOUS
  <2>1. ASSUME NEW symbol \in AmountSymbols, WriteAmount(symbol) PROVE ReadingTypeOK'
    BY <2>1 DEF WriteAmount, ReadingTypeOK
  <2>2. ASSUME NEW symbol \in StampSymbols, WriteStamp(symbol) PROVE ReadingTypeOK'
    BY <2>2 DEF WriteStamp, ReadingTypeOK
  <2>3. ASSUME NEW kind \in LineKinds, WriteLine(kind) PROVE ReadingTypeOK'
    BY <2>3 DEF WriteLine, ReadingTypeOK
  <2>4. CASE UNCHANGED readingVars
    BY <2>4 DEF readingVars, ReadingTypeOK
  <2> QED
    BY <2>1, <2>2, <2>3, <2>4 DEF ReadingNext
<1>3. ReadingTypeOK => FilesAreReadOneWay
  <2> SUFFICES ASSUME ReadingTypeOK PROVE FilesAreReadOneWay
    OBVIOUS
  <2>1. AmountsHaveOneValue
    <3>1. CASE amountCell = <<"-">> \/ amountCell = <<>>
      <4>1. Cardinality(UNION {}) <= 1
        BY FS_EmptySet
      <4> QED
        BY <3>1, <4>1, Zenon DEF AmountsHaveOneValue
    <3>2. CASE ~(amountCell = <<"-">> \/ amountCell = <<>>)
      BY <3>2, AmountReadOnce DEF AmountsHaveOneValue, ReadingTypeOK
    <3> QED
      BY <3>1, <3>2
  <2>2. PreviewedAsBooked
    BY PreviewBooks DEF PreviewedAsBooked, ReadingTypeOK
  <2>3. StampsHaveOneDay
    BY StampReadOnce DEF StampsHaveOneDay, ReadingTypeOK
  <2>4. FilesAreReadWhole
    BY StatementReadWhole, FileReadWhole DEF FilesAreReadWhole, ReadingTypeOK
  <2> QED
    BY <2>1, <2>2, <2>3, <2>4 DEF FilesAreReadOneWay
<1> QED
  BY <1>1, <1>2, <1>3, PTL DEF ReadingSpec
=============================================================================
