-------------------------- MODULE ReportsTheorems --------------------------
(***************************************************************************)
(* Reports and rules, for any parties, days, years, files and amounts:     *)
(* prices stand and do not overlap; the right to the final tax ends once;  *)
(* an approved tax workpaper and its return tell the closed books and the  *)
(* official evidence; advertising and observations count once, whatever is *)
(* typed in, corrected and imported; answers to questions cite the         *)
(* editions in force as last reviewed, and count once; the years of        *)
(* archived recaps tell what was archived.                                 *)
(***************************************************************************)
EXTENDS AnnualTax, TaxFacility, TaxKnowledge, AdReports, ReportedObservations,
        PriceVersions, SourceRecap, AmountTheorems, SequenceTheorems

-----------------------------------------------------------------------------
(* Prices: an invoice of any party and day finds one, because no two versions overlap. A
   replacement divides the days of one version, and both parts are validated against the
   others. *)

NoOverlap == \A v, w \in versions : v # w => ~Overlap(v, w)

PriceInv == PriceTypeOK /\ NoOverlap

\* A version that overlaps no other joins them without an overlap.
LEMMA CleanJoins ==
  ASSUME NEW vs \in SUBSET VersionRow, \A v, w \in vs : v # w => ~Overlap(v, w),
         NEW new \in VersionRow, Clean(new, vs)
  PROVE  \A v, w \in vs \cup {new} : v # w => ~Overlap(v, w)
<1>1. \A w \in vs : ~Overlap(new, w) /\ ~Overlap(w, new)
  BY DEF Clean, Overlap
<1> QED
  BY <1>1

\* The two parts of a replaced version are rows.
LEMMA ReplacementRows ==
  ASSUME NEW old \in VersionRow, NEW first \in Days, NEW amount \in Amounts,
         old.from < first, first <= old.to
  PROVE  /\ [old EXCEPT !.to = first - 1] \in VersionRow
         /\ Version(old.scope, first, old.to, amount) \in VersionRow
<1>1. first - 1 \in 1..Forever
  BY PriceAssumption DEF VersionRow, Days, Forever
<1> QED
  BY <1>1 DEF VersionRow, Version

\* The prices keep their types and never overlap.
LEMMA PriceInvStep == PriceInv /\ [PriceNext]_priceVars => PriceInv'
<1> SUFFICES ASSUME PriceInv, [PriceNext]_priceVars PROVE PriceInv'
  OBVIOUS
<1>0. versions \subseteq VersionRow /\ NoOverlap
  BY DEF PriceInv, PriceTypeOK
<1>1. CASE UNCHANGED priceVars
  BY <1>1 DEF priceVars, PriceInv, PriceTypeOK, NoOverlap
<1>2. ASSUME NEW s \in Scopes, NEW first \in Days, NEW last \in 1..Forever, NEW a \in Amounts,
             CreatePrice(Version(s, first, last, a))
      PROVE  PriceInv'
  <2>1. Version(s, first, last, a) \in VersionRow
    BY DEF VersionRow, Version
  <2>2. NoOverlap'
    BY <1>0, <1>2, <2>1, CleanJoins DEF CreatePrice, NoOverlap
  <2> QED
    BY <1>2, <2>1, <2>2 DEF CreatePrice, PriceInv, PriceTypeOK
<1>3. ASSUME NEW old \in versions, NEW first \in Days, NEW a \in Amounts,
             ReplacePriceVersion(old, first, a)
      PROVE  PriceInv'
  <2> DEFINE shorter == [old EXCEPT !.to = first - 1]
             new == Version(old.scope, first, old.to, a)
             others == versions \ {old}
  <2>1. shorter \in VersionRow /\ new \in VersionRow
    BY <1>0, <1>3, ReplacementRows DEF ReplacePriceVersion
  <2>2. Clean(shorter, others) /\ Clean(new, others \cup {shorter})
    BY <1>3 DEF ReplacePriceVersion
  <2>3. \A v, w \in others \cup {shorter} : v # w => ~Overlap(v, w)
    <3>1. others \in SUBSET VersionRow /\ \A v, w \in others : v # w => ~Overlap(v, w)
      BY <1>0 DEF NoOverlap
    <3> HIDE DEF shorter, others
    <3> QED
      BY <2>1, <2>2, <3>1, CleanJoins
  <2>4. \A v, w \in (others \cup {shorter}) \cup {new} : v # w => ~Overlap(v, w)
    <3>1. others \cup {shorter} \in SUBSET VersionRow
      BY <1>0, <2>1
    <3> HIDE DEF shorter, new, others
    <3> QED
      BY <2>1, <2>2, <2>3, <3>1, CleanJoins
  <2>5. versions' = (others \cup {shorter}) \cup {new}
    BY <1>3 DEF ReplacePriceVersion
  <2>6. NoOverlap'
    BY <2>4, <2>5 DEF NoOverlap
  <2>7. versions' \subseteq VersionRow
    BY <1>0, <2>1, <2>5
  <2> QED
    BY <1>3, <2>6, <2>7 DEF ReplacePriceVersion, PriceInv, PriceTypeOK
<1>4. ASSUME NEW d \in Days, CloseMonth(MonthOf(d)) PROVE PriceInv'
  <2>1. MonthOf(d) \in Int
    BY PriceAssumption DEF MonthOf, Days
  <2> QED
    BY <1>4, <2>1 DEF CloseMonth, PriceInv, PriceTypeOK, NoOverlap
<1>5. CASE NextDay
  BY <1>5 DEF NextDay, PriceInv, PriceTypeOK, NoOverlap
<1> QED
  BY <1>1, <1>2, <1>3, <1>4, <1>5 DEF PriceNext

\* Versions of one scope that hold on one day overlap.
LEMMA PriceInvGivesOne == PriceInv => OnePricePerDay
<1> SUFFICES ASSUME PriceInv, NEW p \in Parties, NEW d \in Days,
                    NEW v \in Candidates(p, d), NEW w \in Candidates(p, d)
             PROVE  v = w
  BY DEF OnePricePerDay
<1>1. v \in versions /\ w \in versions /\ v.scope = w.scope
  BY DEF Candidates, InForce
<1>2. v.from <= d /\ d <= v.to /\ w.from <= d /\ d <= w.to
  BY DEF Candidates, InForce
<1>3. v.from \in Int /\ v.to \in Int /\ w.from \in Int /\ w.to \in Int /\ d \in Int
  BY <1>1, PriceAssumption DEF PriceInv, PriceTypeOK, VersionRow, Days, Forever
<1>4. Overlap(v, w)
  BY <1>1, <1>2, <1>3 DEF Overlap
<1> QED
  BY <1>1, <1>4 DEF PriceInv, NoOverlap

\* Every invoice finds one price, whatever was entered, replaced or closed before
\* (_resolve_price, PriceVersion.clean).
THEOREM EveryInvoiceFindsOnePrice == PriceSpec => []OnePricePerDay
<1>1. PriceInit => PriceInv
  BY DEF PriceInit, PriceInv, PriceTypeOK, NoOverlap
<1>2. PriceSpec => []PriceInv
  BY <1>1, PriceInvStep, PTL DEF PriceSpec
<1> QED
  BY <1>2, PriceInvGivesOne, PTL

\* The prices of a scope on a day, as PricesStand looks at them.
PricesOn(vs, s, d) == {v.amount : v \in InForce(vs, s, d)}

\* What stands of the prices of a scope on a day.
Stands(s, d) ==
  PricesOn(versions, s, d) # {} =>
    /\ PricesOn(versions', s, d) # {}
    /\ d < today => PricesOn(versions', s, d) = PricesOn(versions, s, d)

\* The numbers of a version.
LEMMA VersionTypes ==
  ASSUME PriceInv
  PROVE  /\ \A v \in versions : v.from \in Nat /\ v.to \in Nat
         /\ today \in Nat /\ Days \subseteq Nat /\ 1..Forever \subseteq Nat
BY PriceAssumption DEF PriceInv, PriceTypeOK, VersionRow, Days, Forever

\* A new price is for days that had none.
LEMMA CreateStands ==
  ASSUME PriceInv, NEW scope \in Scopes, NEW first \in Days, NEW last \in 1..Forever, NEW a \in Amounts,
         CreatePrice(Version(scope, first, last, a)), NEW s \in Scopes, NEW d \in Days
  PROVE  Stands(s, d)
<1> SUFFICES ASSUME PricesOn(versions, s, d) # {}
             PROVE  PricesOn(versions', s, d) = PricesOn(versions, s, d)
  BY DEF Stands
<1> DEFINE new == Version(scope, first, last, a)
<1>1. PICK v \in versions : v.scope = s /\ v.from <= d /\ d <= v.to
  BY DEF PricesOn, InForce
<1>2. /\ versions' = versions \cup {new} /\ ~Overlap(new, v)
      /\ new.scope = scope /\ new.from = first /\ new.to = last
  BY DEF CreatePrice, Clean, Version
<1>3. v.from \in Nat /\ v.to \in Nat /\ first \in Nat /\ last \in Nat /\ d \in Nat
  BY VersionTypes
<1>4. ~(new.scope = s /\ new.from <= d /\ d <= new.to)
  BY <1>1, <1>2, <1>3 DEF Overlap
<1>5. InForce(versions', s, d) = InForce(versions, s, d)
  BY <1>2, <1>4 DEF InForce
<1> QED
  BY <1>5 DEF PricesOn

\* A replacement leaves the days before its first, and gives the others a price.
LEMMA ReplaceStands ==
  ASSUME PriceInv, NEW old \in versions, NEW first \in Days, NEW a \in Amounts,
         ReplacePriceVersion(old, first, a), NEW s \in Scopes, NEW d \in Days
  PROVE  Stands(s, d)
<1> SUFFICES ASSUME PricesOn(versions, s, d) # {} PROVE Stands(s, d)
  BY DEF Stands
<1>1. PICK shorter, new :
        /\ shorter.scope = old.scope /\ shorter.from = old.from /\ shorter.to = first - 1
        /\ shorter.amount = old.amount
        /\ new.scope = old.scope /\ new.from = first /\ new.to = old.to
        /\ versions' = (versions \ {old}) \cup {shorter, new}
  <2> DEFINE shorter == [old EXCEPT !.to = first - 1]
             new == Version(old.scope, first, old.to, a)
  <2>1. old \in VersionRow
    BY DEF PriceInv, PriceTypeOK
  <2>2. shorter.scope = old.scope /\ shorter.from = old.from /\ shorter.to = first - 1
        /\ shorter.amount = old.amount
    BY <2>1 DEF VersionRow
  <2>3. new.scope = old.scope /\ new.from = first /\ new.to = old.to
    BY DEF Version
  <2>4. versions' = (versions \ {old}) \cup {shorter, new}
    BY DEF ReplacePriceVersion
  <2> QED
    BY <2>2, <2>3, <2>4
<1>2. today <= first /\ old.from < first /\ first <= old.to
  BY DEF ReplacePriceVersion
<1>3. /\ old.from \in Nat /\ old.to \in Nat /\ first \in Nat /\ d \in Nat /\ today \in Nat
  BY VersionTypes
<1>4. d < first => (old \in InForce(versions, s, d) <=> shorter \in InForce(versions', s, d))
  BY <1>1, <1>2, <1>3 DEF InForce
<1>5. d < first => new \notin InForce(versions', s, d)
  BY <1>1, <1>3 DEF InForce
<1>6. d >= first => (old \in InForce(versions, s, d) => new \in InForce(versions', s, d))
  BY <1>1, <1>3 DEF InForce
<1>7. \A v \in versions \ {old} : v \in InForce(versions, s, d) => v \in InForce(versions', s, d)
  BY <1>1 DEF InForce
<1>8. \A v \in InForce(versions', s, d) :
        v = shorter \/ v = new \/ (v \in versions \ {old} /\ v \in InForce(versions, s, d))
  BY <1>1 DEF InForce
<1>9. InForce(versions, s, d) \subseteq versions
  BY DEF InForce
<1>10. CASE d < first
  <2>1. \A v \in InForce(versions, s, d) : \E w \in InForce(versions', s, d) : w.amount = v.amount
    BY <1>1, <1>4, <1>7, <1>9, <1>10
  <2>2. \A w \in InForce(versions', s, d) : \E v \in InForce(versions, s, d) : w.amount = v.amount
    BY <1>1, <1>4, <1>5, <1>8, <1>10
  <2>3. PricesOn(versions', s, d) = PricesOn(versions, s, d)
    BY <2>1, <2>2 DEF PricesOn
  <2> QED
    BY <2>3 DEF Stands
<1>11. CASE ~(d < first)
  <2>1. InForce(versions', s, d) # {}
    BY <1>3, <1>6, <1>7, <1>9, <1>11 DEF PricesOn
  <2>2. ~(d < today)
    BY <1>2, <1>3, <1>11
  <2> QED
    BY <2>1, <2>2 DEF Stands, PricesOn
<1> QED
  BY <1>10, <1>11

\* Prices never change for days gone by, and no day loses its price
\* (replace_price_version, PriceVersion.clean).
THEOREM PricesAlwaysStand == PriceSpec => PricesStand
<1> DEFINE Standing == \A s \in Scopes, d \in Days :
             LET price(vs) == {v.amount : v \in InForce(vs, s, d)}
             IN price(versions) # {} =>
                  price(versions') # {} /\ (d < today => price(versions') = price(versions))
<1>1. PriceInit => PriceInv
  BY DEF PriceInit, PriceInv, PriceTypeOK, NoOverlap
<1>2. PriceInv /\ [PriceNext]_priceVars => [Standing]_priceVars
  <2> SUFFICES ASSUME PriceInv, PriceNext, NEW s \in Scopes, NEW d \in Days PROVE Stands(s, d)
    BY DEF Stands, PricesOn
  <2>1. CASE UNCHANGED versions
    BY <2>1 DEF Stands
  <2> QED
    BY <2>1, CreateStands, ReplaceStands DEF PriceNext, CloseMonth, NextDay
<1> QED
  BY <1>1, <1>2, PriceInvStep, PTL DEF PriceSpec, PricesStand

-----------------------------------------------------------------------------
(* The facility of the final tax *)

\* Once a profile is reviewed the registration stands, and a profile for the final tax has
\* the three years that begin with it.
FacilityInv ==
  /\ FacilityTypeOK
  /\ \A d \in 1..Len(profiles) :
       /\ registration # Unknown /\ registration <= profiles[d].from
       /\ profiles[d].regime = "final" =>
            /\ registration < Reform
            /\ profiles[d].start = FacilityStart(profiles[d].from)
            /\ profiles[d].end = profiles[d].start + 2
            /\ profiles[d].start <= YearOf(profiles[d].from)

\* A moment lies in a year.
LEMMA MomentTypes ==
  /\ Moments \subseteq Nat /\ Years \subseteq Nat /\ Earliest \in Nat /\ Reform \in Nat
  /\ \A m \in Int : YearOf(m) \in Int
BY FacilityAssumption DEF Moments, Years, YearOf

\* A decision that follows the others leaves them as they are.
LEMMA OneMoreProfile ==
  ASSUME FacilityInv, NEW regime, NEW from \in Moments, NEW start \in Nat, NEW end \in Nat,
         regime \in {"final", "normal"}, ApproveProfileYears(regime, from, start, end)
  PROVE  FacilityInv'
<1> DEFINE new == [regime |-> regime, from |-> from, start |-> start, end |-> end]
           Row == [regime : {"final", "normal"}, from : Moments, start : Nat, end : Nat]
<1>1. /\ profiles \in Seq(Row) /\ new \in Row /\ profiles' = Append(profiles, new)
      /\ UNCHANGED <<now, registration>>
  BY DEF FacilityInv, FacilityTypeOK, ApproveProfileYears
<1>2. profiles' \in Seq(Row) /\ Len(profiles') = Len(profiles) + 1 /\ Len(profiles) \in Nat
  BY <1>1
<1>3. \A d \in 1..Len(profiles') :
        (d \in 1..Len(profiles) /\ profiles'[d] = profiles[d]) \/ profiles'[d] = new
  BY <1>1, <1>2
<1>4. FacilityTypeOK'
  BY <1>1, <1>2 DEF FacilityInv, FacilityTypeOK
<1> SUFFICES ASSUME NEW d \in 1..Len(profiles')
             PROVE  /\ registration # Unknown /\ registration <= profiles'[d].from
                    /\ profiles'[d].regime = "final" =>
                         /\ registration < Reform
                         /\ profiles'[d].start = FacilityStart(profiles'[d].from)
                         /\ profiles'[d].end = profiles'[d].start + 2
                         /\ profiles'[d].start <= YearOf(profiles'[d].from)
  BY <1>1, <1>4 DEF FacilityInv, FacilityStart, YearOf, Unknown
<1>5. CASE d \in 1..Len(profiles) /\ profiles'[d] = profiles[d]
  BY <1>5 DEF FacilityInv
<1>6. CASE profiles'[d] = new
  BY <1>6 DEF ApproveProfileYears, ValidFinal
<1> QED
  BY <1>3, <1>5, <1>6

\* Every step of the facility keeps what the profiles say of the registration.
LEMMA FacilityInvStep == FacilityInv /\ [FacilityNext]_facilityVars => FacilityInv'
<1> SUFFICES ASSUME FacilityInv, [FacilityNext]_facilityVars PROVE FacilityInv'
  OBVIOUS
<1>1. CASE UNCHANGED facilityVars
  BY <1>1 DEF facilityVars, FacilityInv, FacilityTypeOK, FacilityStart, YearOf
<1>2. ASSUME NEW date \in Moments, SetUpProfile(date) PROVE FacilityInv'
  <2>1. profiles' = <<>> /\ Len(<<>>) = 0 /\ registration' = date /\ now' = now
    BY <1>2 DEF SetUpProfile, Revisable
  <2>2. profiles' = profiles
    BY <1>2 DEF SetUpProfile
  <2> QED
    BY <2>1, <2>2 DEF FacilityInv, FacilityTypeOK
<1>3. ASSUME NEW from \in Moments, NEW start \in Years, NEW end \in Years,
             ApproveProfileYears("final", from, start, end)
      PROVE  FacilityInv'
  BY <1>3, OneMoreProfile, MomentTypes
<1>4. ASSUME NEW from \in Moments, ApproveProfileYears("normal", from, 0, 0) PROVE FacilityInv'
  <2>1. PICK zero \in Nat : zero = 0
    OBVIOUS
  <2> QED
    BY <1>4, <2>1, OneMoreProfile
<1>5. CASE Pass
  <2>1. now' \in Moments
    BY <1>5, FacilityAssumption DEF Pass, FacilityInv, FacilityTypeOK, Moments
  <2> QED
    BY <1>5, <2>1 DEF Pass, FacilityInv, FacilityTypeOK, FacilityStart, YearOf
<1> QED
  BY <1>1, <1>2, <1>3, <1>4, <1>5 DEF FacilityNext

\* An open year is one of the three from the registration, and its moment is after it.
LEMMA OpenYear ==
  ASSUME FacilityInv, NEW m \in Moments, FinalOpen(m)
  PROVE  /\ registration \in Nat /\ registration <= m /\ registration < Reform
         /\ FacilityStart(0) <= YearOf(m) /\ YearOf(m) <= FacilityStart(0) + 2
<1>1. PICK d \in LatestFor(m) : /\ profiles[d].regime = "final" /\ YearOf(m) <= profiles[d].end
                                /\ YearOf(profiles[d].from) = YearOf(m)
  BY DEF FinalOpen
<1>2. d \in 1..Len(profiles) /\ profiles[d].from <= m
  BY DEF LatestFor
<1>3. /\ profiles[d].from \in Nat /\ profiles[d].end \in Nat /\ profiles[d].start \in Nat
      /\ registration \in Nat
  <2> DEFINE Row == [regime : {"final", "normal"}, from : Moments, start : Nat, end : Nat]
  <2>1. profiles[d] \in Row
    <3>1. profiles \in Seq(Row)
      BY DEF FacilityInv, FacilityTypeOK
    <3> HIDE DEF Row
    <3> QED
      BY <1>2, <3>1
  <2>2. registration \in Moments \cup {Unknown}
    BY DEF FacilityInv, FacilityTypeOK
  <2>3. registration # Unknown
    BY <1>2 DEF FacilityInv
  <2> QED
    BY <2>1, <2>2, <2>3, MomentTypes
<1>4. FacilityStart(profiles[d].from) = FacilityStart(0)
  BY DEF FacilityStart
<1>5. /\ registration <= profiles[d].from /\ registration < Reform
      /\ profiles[d].start = FacilityStart(0) /\ profiles[d].end = profiles[d].start + 2
      /\ profiles[d].start <= YearOf(profiles[d].from)
  BY <1>1, <1>2, <1>4 DEF FacilityInv
<1>6. m \in Nat /\ YearOf(m) \in Int /\ Reform \in Nat
  BY MomentTypes
<1> QED
  BY <1>1, <1>2, <1>3, <1>5, <1>6

\* Whatever series of profiles a company has reviewed, the final tax is open in three years
\* at most, beginning with its registration (validate_final_profile, profile_gates).
THEOREM TheFacilityEndsOnce == FacilitySpec => []TheFacilityNeverRestarts
<1>1. FacilityInit => FacilityInv
  BY FacilityAssumption DEF FacilityInit, FacilityInv, FacilityTypeOK, Moments, Unknown
<1>2. FacilityInv => TheFacilityNeverRestarts
  <2> SUFFICES ASSUME FacilityInv PROVE TheFacilityNeverRestarts
    OBVIOUS
  <2>1. FacilityStart(0) \in Int \/ \A m \in Moments : ~FinalOpen(m)
    BY OpenYear, MomentTypes DEF FacilityStart
  <2>2. \A m \in Moments : YearOf(m) \in Int /\ m \in Nat
    BY MomentTypes
  <2> QED
    BY <2>1, <2>2, OpenYear DEF TheFacilityNeverRestarts
<1> QED
  BY <1>1, <1>2, FacilityInvStep, PTL DEF FacilitySpec

-----------------------------------------------------------------------------
(* The annual workpaper *)

ObligationRow ==
  [month : Months, type : {"final", "payable", "credit"}, amount : Nat,
   status : {"review", "approved"}, ofBill : BOOLEAN]
DecisionRow == [from : Months, regime : {"final", "normal"}]
Marks == Nat \X {"payment", "filing", "credit"}
BookRows == [months : [Months -> Nat], settled : SUBSET Months]
TaxRows == Seq(ObligationRow) \X (SUBSET Marks) \X Seq(DecisionRow)
PaperRow ==
  [books : BookRows, tax : TaxRows, profit : Nat, credits : Nat, finalPaid : Nat, version : {0, 1}]

\* The figures of a workpaper, from the snapshots it was prepared with.
FigureOf(os, tax) == Total({[o |-> o, amount |-> tax[1][o].amount] : o \in os})
CreditsIn(tax) == FigureOf({o \in 1..Len(tax[1]) : <<o, "credit">> \in tax[2]}, tax)
FinalPaidIn(tax) ==
  FigureOf({o \in {o \in 1..Len(tax[1]) : tax[1][o].type = "final" /\ tax[1][o].status = "approved"} :
           <<o, "payment">> \in tax[2]}, tax)
ProfitIn(months) == Total({[month |-> m, amount |-> months[m]] : m \in Months})

AnnualRows ==
  /\ profit \in [Months -> Nat] /\ settled \subseteq Months /\ approved \subseteq Papers
  /\ obligations \in Seq(ObligationRow) /\ verified \subseteq Marks /\ decisions \in Seq(DecisionRow)
  /\ papers \in Seq(PaperRow)

\* The figures are those of the snapshots, and the year of an approved workpaper is closed
\* with these books and was approved with every obligation of its tax snapshot.
PaperHolds(p) ==
  /\ papers[p].credits = CreditsIn(papers[p].tax) /\ papers[p].finalPaid = FinalPaidIn(papers[p].tax)
  /\ papers[p].profit = ProfitIn(papers[p].books.months)
ApprovalHolds(p) ==
  /\ papers[p].books = BookSnapshot /\ settled = Months
  /\ \A o \in 1..Len(papers[p].tax[1]) : papers[p].tax[1][o].status = "approved"

AnnualInv ==
  /\ AnnualRows
  /\ \A p \in Papers : PaperHolds(p)
  /\ \A p \in approved : ApprovalHolds(p)

\* A workpaper's figures of its own snapshots are the figures of the day it is prepared.
LEMMA FiguresNow ==
  /\ CreditsIn(TaxSnapshot) = Credits /\ FinalPaidIn(TaxSnapshot) = FinalPaid
  /\ ProfitIn(BookSnapshot.months) = Profit
<1>1. TaxSnapshot[1] = obligations /\ TaxSnapshot[2] = verified
  BY DEF TaxSnapshot
<1>2. BookSnapshot.months = profit
  BY DEF BookSnapshot
<1> QED
  BY <1>1, <1>2 DEF CreditsIn, FinalPaidIn, ProfitIn, FigureOf, Credits, FinalPaid, FinalRows, Profit, Amount,
     Obligations

\* The figures are natural numbers.
LEMMA FiguresTypes == AnnualRows => Credits \in Nat /\ FinalPaid \in Nat /\ Profit \in Nat
<1> SUFFICES ASSUME AnnualRows PROVE Credits \in Nat /\ FinalPaid \in Nat /\ Profit \in Nat
  OBVIOUS
<1>1. ASSUME NEW os \in SUBSET Obligations PROVE Amount(os) \in Nat
  <2> DEFINE table == {[o |-> o, amount |-> obligations[o].amount] : o \in os}
             f == [o \in os |-> [o |-> o, amount |-> obligations[o].amount]]
  <2>1. IsFiniteSet(os)
    <3>1. Len(obligations) \in Nat /\ 0 + 1 = 1
      BY DEF AnnualRows
    <3>2. IsFiniteSet(1..Len(obligations))
      BY <3>1, FS_Interval
    <3> QED
      BY <3>2, FS_Subset DEF Obligations
  <2>2. f \in Surjection(os, table)
    BY DEF Surjection
  <2>3. IsFiniteSet(table)
    BY <2>1, <2>2, FS_Surjection
  <2>4. \A o \in os : obligations[o].amount \in Nat
    <3>1. \A o \in os : obligations[o] \in ObligationRow
      BY DEF AnnualRows, Obligations
    <3> QED
      BY <3>1 DEF ObligationRow
  <2>5. \A r \in table : r.amount \in Nat
    BY <2>4
  <2>6. Amount(os) = Total(table)
    BY DEF Amount
  <2> HIDE DEF table
  <2> QED
    BY <2>3, <2>5, <2>6, TotalType
<1>2. Profit \in Nat
  <2> DEFINE table == {[month |-> m, amount |-> profit[m]] : m \in Months}
             f == [m \in Months |-> [month |-> m, amount |-> profit[m]]]
  <2>1. IsFiniteSet(Months)
    <3>1. Year \in Int /\ 1 \in Int
      BY AnnualAssumption
    <3>2. IsFiniteSet(1..Year)
      BY <3>1, FS_Interval
    <3> QED
      BY <3>2 DEF Months
  <2>2. f \in Surjection(Months, table)
    BY DEF Surjection
  <2>3. IsFiniteSet(table)
    BY <2>1, <2>2, FS_Surjection
  <2>4. \A r \in table : r.amount \in Nat
    BY DEF AnnualRows
  <2>5. Profit = Total(table)
    BY DEF Profit
  <2> HIDE DEF table
  <2> QED
    BY <2>3, <2>4, <2>5, TotalType
<1>3. FinalRows \in SUBSET Obligations
  BY DEF FinalRows
<1> QED
  BY <1>1, <1>2, <1>3 DEF Credits, FinalPaid

\* The snapshots of a workpaper have their types.
LEMMA SnapshotsTyped == AnnualRows => TaxSnapshot \in TaxRows /\ BookSnapshot \in BookRows
BY DEF AnnualRows, TaxSnapshot, TaxRows, BookSnapshot, BookRows

\* A step that leaves the books, the workpapers and the approvals keeps what they say.
LEMMA PapersStand ==
  ASSUME AnnualInv, AnnualRows', UNCHANGED <<profit, settled, papers, approved>>
  PROVE  AnnualInv'
BY DEF AnnualInv, PaperHolds, ApprovalHolds, Papers, BookSnapshot

\* Once a workpaper is approved its year is closed: nothing is posted and no month closes.
LEMMA BooksStep ==
  ASSUME AnnualInv, NEW m \in Months, PostProfit(m) \/ CloseBooks(m)
  PROVE  AnnualInv'
<1>1. m \in Int
  BY AnnualAssumption DEF Months
<1>2. approved = {}
  <2> SUFFICES ASSUME approved # {} PROVE FALSE
    OBVIOUS
  <2>1. settled = Months
    BY DEF AnnualInv, ApprovalHolds
  <2> QED
    BY <1>1, <2>1 DEF PostProfit, CloseBooks
<1>3. UNCHANGED <<evidence, package>>
  BY DEF PostProfit, CloseBooks
<1>4. profit' \in [Months -> Nat] /\ settled' \subseteq Months
  BY DEF AnnualInv, AnnualRows, PostProfit, CloseBooks
<1> QED
  BY <1>2, <1>3, <1>4 DEF AnnualInv, AnnualRows, PaperHolds, Papers, evidence, package

\* The evidence of the year is of its types, and no business of the books.
LEMMA EvidenceStep ==
  ASSUME AnnualInv, UNCHANGED <<books, package>>,
         \/ \E m \in Months, regime \in {"final", "normal"} : ApproveTaxProfile(m, regime)
         \/ \E m \in Months, amount \in Sums :
              \/ ReviewBillTax(m, amount)
              \/ \E type \in {"final", "payable", "credit"} : PrepareObligation(m, type, amount)
         \/ \E o \in Obligations :
              \/ ApproveObligation(o) \/ Remit(o)
              \/ \E kind \in {"payment", "filing", "credit"} : VerifyEvidence(o, kind)
  PROVE  AnnualInv'
<1>0. obligations \in Seq(ObligationRow) /\ decisions \in Seq(DecisionRow) /\ verified \subseteq Marks
  BY DEF AnnualInv, AnnualRows
<1>1. /\ obligations' \in Seq(ObligationRow) /\ decisions' \in Seq(DecisionRow) /\ verified' \subseteq Marks
  <2>1. ASSUME NEW m \in Months, NEW regime \in {"final", "normal"}, ApproveTaxProfile(m, regime)
        PROVE  <1>1!1
    <3>1. [from |-> m, regime |-> regime] \in DecisionRow
      BY DEF DecisionRow
    <3> QED
      BY <1>0, <2>1, <3>1 DEF ApproveTaxProfile
  <2>2. ASSUME NEW m \in Months, NEW amount \in Sums, NEW type \in {"final", "payable", "credit"},
               NEW s \in {"review", "approved"}, NEW ofBill \in BOOLEAN,
               NewObligation(m, type, amount, s, ofBill)
        PROVE  <1>1!1
    <3>1. [month |-> m, type |-> type, amount |-> amount, status |-> s, ofBill |-> ofBill] \in ObligationRow
      BY AnnualAssumption DEF ObligationRow
    <3> QED
      BY <1>0, <2>2, <3>1 DEF NewObligation
  <2>3. ASSUME NEW o \in Obligations, ApproveObligation(o) PROVE <1>1!1
    <3>0. obligations[o] \in ObligationRow /\ Len(obligations) \in Nat
      BY <1>0 DEF Obligations
    <3>1. [obligations[o] EXCEPT !.status = "approved"] \in ObligationRow
      BY <3>0 DEF ObligationRow
    <3>2. PICK new \in ObligationRow : obligations' = [obligations EXCEPT ![o] = new]
      BY <2>3, <3>1 DEF ApproveObligation
    <3>3. obligations' \in [1..Len(obligations) -> ObligationRow]
      <4>1. obligations \in [1..Len(obligations) -> ObligationRow]
        BY <1>0
      <4> QED
        BY <3>2, <4>1
    <3>4. obligations' \in Seq(ObligationRow)
      BY <3>0, <3>3, SeqDef
    <3> QED
      BY <1>0, <2>3, <3>4 DEF ApproveObligation
  <2>4. ASSUME NEW o \in Obligations, Remit(o) PROVE <1>1!1
    BY <1>0, <2>4 DEF Remit
  <2>5. ASSUME NEW o \in Obligations, NEW k \in {"payment", "filing", "credit"}, VerifyEvidence(o, k)
        PROVE  <1>1!1
    <3>1. <<o, k>> \in Marks
      BY <1>0 DEF Obligations, Marks
    <3> QED
      BY <1>0, <2>5, <3>1 DEF VerifyEvidence
  <2>6. ASSUME NEW m \in Months, NEW amount \in Sums, ReviewBillTax(m, amount) PROVE <1>1!1
    BY <2>2, <2>6 DEF ReviewBillTax
  <2>7. ASSUME NEW m \in Months, NEW amount \in Sums, NEW type \in {"final", "payable", "credit"},
               PrepareObligation(m, type, amount)
        PROVE  <1>1!1
    BY <2>2, <2>7 DEF PrepareObligation
  <2> QED
    BY <2>1, <2>3, <2>4, <2>5, <2>6, <2>7
<1>2. UNCHANGED <<profit, settled, papers, approved>>
  BY DEF books, package
<1>3. AnnualRows'
  BY <1>1, <1>2 DEF AnnualInv, AnnualRows, Papers
<1> QED
  BY <1>2, <1>3, PapersStand

\* A workpaper is prepared with the figures of its snapshots.
LEMMA PrepareStep ==
  ASSUME AnnualInv, NEW version \in {0, 1}, PrepareAnnual(version)
  PROVE  AnnualInv'
<1> DEFINE new == [books |-> BookSnapshot, tax |-> TaxSnapshot, profit |-> Profit,
                   credits |-> Credits, finalPaid |-> FinalPaid, version |-> version]
<1>0. AnnualRows
  BY DEF AnnualInv
<1>1. new \in PaperRow /\ papers \in Seq(PaperRow)
  BY <1>0, FiguresTypes, SnapshotsTyped DEF PaperRow, AnnualRows
<1>2. papers' = Append(papers, new) /\ UNCHANGED <<month, books, evidence, approved, filed>>
  BY DEF PrepareAnnual
<1>3. /\ papers' \in Seq(PaperRow) /\ Len(papers') = Len(papers) + 1 /\ Len(papers) \in Nat
      /\ \A p \in 1..Len(papers) : papers'[p] = papers[p]
      /\ papers'[Len(papers) + 1] = new
  <2> HIDE DEF new
  <2> QED
    BY <1>1, <1>2
<1>4. AnnualRows'
  BY <1>0, <1>2, <1>3 DEF AnnualRows, Papers, books, evidence
<1>5. \A p \in approved' : ApprovalHolds(p)'
  BY <1>0, <1>2, <1>3 DEF AnnualInv, AnnualRows, ApprovalHolds, Papers, BookSnapshot, books
<1>6. ASSUME NEW p \in Papers' PROVE PaperHolds(p)'
  <2>1. CASE p \in Papers
    BY <1>3, <2>1 DEF AnnualInv, PaperHolds, Papers
  <2>2. CASE p = Len(papers) + 1
    BY <1>3, <2>2, FiguresNow DEF PaperHolds
  <2> QED
    BY <1>3, <2>1, <2>2 DEF Papers
<1> QED
  BY <1>4, <1>5, <1>6 DEF AnnualInv

\* What is approved is unchanged since it was prepared, and the year is closed.
LEMMA ApproveStep ==
  ASSUME AnnualInv, NEW p \in Papers, ApproveAnnual(p)
  PROVE  AnnualInv'
<1>1. /\ UNCHANGED <<month, books, evidence, papers, filed>> /\ approved' = approved \cup {p}
      /\ papers[p].tax = TaxSnapshot /\ papers[p].books = BookSnapshot
      /\ \A m \in Months : m \in settled
      /\ \A o \in Obligations : obligations[o].status = "approved"
  BY DEF ApproveAnnual, Unchanged, YearComplete
<1>2. TaxSnapshot[1] = obligations
  BY DEF TaxSnapshot
<1>3. ApprovalHolds(p)
  BY <1>1, <1>2 DEF AnnualInv, AnnualRows, ApprovalHolds, Obligations
<1> QED
  BY <1>1, <1>3 DEF AnnualInv, AnnualRows, PaperHolds, ApprovalHolds, Papers, BookSnapshot, books, evidence

\* Every step of the tax year keeps what its workpapers say.
LEMMA AnnualInvStep == AnnualInv /\ [AnnualNext]_annualVars => AnnualInv'
<1> SUFFICES ASSUME AnnualInv, [AnnualNext]_annualVars PROVE AnnualInv'
  OBVIOUS
<1>1. CASE UNCHANGED <<books, evidence, package>>
  <2>1. AnnualRows'
    BY <1>1 DEF AnnualInv, AnnualRows, Papers, books, evidence, package
  <2> QED
    BY <1>1, <2>1, PapersStand DEF books, package
<1>2. CASE UNCHANGED annualVars
  BY <1>1, <1>2 DEF annualVars
<1>3. CASE NextMonth
  BY <1>1, <1>3 DEF NextMonth
<1>4. ASSUME NEW m \in Months, PostProfit(m) \/ CloseBooks(m) PROVE AnnualInv'
  BY <1>4, BooksStep
<1>5. CASE
         \/ \E m \in Months, regime \in {"final", "normal"} : ApproveTaxProfile(m, regime)
         \/ \E m \in Months, amount \in Sums :
              \/ ReviewBillTax(m, amount)
              \/ \E type \in {"final", "payable", "credit"} : PrepareObligation(m, type, amount)
         \/ \E o \in Obligations :
              \/ ApproveObligation(o) \/ Remit(o)
              \/ \E kind \in {"payment", "filing", "credit"} : VerifyEvidence(o, kind)
  <2>1. UNCHANGED <<books, package>>
    BY <1>5 DEF ApproveTaxProfile, ReviewBillTax, PrepareObligation, NewObligation, ApproveObligation, Remit,
       VerifyEvidence, package
  <2> QED
    BY <1>5, <2>1, EvidenceStep
<1>6. ASSUME NEW version \in {0, 1}, PrepareAnnual(version) PROVE AnnualInv'
  BY <1>6, PrepareStep
<1>7. ASSUME NEW p \in Papers, ApproveAnnual(p) PROVE AnnualInv'
  BY <1>7, ApproveStep
<1>8. ASSUME NEW p \in Papers, VerifyFiling(p) PROVE AnnualInv'
  <2>1. UNCHANGED <<books, evidence, papers, approved>>
    BY <1>8 DEF VerifyFiling
  <2>2. AnnualRows'
    BY <2>1 DEF AnnualInv, AnnualRows, Papers, books, evidence
  <2> QED
    BY <2>1, <2>2, PapersStand DEF books
<1> QED
  BY <1>2, <1>3, <1>4, <1>5, <1>6, <1>7, <1>8 DEF AnnualNext

\* The tax year keeps its invariant.
LEMMA AnnualInvHolds == AnnualSpec => []AnnualInv
<1>1. AnnualInit => AnnualInv
  <2> SUFFICES ASSUME AnnualInit PROVE AnnualInv
    OBVIOUS
  <2>1. /\ profit \in [Months -> Nat] /\ settled = {} /\ approved = {} /\ verified = {}
        /\ obligations = <<>> /\ decisions = <<>> /\ papers = <<>> /\ Len(papers) = 0
    BY DEF AnnualInit
  <2> QED
    BY <2>1 DEF AnnualInv, AnnualRows, Papers
<1> QED
  BY <1>1, AnnualInvStep, PTL DEF AnnualSpec

\* The books that an approved workpaper was prepared from are those of the company for good,
\* whatever is posted, closed or reviewed later (approve_annual_workpaper,
\* assert_open_period).
THEOREM ApprovedBooksAlwaysStand == AnnualSpec => []ApprovedBooksStand
<1>1. AnnualInv => ApprovedBooksStand
  <2> SUFFICES ASSUME AnnualInv, NEW p \in approved
               PROVE  papers[p].profit = Profit /\ papers[p].books = BookSnapshot
    BY DEF ApprovedBooksStand
  <2>1. PaperHolds(p) /\ ApprovalHolds(p)
    BY DEF AnnualInv, AnnualRows
  <2> QED
    BY <2>1, FiguresNow DEF PaperHolds, ApprovalHolds
<1> QED
  BY <1>1, AnnualInvHolds, PTL

\* A return is matched with the evidence as it is on that day, all of it reviewed
\* (_assert_annual_tax_snapshot, verify_annual_filing).
THEOREM ReturnsAreFiledAsEvidenced == AnnualSpec => FiledAsEvidenced
<1> DEFINE AsEvidenced ==
             \A f \in filed' \ filed :
               /\ papers[f[1]].credits = Credits /\ papers[f[1]].finalPaid = FinalPaid
               /\ \A o \in Obligations : obligations[o].status = "approved"
<1>1. AnnualInv /\ [AnnualNext]_annualVars => [AsEvidenced]_annualVars
  <2> SUFFICES ASSUME AnnualInv, AnnualNext, NEW f \in filed' \ filed
               PROVE  /\ papers[f[1]].credits = Credits /\ papers[f[1]].finalPaid = FinalPaid
                      /\ \A o \in Obligations : obligations[o].status = "approved"
    OBVIOUS
  <2>1. PICK p \in Papers : VerifyFiling(p)
    BY DEF AnnualNext, NextMonth, PostProfit, CloseBooks, ApproveTaxProfile, ReviewBillTax, PrepareObligation,
       NewObligation, ApproveObligation, Remit, VerifyEvidence, PrepareAnnual, ApproveAnnual, package
  <2>2. p \in approved /\ papers[p].tax = TaxSnapshot /\ f = <<p, papers[p].version>>
    BY <2>1 DEF VerifyFiling, Unchanged
  <2>3. PaperHolds(p) /\ ApprovalHolds(p) /\ f[1] = p
    BY <2>2 DEF AnnualInv
  <2>4. TaxSnapshot[1] = obligations
    BY DEF TaxSnapshot
  <2> QED
    BY <2>2, <2>3, <2>4, FiguresNow DEF PaperHolds, ApprovalHolds, Obligations
<1> QED
  BY <1>1, AnnualInvHolds, PTL DEF AnnualSpec, FiledAsEvidenced

-----------------------------------------------------------------------------
(* Reported observations *)

ObservationRow == [key : Keys, figure : Figures, replaces : Nat, by : {"hand", "file"}]

\* One active row for a key, later rows of a key by hand, and every key of a file recorded.
OneActive == \A i, j \in Ids \ void : rows[i].key = rows[j].key => i = j
LaterByHand == \A i, j \in Ids : i < j /\ rows[i].key = rows[j].key => rows[j].by = "hand"
FilesRecorded == \A file \in imported : \A k \in DOMAIN file : \E i \in Ids : rows[i].key = k

ObservationInv ==
  /\ rows \in Seq(ObservationRow) /\ void \subseteq Ids /\ imported \subseteq Imports
  /\ OneActive /\ LaterByHand /\ FilesRecorded

\* One more row than before, and the others as they were.
OneMoreRow(row) ==
  /\ Len(rows) \in Nat /\ Len(rows') = Len(rows) + 1 /\ rows'[Len(rows) + 1] = row
  /\ rows' \in Seq(ObservationRow) /\ \A i \in 1..Len(rows) : rows'[i] = rows[i]

\* What a row of somebody's hand does to the table.
LEMMA MarketingAppends ==
  ASSUME ObservationInv, NEW k \in Keys, NEW f \in Figures, NEW replaces \in Nat, NEW gone,
         Marketing(k, f, replaces, gone)
  PROVE  OneMoreRow(Recorded(k, f, replaces, "hand"))
<1>1. PICK row : row = Recorded(k, f, replaces, "hand")
  OBVIOUS
<1>2. row \in ObservationRow /\ rows \in Seq(ObservationRow) /\ rows' = Append(rows, row)
  BY <1>1 DEF Recorded, ObservationRow, ObservationInv, Marketing
<1> QED
  BY <1>1, <1>2 DEF OneMoreRow

\* A row by hand for a key without active rows, other than those that are voided with it.
LEMMA HandStep ==
  ASSUME ObservationInv, NEW k \in Keys, NEW f \in Figures, NEW replaces \in Nat, NEW gone \in SUBSET Ids,
         Marketing(k, f, replaces, gone), void' = void \cup gone, imported' = imported
  PROVE  ObservationInv'
<1> DEFINE n == Len(rows) + 1
<1>1. OneMoreRow(Recorded(k, f, replaces, "hand"))
  BY MarketingAppends
<1>2. /\ rows'[n].key = k /\ rows'[n].by = "hand" /\ Len(rows) \in Nat
      /\ \A i \in Ids' : i \in Ids \/ i = n
      /\ \A i \in Ids : i \in Ids' /\ rows'[i] = rows[i] /\ i # n /\ ~(n < i)
      /\ rows' \in Seq(ObservationRow)
  BY <1>1 DEF OneMoreRow, Recorded, Ids
<1>3. Active(k) \subseteq gone
  BY DEF Marketing
<1>4. \A i \in Ids : rows[i].key = k => i \in void'
  BY <1>3 DEF Active
<1> HIDE DEF n
<1>5. OneActive'
  <2> SUFFICES ASSUME NEW i \in (Ids \ void)', NEW j \in (Ids \ void)', rows'[i].key = rows'[j].key
               PROVE  i = j
    BY DEF OneActive
  <2>1. CASE i \in Ids /\ j \in Ids
    BY <1>2, <2>1 DEF ObservationInv, OneActive
  <2> QED
    BY <1>2, <1>4, <2>1
<1>6. LaterByHand'
  BY <1>2 DEF ObservationInv, LaterByHand
<1>7. FilesRecorded'
  BY <1>2 DEF ObservationInv, FilesRecorded
<1>8. void' \subseteq Ids'
  BY <1>2 DEF ObservationInv
<1> QED
  BY <1>2, <1>5, <1>6, <1>7, <1>8 DEF ObservationInv

\* A file adds the rows of its fresh keys, each once.
LEMMA FileStep ==
  ASSUME ObservationInv, NEW file \in Imports, ImportMarketingCsv(file)
  PROVE  ObservationInv'
<1> DEFINE fresh == Fresh(file)
           n == Cardinality(fresh)
<1>1. IsFiniteSet(fresh) /\ n \in Nat /\ fresh \subseteq DOMAIN file /\ fresh \subseteq Keys
  <2>1. IsFiniteSet(DOMAIN file) /\ DOMAIN file \subseteq Keys
    BY ObservationAssumption
  <2>2. fresh \subseteq DOMAIN file
    BY DEF Fresh
  <2> QED
    BY <2>1, <2>2, FS_Subset, FS_CardinalityType
<1>2. PICK new \in [1..n -> fresh] :
        /\ \A k \in fresh : \E i \in DOMAIN new : new[i] = k
        /\ rows' = rows \o [i \in DOMAIN new |-> Recorded(new[i], file[new[i]], 0, "file")]
  BY DEF ImportMarketingCsv
<1>3. \A i, j \in 1..n : new[i] = new[j] => i = j
  <2> HIDE DEF fresh, n
  <2>1. new \in Surjection(1..n, fresh)
    BY <1>2 DEF Surjection
  <2>2. IsFiniteSet(1..n) /\ Cardinality(1..n) = n
    <3>1. PICK one \in Nat : one = 1
      OBVIOUS
    <3>2. /\ IsFiniteSet(one..n)
          /\ Cardinality(one..n) = IF one > n THEN 0 ELSE n - one + 1
      BY <1>1, <3>1, FS_Interval
    <3> QED
      BY <1>1, <3>1, <3>2
  <2>3. n = Cardinality(fresh)
    BY DEF n
  <2>4. new \in Injection(1..n, fresh)
    BY <2>1, <2>2, <2>3, FS_Surjection
  <2> QED
    BY <2>4 DEF Injection, IsInjective
<1> DEFINE more == [i \in 1..n |-> Recorded(new[i], file[new[i]], 0, "file")]
<1>4. /\ more \in Seq(ObservationRow) /\ Len(more) = n /\ rows' = rows \o more
      /\ \A i \in 1..n : more[i].key = new[i] /\ more[i].by = "file"
  <2>1. \A i \in 1..n : new[i] \in Keys /\ file[new[i]] \in Figures
    BY <1>1, <1>2, ObservationAssumption
  <2>2. \A i \in 1..n : Recorded(new[i], file[new[i]], 0, "file") \in ObservationRow
    BY <2>1 DEF Recorded, ObservationRow
  <2>3. more \in [1..n -> ObservationRow]
    BY <2>2
  <2>4. \A i \in 1..n : more[i].key = new[i] /\ more[i].by = "file"
    BY DEF Recorded
  <2>5. rows' = rows \o more
    BY <1>2
  <2> HIDE DEF more, n
  <2> QED
    BY <1>1, <2>3, <2>4, <2>5, SeqDef
<1> HIDE DEF fresh, n, more
<1>5. /\ rows' \in Seq(ObservationRow) /\ Len(rows') = Len(rows) + n /\ Len(rows) \in Nat
      /\ \A i \in 1..Len(rows) + n :
           rows'[i] = IF i <= Len(rows) THEN rows[i] ELSE more[i - Len(rows)]
  <2>1. rows \in Seq(ObservationRow)
    BY DEF ObservationInv
  <2> QED
    BY <1>4, <2>1, ConcatProperties
<1>6. /\ \A i \in Ids : i \in Ids' /\ rows'[i] = rows[i]
      /\ \A i \in Ids' : i \in Ids \/ (i > Len(rows) /\ i - Len(rows) \in 1..n
                                        /\ rows'[i].key = new[i - Len(rows)] /\ rows'[i].by = "file")
  BY <1>1, <1>4, <1>5 DEF Ids
<1>7. \A i \in Ids, k \in fresh : rows[i].key # k
  BY DEF fresh, Fresh
<1>8. \A i \in 1..n : new[i] \in fresh
  BY <1>2
<1>9. \A i \in Ids', j \in Ids' : i \notin Ids /\ rows'[i].key = rows'[j].key => i = j
  <2> SUFFICES ASSUME NEW i \in Ids', NEW j \in Ids', i \notin Ids, rows'[i].key = rows'[j].key
               PROVE  i = j
    OBVIOUS
  <2>1. i - Len(rows) \in 1..n /\ rows'[i].key = new[i - Len(rows)]
    BY <1>6
  <2>2. j \notin Ids
    BY <1>6, <1>7, <1>8, <2>1
  <2>3. j - Len(rows) \in 1..n /\ rows'[j].key = new[j - Len(rows)]
    BY <1>6, <2>2
  <2>4. i - Len(rows) = j - Len(rows)
    BY <1>3, <2>1, <2>3
  <2>5. i \in Int /\ j \in Int
    BY <1>5 DEF Ids
  <2> QED
    BY <1>5, <2>4, <2>5
<1>10. OneActive'
  <2> SUFFICES ASSUME NEW i \in (Ids \ void)', NEW j \in (Ids \ void)', rows'[i].key = rows'[j].key
               PROVE  i = j
    BY DEF OneActive
  <2>1. CASE i \in Ids /\ j \in Ids
    BY <1>6, <2>1 DEF ObservationInv, OneActive, ImportMarketingCsv
  <2> QED
    BY <1>9, <2>1
<1>11. LaterByHand'
  <2> SUFFICES ASSUME NEW i \in Ids', NEW j \in Ids', i < j, rows'[i].key = rows'[j].key
               PROVE  rows'[j].by = "hand"
    BY DEF LaterByHand
  <2>1. i # j
    BY <1>5 DEF Ids
  <2>2. i \in Ids /\ j \in Ids
    BY <1>9, <2>1
  <2> QED
    BY <1>6, <2>2 DEF ObservationInv, LaterByHand
<1>12. FilesRecorded'
  <2>1. ASSUME NEW k \in DOMAIN file PROVE \E i \in Ids' : rows'[i].key = k
    <3>1. CASE k \in fresh
      <4>1. PICK i \in 1..n : new[i] = k
        BY <1>2, <3>1
      <4>2. Len(rows) + i \in Ids' /\ Len(rows) + i - Len(rows) = i /\ ~(Len(rows) + i <= Len(rows))
        BY <1>1, <1>5 DEF Ids
      <4>3. rows'[Len(rows) + i] = more[i]
        BY <1>1, <1>5, <4>2
      <4> QED
        BY <1>4, <4>1, <4>2, <4>3
    <3>2. CASE k \notin fresh
      <4>1. \E i \in Active(k) : rows[i].figure = file[k]
        BY <3>2 DEF ImportMarketingCsv, Admitted, fresh
      <4>2. \E i \in Ids : rows[i].key = k
        BY <4>1 DEF Active
      <4> QED
        BY <1>6, <4>2
    <3> QED
      BY <3>1, <3>2
  <2>2. imported' = imported \cup {file}
    BY DEF ImportMarketingCsv
  <2> QED
    BY <1>6, <2>1, <2>2 DEF ObservationInv, FilesRecorded
<1> QED
  BY <1>5, <1>6, <1>10, <1>11, <1>12 DEF ObservationInv, ImportMarketingCsv

\* Every step of the observations keeps their invariant.
LEMMA ObservationInvStep == ObservationInv /\ [ObservationNext]_observationVars => ObservationInv'
<1> SUFFICES ASSUME ObservationInv, [ObservationNext]_observationVars PROVE ObservationInv'
  OBVIOUS
<1>1. CASE UNCHANGED observationVars
  BY <1>1 DEF observationVars, ObservationInv, OneActive, LaterByHand, FilesRecorded, Ids
<1>2. ASSUME NEW k \in Keys, NEW f \in Figures, CreateMarketingObservation(k, f) PROVE ObservationInv'
  <2>1. PICK gone \in SUBSET Ids : gone = {}
    OBVIOUS
  <2>2. Marketing(k, f, 0, gone) /\ void' = void \cup gone /\ imported' = imported
    BY <1>2, <2>1 DEF CreateMarketingObservation
  <2>3. PICK zero \in Nat : zero = 0
    OBVIOUS
  <2> QED
    BY <2>2, <2>3, HandStep
<1>3. ASSUME NEW k \in Keys, NEW f \in Figures, NEW i \in Ids, ReplaceMarketingObservation(i, k, f)
      PROVE  ObservationInv'
  <2>1. PICK gone \in SUBSET Ids : gone = {i}
    OBVIOUS
  <2>2. Marketing(k, f, i, gone) /\ void' = void \cup gone /\ imported' = imported
    BY <1>3, <2>1 DEF ReplaceMarketingObservation
  <2>3. i \in Nat
    BY DEF Ids, ObservationInv
  <2> QED
    BY <2>2, <2>3, HandStep
<1>4. ASSUME NEW i \in Ids, VoidMarketingObservation(i) PROVE ObservationInv'
  BY <1>4 DEF VoidMarketingObservation, ObservationInv, OneActive, LaterByHand, FilesRecorded, Ids
<1>5. ASSUME NEW file \in Imports, ImportMarketingCsv(file) PROVE ObservationInv'
  BY <1>5, FileStep
<1> QED
  BY <1>1, <1>2, <1>3, <1>4, <1>5 DEF ObservationNext

\* However often and in whatever order files are imported between entries, corrections and
\* withdrawals, a figure counts once, and none comes back by a file
\* (import_marketing_csv, _marketing).
THEOREM ImportsReviveNothing == ObservationSpec => []FilesReviveNothing
<1>1. ObservationInit => ObservationInv
  BY DEF ObservationInit, ObservationInv, OneActive, LaterByHand, FilesRecorded, Ids
<1>2. ObservationInv => FilesReviveNothing
  <2> SUFFICES ASSUME ObservationInv PROVE FilesReviveNothing
    OBVIOUS
  <2>1. ASSUME NEW k \in Keys PROVE Cardinality(Active(k)) <= 1
    <3>1. CASE Active(k) = {}
      BY <3>1, FS_EmptySet
    <3>2. CASE Active(k) # {}
      <4>1. PICK i \in Active(k) : TRUE
        BY <3>2
      <4>2. Active(k) = {i}
        BY <4>1 DEF Active, ObservationInv, OneActive
      <4>3. Cardinality({i}) = 1
        BY FS_Singleton
      <4> QED
        BY <4>2, <4>3
    <3> QED
      BY <3>1, <3>2
  <2> QED
    BY <2>1 DEF ObservationInv, LaterByHand, FilesRecorded, FilesReviveNothing
<1> QED
  BY <1>1, <1>2, ObservationInvStep, PTL DEF ObservationSpec

-----------------------------------------------------------------------------
(* Advertising reports *)

\* No two reports of a day overlap, and every row of a file that was accepted still has its
\* report, perhaps corrected.
Apart(recorded) == \A r, s \in recorded : r # s /\ r.place = s.place => ~GrainsOverlap(r.grain, s.grain)
Reported(row, recorded) == \E r \in recorded : r.place = row.place /\ r.grain = row.grain

AdInv ==
  /\ AdTypeOK /\ Apart(reports)
  /\ \A file \in uploaded : \A i \in DOMAIN file : Reported(file[i], reports)

\* Reports that cover one cell overlap.
LEMMA CoversOverlap ==
  ASSUME NEW cell, NEW r, NEW s, Covers(r, cell), Covers(s, cell)
  PROVE  r.place = s.place /\ GrainsOverlap(r.grain, s.grain)
BY DEF Covers, GrainsOverlap

\* Overlapping is mutual.
LEMMA OverlapMutual ==
  ASSUME NEW g, NEW h, GrainsOverlap(g, h) PROVE GrainsOverlap(h, g)
BY DEF GrainsOverlap

\* A correction keeps place and names, so its cells are those of the report it replaces.
LEMMA CorrectStep ==
  ASSUME AdInv, NEW r \in reports, NEW spend \in Spends, CorrectAdObservation(r, spend)
  PROVE  AdInv'
<1>1. PICK new \in Reports : /\ new.place = r.place /\ new.grain = r.grain
                             /\ reports' = (reports \ {r}) \cup {new} /\ uploaded' = uploaded
  <2>1. r \in Reports
    BY DEF AdInv, AdTypeOK
  <2>2. [r EXCEPT !.spend = spend] \in Reports
    BY <2>1 DEF Reports
  <2>3. [r EXCEPT !.spend = spend].place = r.place /\ [r EXCEPT !.spend = spend].grain = r.grain
    BY <2>1 DEF Reports
  <2> QED
    BY <2>2, <2>3 DEF CorrectAdObservation
<1>2. Apart(reports')
  <2> SUFFICES ASSUME NEW p \in reports', NEW q \in reports', p # q, p.place = q.place
               PROVE  ~GrainsOverlap(p.grain, q.grain)
    BY DEF Apart
  <2>1. PICK p0 \in reports : p0.place = p.place /\ p0.grain = p.grain /\ (p0 = r <=> p = new /\ p \notin reports \ {r})
    BY <1>1
  <2>2. PICK q0 \in reports : q0.place = q.place /\ q0.grain = q.grain /\ (q0 = r <=> q = new /\ q \notin reports \ {r})
    BY <1>1
  <2>3. CASE p0 # q0
    BY <2>1, <2>2, <2>3 DEF AdInv, Apart
  <2>4. CASE p0 = q0
    BY <1>1, <2>1, <2>2, <2>4 DEF AdInv, Apart
  <2> QED
    BY <2>3, <2>4
<1>3. \A row : Reported(row, reports) => Reported(row, reports')
  BY <1>1 DEF Reported
<1>4. AdTypeOK'
  BY <1>1 DEF AdInv, AdTypeOK
<1> QED
  BY <1>1, <1>2, <1>3, <1>4 DEF AdInv

\* A row of an accepted file is recorded, or the first of its kind in the file fits what
\* was recorded before it.
LEMMA FirstOfItsKind ==
  ASSUME NEW file \in Seq(Reports), NEW recorded, Accepted(file, recorded), NEW r \in ToSet(file)
  PROVE  \/ r \in recorded
         \/ \E i \in DOMAIN file : /\ file[i] = r /\ \A j \in DOMAIN file : j < i => file[j] # r
                                   /\ Fits(r, recorded \cup {file[j] : j \in 1..(i - 1)})
<1> DEFINE found == {i \in DOMAIN file : file[i] = r}
<1>1. DOMAIN file \subseteq Nat /\ found # {} /\ found \subseteq Nat
  BY DEF ToSet
<1>2. PICK i \in found : \A j \in found : i <= j
  BY <1>1, LeastNat
<1>3. i \in DOMAIN file /\ i \in Nat /\ file[i] = r /\ \A j \in DOMAIN file : j < i => file[j] # r
  BY <1>1, <1>2
<1>4. DOMAIN file = 1..Len(file) /\ Len(file) \in Nat
  OBVIOUS
<1>5. CASE Known(r, recorded \cup {file[j] : j \in 1..(i - 1)})
  <2>1. \A j \in 1..(i - 1) : j \in DOMAIN file /\ j < i
    BY <1>3, <1>4
  <2> QED
    BY <1>3, <1>5, <2>1 DEF Known
<1>6. CASE Fits(r, recorded \cup {file[j] : j \in 1..(i - 1)})
  BY <1>3, <1>6
<1> QED
  BY <1>3, <1>5, <1>6 DEF Accepted

\* A file is taken whole: each of its recorded is recorded afterwards, and none twice.
LEMMA ImportStep ==
  ASSUME AdInv, NEW file \in Files, ImportAdCsv(file)
  PROVE  AdInv'
<1> DEFINE new == {r \in ToSet(file) \ reports : Fits(r, reports)}
<1>1. Accepted(file, reports) /\ reports' = reports \cup new /\ uploaded' = uploaded \cup {file}
  BY DEF ImportAdCsv
<1>2. file \in Seq(Reports)
  BY AdAssumption
<1>3. ASSUME NEW r \in ToSet(file), r \notin reports PROVE r \in new
  <2>1. PICK i \in DOMAIN file : Fits(r, reports \cup {file[j] : j \in 1..(i - 1)})
    BY <1>1, <1>2, <1>3, FirstOfItsKind
  <2> QED
    BY <1>3, <2>1 DEF Fits
<1>4. ASSUME NEW r \in new, NEW s \in new, r # s, r.place = s.place
      PROVE  ~GrainsOverlap(r.grain, s.grain)
  <2>1. PICK i \in DOMAIN file :
          /\ file[i] = r /\ \A j \in DOMAIN file : j < i => file[j] # r
          /\ Fits(r, reports \cup {file[j] : j \in 1..(i - 1)})
    BY <1>1, <1>2, FirstOfItsKind
  <2>2. PICK k \in DOMAIN file :
          /\ file[k] = s /\ \A j \in DOMAIN file : j < k => file[j] # s
          /\ Fits(s, reports \cup {file[j] : j \in 1..(k - 1)})
    BY <1>1, <1>2, FirstOfItsKind
  <2>3. i \in Nat /\ k \in Nat /\ 1 <= i /\ 1 <= k /\ i # k
    BY <1>2, <1>4, <2>1, <2>2
  <2>4. CASE k < i
    BY <1>4, <2>1, <2>2, <2>3, <2>4 DEF Fits
  <2>5. CASE i < k
    BY <1>4, <2>1, <2>2, <2>3, <2>5, OverlapMutual DEF Fits
  <2> QED
    BY <2>3, <2>4, <2>5
<1>5. ASSUME NEW r \in new, NEW s \in reports, r.place = s.place
      PROVE  ~GrainsOverlap(r.grain, s.grain) /\ ~GrainsOverlap(s.grain, r.grain)
  BY <1>5, OverlapMutual DEF Fits
<1>6. Apart(reports')
  BY <1>1, <1>4, <1>5 DEF AdInv, Apart
<1>7. new \subseteq Reports
  BY <1>2 DEF ToSet
<1>8. \A i \in DOMAIN file : Reported(file[i], reports')
  <2>1. \A i \in DOMAIN file : file[i] \in ToSet(file)
    BY DEF ToSet
  <2> HIDE DEF new
  <2> QED
    BY <1>1, <1>3, <2>1 DEF Reported
<1>9. \A row : Reported(row, reports) => Reported(row, reports')
  BY <1>1 DEF Reported
<1> HIDE DEF new
<1> QED
  BY <1>1, <1>6, <1>7, <1>8, <1>9 DEF AdInv, AdTypeOK

\* A report that is typed in overlaps none.
LEMMA SaveStep ==
  ASSUME AdInv, NEW r \in Reports, SaveAdObservation(r) PROVE AdInv'
<1>1. /\ reports' = reports \cup {r} /\ uploaded' = uploaded /\ Fits(r, reports)
  BY DEF SaveAdObservation
<1>2. Apart(reports')
  BY <1>1, OverlapMutual DEF AdInv, Apart, Fits
<1>3. \A row : Reported(row, reports) => Reported(row, reports')
  BY <1>1 DEF Reported
<1> QED
  BY <1>1, <1>2, <1>3 DEF AdInv, AdTypeOK

\* Spending counts once, however it was reported, and an accepted file counts whole
\* (save_ad_observation, import_ad_csv).
THEOREM SpendIsCountedOnce == AdSpec => []SpendCountedOnce
<1>1. AdInit => AdInv
  BY DEF AdInit, AdInv, AdTypeOK, Apart
<1>2. AdInv /\ [AdNext]_adVars => AdInv'
  <2> SUFFICES ASSUME AdInv, [AdNext]_adVars PROVE AdInv'
    OBVIOUS
  <2>1. CASE UNCHANGED adVars
    BY <2>1 DEF adVars, AdInv, AdTypeOK
  <2> QED
    BY <2>1, SaveStep, CorrectStep, ImportStep DEF AdNext
<1>3. AdInv => SpendCountedOnce
  <2> SUFFICES ASSUME AdInv, NEW cell \in Cells
               PROVE  LET counting == {r \in reports : Covers(r, cell)} IN
                      /\ Cardinality(counting) <= 1
                      /\ (\E file \in uploaded : \E i \in DOMAIN file : Covers(file[i], cell)) =>
                           counting # {}
    BY DEF SpendCountedOnce
  <2> DEFINE counting == {r \in reports : Covers(r, cell)}
  <2>1. \A r, s \in counting : r = s
    BY CoversOverlap DEF AdInv, Apart
  <2>2. Cardinality(counting) <= 1
    <3> HIDE DEF counting
    <3>1. CASE counting = {}
      BY <3>1, FS_EmptySet
    <3>2. CASE counting # {}
      <4>1. PICK r \in counting : TRUE
        BY <3>2
      <4>2. counting = {r} /\ Cardinality({r}) = 1
        BY <2>1, <4>1, FS_Singleton
      <4> QED
        BY <4>2
    <3> QED
      BY <3>1, <3>2
  <2>3. ASSUME NEW file \in uploaded, NEW i \in DOMAIN file, Covers(file[i], cell) PROVE counting # {}
    <3>1. PICK r \in reports : r.place = file[i].place /\ r.grain = file[i].grain
      BY DEF AdInv, Reported
    <3>2. Covers(r, cell)
      BY <2>3, <3>1 DEF Covers
    <3> QED
      BY <3>2
  <2> QED
    BY <2>2, <2>3
<1> QED
  BY <1>1, <1>2, <1>3, PTL DEF AdSpec

-----------------------------------------------------------------------------
(* Sources and the answers that cite them: an edition that was ever published is in use
   only as the last one reviewed of its source, and an answer under way carries what it
   read. *)

\* Once a source has a reviewed edition, its head is the last one.
HeadHolds(s) ==
  (\E i \in 1..Len(publications) : publications[i].source = s) =>
    \E e : heads[s] = InUse(e) /\ LatestOf(s, Len(publications)) = {e}

\* The editions that were in force when they were read.
InForceThen(cards, day, after) ==
  /\ after \in 0..Len(publications)
  /\ \A e \in cards : Usable(e, day) /\ LatestOf(e.source, after) = {e}

Supported(x) == (~x.review /\ x.topic # "general") => x.cards # {} /\ x.topic \notin ReviewTopics

\* The editions are of the topic asked about (current_sources of approved_sources).
OnTopic(cards, topic) == \A e \in cards : topic \in TopicsOf[e.source]

Answered(x) == InForceThen(x.cards, x.day, x.after) /\ OnTopic(x.cards, x.topic) /\ Supported(x)

\* An answer of a window, before it is kept.
IsAnswer(x) ==
  /\ x = [step |-> x.step, topic |-> x.topic, cards |-> x.cards, review |-> x.review,
          day |-> x.day, after |-> x.after]
  /\ Answered(x)

AskingHolds(a) ==
  /\ asking[a].step \in {"answered", "explained"} => IsAnswer(asking[a])
  /\ asking[a].step = "calling" =>
       /\ IsAnswer(asking[a].local) /\ OnTopic(asking[a].read, asking[a].local.topic)
       /\ InForceThen(asking[a].read, asking[a].day, asking[a].after)

EditionsTyped ==
  /\ publications \in Seq(revisions) /\ \A e \in revisions : e.source \in Sources
  /\ \E H : heads \in [Sources -> H]
  /\ \A s \in Sources : \A e \in heads[s].edition : e.source = s

QuestionsHold ==
  /\ \E H : asking \in [Askers -> H]
  /\ \A a \in Askers : AskingHolds(a)
  /\ \A m \in messages : Answered(m)

KnowledgeInv == EditionsTyped /\ (\A s \in Sources : HeadHolds(s)) /\ QuestionsHold

\* The publications of one step follow the earlier ones: the reviewed editions, one of a
\* source, each of which becomes the head of its source.
Publishes(live) ==
  /\ Len(publications) \in Nat /\ Len(publications') \in Nat /\ Len(publications) <= Len(publications')
  /\ \A i \in 1..Len(publications) : publications'[i] = publications[i]
  /\ \A i \in (Len(publications) + 1)..Len(publications') : publications'[i] \in live
  /\ \A e \in live : \E i \in (Len(publications) + 1)..Len(publications') : publications'[i] = e
  /\ \A e, f \in live : e.source = f.source => e = f
  /\ \A e \in live : e.source \in Sources /\ heads'[e.source] = InUse(e)
  /\ \A s \in Sources : heads[s].approved /\ (\A e \in live : e.source # s) => heads'[s] = heads[s]

\* What was the last edition of a source at some moment stays so.
LEMMA LatestStands ==
  ASSUME NEW live, Publishes(live), NEW s, NEW n \in 0..Len(publications)
  PROVE  LatestOf(s, n)' = LatestOf(s, n) /\ n \in 0..Len(publications')
<1>1. /\ Len(publications) \in Nat /\ Len(publications') \in Nat /\ Len(publications) <= Len(publications')
      /\ \A i \in 1..Len(publications) : publications'[i] = publications[i]
  BY DEF Publishes
<1>2. \A i \in 1..n : publications'[i] = publications[i]
  BY <1>1
<1>3. \A j \in 1..n : \A k \in (j + 1)..n : k \in 1..n
  OBVIOUS
<1>4. {j \in 1..n : publications'[j].source = s /\ \A k \in (j + 1)..n : publications'[k].source # s}
        = {j \in 1..n : publications[j].source = s /\ \A k \in (j + 1)..n : publications[k].source # s}
  BY <1>2, <1>3
<1>5. n \in 0..Len(publications')
  BY <1>1
<1> QED
  BY <1>2, <1>4, <1>5, ZenonT(40) DEF LatestOf

\* After publications every head is the last edition of its source.
LEMMA PublishesKeepsHeads ==
  ASSUME \A s \in Sources : HeadHolds(s), NEW live, Publishes(live), NEW s \in Sources
  PROVE  HeadHolds(s)'
<1>0. PICK n, N : n = Len(publications) /\ N = Len(publications')
  OBVIOUS
<1>1. /\ n \in Nat /\ N \in Nat /\ n <= N
      /\ \A i \in 1..n : publications'[i] = publications[i]
      /\ \A i \in (n + 1)..N : publications'[i] \in live
      /\ \A e \in live : \E i \in (n + 1)..N : publications'[i] = e
      /\ \A e, f \in live : e.source = f.source => e = f
  BY <1>0 DEF Publishes
<1> DEFINE last == {publications'[i] : i \in {j \in 1..N :
              publications'[j].source = s /\ \A k \in (j + 1)..N : publications'[k].source # s}}
<1>2. LatestOf(s, Len(publications))' = last
  BY <1>0 DEF LatestOf
<1>3. CASE \E e \in live : e.source = s
  <2>1. PICK e \in live : e.source = s
    BY <1>3
  <2>2. heads'[s] = InUse(e)
    BY <2>1 DEF Publishes
  <2>3. \A i \in (n + 1)..N : publications'[i].source = s => publications'[i] = e
    BY <1>1, <2>1
  <2>4. PICK top \in (n + 1)..N : publications'[top] = e
    BY <1>1, <2>1
  <2>5. \A j \in 1..N : publications'[j].source = s /\ (\A k \in (j + 1)..N : publications'[k].source # s)
          => publications'[j] = e
    <3> SUFFICES ASSUME NEW j \in 1..N, publications'[j].source = s,
                        \A k \in (j + 1)..N : publications'[k].source # s
                 PROVE  publications'[j] = e
      OBVIOUS
    <3>1. ~(top \in (j + 1)..N)
      BY <2>1, <2>4
    <3>2. j \in (n + 1)..N
      BY <1>1, <2>4, <3>1
    <3> QED
      BY <2>3, <3>2
  <2>6. \E j \in 1..N : publications'[j].source = s /\ \A k \in (j + 1)..N : publications'[k].source # s
    <3> DEFINE later == {d \in Nat : d <= N /\ N - d \in (n + 1)..N /\ publications'[N - d].source = s}
    <3>1. N - top \in later
      BY <1>1, <2>1, <2>4
    <3>2. later \subseteq Nat /\ later # {}
      BY <3>1
    <3> HIDE DEF later
    <3>3. PICK d \in later : \A x \in later : d <= x
      BY <3>2, LeastNat
    <3>4. d \in Nat /\ d <= N /\ N - d \in (n + 1)..N /\ publications'[N - d].source = s
      BY <3>3 DEF later
    <3>5. ASSUME NEW k \in (N - d + 1)..N, publications'[k].source = s PROVE FALSE
      <4>1. N - k \in Nat /\ N - k < d /\ N - (N - k) = k /\ k \in (n + 1)..N /\ N - k <= N
        BY <1>1, <3>4
      <4>2. N - k \in later
        BY <3>5, <4>1 DEF later
      <4> QED
        BY <3>3, <3>4, <4>1, <4>2
    <3>6. N - d \in 1..N
      BY <1>1, <3>4
    <3> QED
      BY <3>4, <3>5, <3>6
  <2>7. last = {e}
    BY <1>2, <2>5, <2>6
  <2> QED
    BY <1>2, <2>2, <2>7 DEF HeadHolds, InUse
<1>4. CASE \A e \in live : e.source # s
  <2> SUFFICES ASSUME NEW i \in 1..N, publications'[i].source = s PROVE \E e : heads'[s] = InUse(e) /\ last = {e}
    BY <1>0, <1>2 DEF HeadHolds, InUse
  <2>1. \A j \in 1..N : publications'[j].source = s => j \in 1..n
    BY <1>1, <1>4
  <2>2. \E j \in 1..n : publications[j].source = s
    BY <1>1, <2>1
  <2>3. PICK e : heads[s] = InUse(e) /\ LatestOf(s, n) = {e}
    BY <1>0, <2>2 DEF HeadHolds
  <2>4. heads'[s] = heads[s]
    BY <1>4, <2>3 DEF Publishes, InUse
  <2>5. \A j \in 1..n : (\A k \in (j + 1)..N : publications'[k].source # s)
                          <=> (\A k \in (j + 1)..n : publications[k].source # s)
    <3> TAKE j \in 1..n
    <3>1. \A k \in (j + 1)..n : k \in (j + 1)..N /\ k \in 1..n
      BY <1>1
    <3>2. \A k \in (j + 1)..N : k \in 1..N /\ (k \in 1..n => k \in (j + 1)..n)
      BY <1>1
    <3> QED
      BY <1>1, <2>1, <3>1, <3>2
  <2>6. \A j : j \in 1..N /\ publications'[j].source = s <=> j \in 1..n /\ publications[j].source = s
    BY <1>1, <2>1
  <2>7. last = LatestOf(s, n)
    <3>1. {j \in 1..N : publications'[j].source = s /\ \A k \in (j + 1)..N : publications'[k].source # s}
            = {j \in 1..n : publications[j].source = s /\ \A k \in (j + 1)..n : publications[k].source # s}
      BY <2>5, <2>6
    <3>2. \A j \in 1..n : publications'[j] = publications[j]
      BY <1>1
    <3> QED
      BY <1>2, <3>1, <3>2 DEF LatestOf
  <2> QED
    BY <2>3, <2>4, <2>7
<1> QED
  BY <1>3, <1>4

\* What was in force when it was read stays what it was.
LEMMA ReadingStands ==
  ASSUME NEW live, Publishes(live), NEW cards, NEW day, NEW after, InForceThen(cards, day, after)
  PROVE  InForceThen(cards, day, after)'
<1>1. after \in 0..Len(publications)
  BY DEF InForceThen
<1>2. \A e \in cards : LatestOf(e.source, after)' = LatestOf(e.source, after)
  BY <1>1, LatestStands
<1>3. after \in 0..Len(publications')
  BY <1>1, LatestStands
<1> QED
  BY <1>2, <1>3 DEF InForceThen, Usable

\* So does an answer that carries it.
LEMMA AnswerStands ==
  ASSUME NEW live, Publishes(live), NEW x
  PROVE  /\ Answered(x) => Answered(x)'
         /\ IsAnswer(x) => IsAnswer(x)'
  BY ReadingStands DEF Answered, Supported, IsAnswer

\* Nothing published: the empty case.
LEMMA NothingPublished ==
  ASSUME EditionsTyped, UNCHANGED <<heads, publications>>
  PROVE  Publishes({})
<1>1. Len(publications) \in Nat
  BY DEF EditionsTyped
<1> QED
  BY <1>1 DEF Publishes

\* A sequence made of a finite set has every element of it.
LEMMA SequenceOfSet ==
  ASSUME NEW S, IsFiniteSet(S)
  PROVE  /\ SetToSeq(S) \in [1..Cardinality(S) -> S] /\ Cardinality(S) \in Nat
         /\ \A e \in S : \E i \in 1..Cardinality(S) : SetToSeq(S)[i] = e
<1>1. Cardinality(S) \in Nat /\ \E f \in [1..Cardinality(S) -> S] : IsInjective(f)
  BY FS_CardinalityType DEF ExistsBijection, Bijection, Injection
<1>2. SetToSeq(S) \in [1..Cardinality(S) -> S] /\ IsInjective(SetToSeq(S))
  BY <1>1 DEF SetToSeq
<1>3. SetToSeq(S) \in Injection(1..Cardinality(S), S)
  BY <1>2 DEF Injection
<1>4. Cardinality(1..Cardinality(S)) = Cardinality(S)
  BY <1>1, FS_Interval
<1>5. SetToSeq(S) \in Surjection(1..Cardinality(S), S)
  BY <1>3, <1>4, FS_Injection
<1> QED
  BY <1>1, <1>2, <1>5 DEF Surjection

\* What a publication appends.
LEMMA PublishesRows ==
  ASSUME EditionsTyped, NEW live, NEW made, NEW n \in Nat, made \in [1..n -> live],
         publications' = publications \o made,
         \A e \in live : \E i \in 1..n : made[i] = e,
         \A e, f \in live : e.source = f.source => e = f,
         \A e \in live : e.source \in Sources /\ heads'[e.source] = InUse(e),
         \A s \in Sources : heads[s].approved /\ (\A e \in live : e.source # s) => heads'[s] = heads[s]
  PROVE  Publishes(live)
<1>1. publications \in Seq(revisions) /\ made \in Seq(live)
  BY SeqDef DEF EditionsTyped
<1>2. Len(publications) \in Nat /\ Len(made) = n
  BY <1>1
<1>3. /\ Len(publications') = Len(publications) + n
      /\ \A i \in 1..Len(publications) : publications'[i] = publications[i]
      /\ \A i \in (Len(publications) + 1)..(Len(publications) + n) : publications'[i] = made[i - Len(publications)]
  <2>1. \A i \in 1..(Len(publications) + Len(made)) :
          (publications \o made)[i] = IF i <= Len(publications) THEN publications[i] ELSE made[i - Len(publications)]
    BY <1>1, <1>2, ConcatProperties
  <2>2. Len(publications \o made) = Len(publications) + Len(made)
    BY <1>1, ConcatProperties
  <2> QED
    BY <1>2, <2>1, <2>2
<1>4. \A i \in (Len(publications) + 1)..(Len(publications) + n) :
        i - Len(publications) \in 1..n /\ publications'[i] \in live
  BY <1>2, <1>3
<1>5. \A e \in live : \E i \in (Len(publications) + 1)..(Len(publications) + n) : publications'[i] = e
  <2> TAKE e \in live
  <2>1. PICK i \in 1..n : made[i] = e
    OBVIOUS
  <2>2. i + Len(publications) \in (Len(publications) + 1)..(Len(publications) + n)
        /\ (i + Len(publications)) - Len(publications) = i
    BY <1>2
  <2> QED
    BY <1>3, <2>1, <2>2
<1>6. PICK m, N : m = Len(publications) /\ N = Len(publications')
  OBVIOUS
<1>7. /\ m \in Nat /\ N \in Nat /\ m <= N /\ N = m + n
      /\ \A i \in 1..m : publications'[i] = publications[i]
      /\ \A i \in (m + 1)..N : publications'[i] \in live
      /\ \A e \in live : \E i \in (m + 1)..N : publications'[i] = e
  <2>1. m \in Nat /\ N = m + n /\ N \in Nat /\ m <= N
    BY <1>2, <1>3, <1>6
  <2> QED
    BY <2>1, <1>3, <1>4, <1>5, <1>6
<1> QED
  BY <1>6, <1>7 DEF Publishes

\* Most steps touch no edition.
LEMMA EditionsUntouched ==
  ASSUME EditionsTyped, UNCHANGED <<heads, revisions, publications>>
  PROVE  EditionsTyped' /\ Publishes({})
  BY NothingPublished DEF EditionsTyped

\* ActivateRevision: one edition becomes the head of its source.
LEMMA ActivateStep ==
  ASSUME EditionsTyped, NEW e, ActivateRevision(e)
  PROVE  EditionsTyped' /\ Publishes({e})
<1>1. e \in revisions /\ e.source \in Sources /\ revisions' = revisions
      /\ heads' = [heads EXCEPT ![e.source] = InUse(e)] /\ publications' = Append(publications, e)
  BY DEF ActivateRevision, Activated, EditionsTyped
<1>2. PICK H : heads \in [Sources -> H]
  BY DEF EditionsTyped
<1>3. /\ heads' \in [Sources -> H \cup {InUse(e)}] /\ heads'[e.source] = InUse(e)
      /\ \A s \in Sources : s # e.source => heads'[s] = heads[s]
  BY <1>1, <1>2
<1>4. EditionsTyped'
  <2>1. publications' \in Seq(revisions)
    BY <1>1 DEF EditionsTyped
  <2>2. \A s \in Sources : \A x \in heads'[s].edition : x.source = s
    BY <1>1, <1>3 DEF EditionsTyped, InUse
  <2> QED
    BY <1>1, <1>3, <2>1, <2>2 DEF EditionsTyped
<1>5. Publishes({e})
  <2>1. PICK m : m = Len(publications) /\ m \in Nat
    BY DEF EditionsTyped
  <2>2. /\ Len(publications') = m + 1 /\ publications'[m + 1] = e
        /\ \A i \in 1..m : publications'[i] = publications[i]
    BY <1>1, <2>1 DEF EditionsTyped
  <2> QED
    BY <1>1, <1>3, <2>1, <2>2 DEF Publishes
<1> QED
  BY <1>4, <1>5

\* PublishCatalog: what its recorded review covers becomes the heads of the sources.
LEMMA CatalogStep ==
  ASSUME EditionsTyped, NEW catalog \in Catalogs, NEW reviewed \in BOOLEAN,
         PublishCatalog(catalog, reviewed)
  PROVE  EditionsTyped' /\ \E live : Publishes(live)
<1> DEFINE made == {Candidate(item, catalog.reviewedOn) : item \in catalog.items}
           created == {e \in made : heads[e.source] = Absent}
           live == IF reviewed THEN {e \in made : e \in created \/ heads[e.source].approved} ELSE {}
<1>1. /\ revisions' = revisions \cup (made \cup UNION {heads[e.source].edition : e \in made})
      /\ publications' = publications \o SetToSeq(live)
      /\ heads' = [s \in Sources |->
           IF \E e \in live : e.source = s THEN InUse(CHOOSE e \in live : e.source = s)
           ELSE IF \E e \in created : e.source = s
                THEN [edition |-> {e \in created : e.source = s}, approved |-> FALSE]
                ELSE heads[s]]
  BY DEF PublishCatalog, Staged
<1>2. /\ \A e \in made : e.source \in Sources
      /\ \A e, f \in made : e.source = f.source => e = f
  <2>1. \A e \in made : \E i \in catalog.items : e = Candidate(i, catalog.reviewedOn) /\ e.source = i.source
    BY DEF Candidate
  <2>2. \A i, j \in catalog.items : i.source \in Sources /\ (i.source = j.source => i = j)
    BY KnowledgeAssumption
  <2> HIDE DEF made
  <2> QED
    BY <2>1, <2>2
<1>3. IsFiniteSet(made)
  <2>1. IsFiniteSet(catalog.items)
    BY KnowledgeAssumption
  <2> DEFINE g == [item \in catalog.items |-> Candidate(item, catalog.reviewedOn)]
  <2>2. g \in Surjection(catalog.items, made)
    BY DEF Surjection
  <2> QED
    BY <2>1, <2>2, FS_Surjection
<1>4. live \subseteq made /\ created \subseteq made /\ \A e \in created : ~heads[e.source].approved
  BY DEF Absent
<1>5. \A e \in made : \A x \in heads[e.source].edition : x.source \in Sources
  BY <1>2 DEF EditionsTyped
<1> HIDE DEF made, created, live
<1>6. IsFiniteSet(live)
  BY <1>3, <1>4, FS_Subset
<1>7. /\ SetToSeq(live) \in [1..Cardinality(live) -> live] /\ Cardinality(live) \in Nat
      /\ \A e \in live : \E i \in 1..Cardinality(live) : SetToSeq(live)[i] = e
  BY <1>6, SequenceOfSet
<1>8. \A e \in live : e.source \in Sources /\ heads'[e.source] = InUse(e)
  <2> TAKE e \in live
  <2>1. \A f \in live : f.source = e.source => f = e
    BY <1>2, <1>4
  <2>2. (CHOOSE f \in live : f.source = e.source) = e
    BY <2>1
  <2>3. e.source \in Sources
    BY <1>2, <1>4
  <2>4. heads'[e.source] = InUse(CHOOSE f \in live : f.source = e.source)
    BY <1>1, <2>3
  <2> QED
    BY <2>2, <2>3, <2>4
<1>9. \A s \in Sources : heads[s].approved /\ (\A e \in live : e.source # s) => heads'[s] = heads[s]
  <2> TAKE s \in Sources
  <2>1. heads[s].approved => ~\E e \in created : e.source = s
    BY <1>4
  <2> QED
    BY <1>1, <2>1
<1>10. Publishes(live)
  <2>1. PICK n, row : n = Cardinality(live) /\ row = SetToSeq(live)
    OBVIOUS
  <2>2. /\ n \in Nat /\ row \in [1..n -> live] /\ publications' = publications \o row
        /\ \A e \in live : \E i \in 1..n : row[i] = e
    BY <1>1, <1>7, <2>1
  <2>3. \A e, f \in live : e.source = f.source => e = f
    BY <1>2, <1>4
  <2> QED
    BY <1>8, <1>9, <2>2, <2>3, PublishesRows
<1>11. EditionsTyped'
  <2>1. \A e \in revisions' : e.source \in Sources
    BY <1>1, <1>2, <1>5 DEF EditionsTyped
  <2>2. \E H : heads' \in [Sources -> H]
    <3>1. heads' \in [Sources -> {heads'[s] : s \in Sources}]
      BY <1>1
    <3> QED
      BY <3>1
  <2>3. \A s \in Sources : \A x \in heads'[s].edition : x.source = s
    <3> TAKE s \in Sources
    <3>1. CASE \E e \in live : e.source = s
      <4>1. PICK e \in live : e.source = s
        BY <3>1
      <4>2. heads'[s] = InUse(e)
        BY <1>8, <4>1
      <4>3. heads'[s].edition = {e}
        BY <4>2 DEF InUse
      <4> QED
        BY <4>1, <4>3
    <3>2. CASE ~\E e \in live : e.source = s
      <4>1. heads'[s] = IF \E e \in created : e.source = s
                THEN [edition |-> {e \in created : e.source = s}, approved |-> FALSE]
                ELSE heads[s]
        BY <1>1, <3>2
      <4> QED
        BY <4>1 DEF EditionsTyped
    <3> QED
      BY <3>1, <3>2
  <2>4. publications' \in Seq(revisions')
    <3>1. publications \in Seq(revisions') /\ SetToSeq(live) \in Seq(revisions')
      <4>1. revisions \subseteq revisions' /\ live \subseteq revisions'
        BY <1>1, <1>4
      <4>2. publications \in [1..Len(publications) -> revisions'] /\ Len(publications) \in Nat
        BY <4>1 DEF EditionsTyped
      <4>3. SetToSeq(live) \in [1..Cardinality(live) -> revisions']
        BY <1>7, <4>1
      <4> QED
        BY <1>7, <4>2, <4>3, SeqDef
    <3> QED
      BY <1>1, <3>1, ConcatProperties
  <2> QED
    BY <2>1, <2>2, <2>3, <2>4 DEF EditionsTyped
<1> QED
  BY <1>10, <1>11

\* At the start nothing is published, and heads are of their sources.
LEMMA EditionsStart == KnowledgeInit => EditionsTyped /\ \A s \in Sources : HeadHolds(s)
<1> SUFFICES ASSUME KnowledgeInit PROVE EditionsTyped /\ \A s \in Sources : HeadHolds(s)
  OBVIOUS
<1>1. PICK legacy \in {{}, LegacyHeads} :
        heads = [s \in Sources |-> IF \E e \in legacy : e.source = s
                                   THEN InUse(CHOOSE e \in legacy : e.source = s) ELSE Absent]
  BY DEF KnowledgeInit
<1>2. heads \in [Sources -> {heads[s] : s \in Sources}]
  BY <1>1
<1>3. \A s \in Sources : \A e \in heads[s].edition : e.source = s
  <2> TAKE s \in Sources
  <2>1. CASE \E e \in legacy : e.source = s
    <3>1. (CHOOSE e \in legacy : e.source = s).source = s
      BY <2>1
    <3> QED
      BY <1>1, <2>1, <3>1 DEF InUse
  <2> QED
    BY <1>1, <2>1 DEF Absent
<1>4. publications = <<>> /\ revisions = {} /\ Len(publications) = 0
  BY DEF KnowledgeInit
<1> QED
  <2>1. publications \in Seq(revisions) /\ \A s \in Sources : HeadHolds(s)
    BY <1>4 DEF HeadHolds
  <2> QED
    BY <1>2, <1>3, <1>4, <2>1 DEF EditionsTyped

\* An edition in use is the last one reviewed of its source.
LEMMA CurrentIsLatest ==
  ASSUME EditionsTyped, \A s \in Sources : HeadHolds(s), NEW e \in CurrentSources
  PROVE  Usable(e, DayNow) /\ LatestOf(e.source, Len(publications)) = {e}
<1>1. /\ e \in revisions /\ heads[e.source] = InUse(e)
      /\ Usable(e, DayNow) /\ Published(e)
  BY DEF CurrentSources
<1>2. \E i \in 1..Len(publications) : publications[i] = e
  BY <1>1 DEF Published, Contains, EditionsTyped
<1>3. e.source \in Sources
  BY <1>1 DEF EditionsTyped
<1>4. PICK f : heads[e.source] = InUse(f) /\ LatestOf(e.source, Len(publications)) = {f}
  BY <1>2, <1>3 DEF HeadHolds
<1>5. f = e
  BY <1>1, <1>4 DEF InUse
<1> QED
  BY <1>1, <1>4, <1>5

\* What is read for a topic is in force.
LEMMA ReadNow ==
  ASSUME EditionsTyped, \A s \in Sources : HeadHolds(s), NEW topic
  PROVE  InForceThen(ApprovedSources(topic), DayNow, Len(publications))
<1>1. Len(publications) \in 0..Len(publications)
  BY DEF EditionsTyped
<1> QED
  BY <1>1, CurrentIsLatest DEF InForceThen, ApprovedSources

\* local_answer carries what is in force at that moment (tax_chat_service.local_answer).
LEMMA LocalAnswerHolds ==
  ASSUME EditionsTyped, \A s \in Sources : HeadHolds(s), NEW topic
  PROVE  /\ LocalAnswer(topic).step = "answered" /\ IsAnswer(LocalAnswer(topic))
<1> DEFINE x == LocalAnswer(topic)
<1>1. /\ x.step = "answered" /\ x.topic = topic /\ x.cards = ApprovedSources(topic)
      /\ x.day = DayNow /\ x.after = Len(publications)
      /\ x = [step |-> x.step, topic |-> x.topic, cards |-> x.cards, review |-> x.review,
              day |-> x.day, after |-> x.after]
      /\ x.review = (\/ topic \in ReviewTopics
                     \/ topic # "general" /\ ~(/\ ApprovedSources(topic) # {}
                                                /\ RequiredSources[topic] \subseteq {e.source : e \in ApprovedSources(topic)}))
  BY DEF LocalAnswer
<1> HIDE DEF x
<1>2. InForceThen(x.cards, x.day, x.after)
  BY <1>1, ReadNow
<1>3. Supported(x)
  BY <1>1 DEF Supported
<1>4. OnTopic(x.cards, x.topic)
  BY <1>1 DEF OnTopic, ApprovedSources
<1> QED
  BY <1>1, <1>2, <1>3, <1>4 DEF IsAnswer, Answered, x

\* What a step does not touch of the questions stands, whatever it publishes.
LEMMA QuestionStands ==
  ASSUME QuestionsHold, NEW live, Publishes(live), NEW a \in Askers, asking'[a] = asking[a]
  PROVE  AskingHolds(a)'
<1>1. /\ \A x : IsAnswer(x) => IsAnswer(x)'
      /\ InForceThen(asking[a].read, asking[a].day, asking[a].after)
           => InForceThen(asking[a].read, asking[a].day, asking[a].after)'
  BY AnswerStands, ReadingStands
<1>2. AskingHolds(a)
  BY DEF QuestionsHold
<1> QED
  BY <1>1, <1>2 DEF AskingHolds

\* Kept answers stand.
LEMMA MessagesStand ==
  ASSUME QuestionsHold, NEW live, Publishes(live), NEW m \in messages
  PROVE  Answered(m)'
  BY AnswerStands DEF QuestionsHold

\* One window goes on to another step of its question; the others stand.
LEMMA OneWindowStep ==
  ASSUME QuestionsHold, NEW live, Publishes(live), NEW a \in Askers, NEW x,
         asking' = [asking EXCEPT ![a] = x], asking'[a] = x => AskingHolds(a)',
         \A m \in messages' : m \in messages \/ Answered(m)'
  PROVE  QuestionsHold'
<1>1. PICK H : asking \in [Askers -> H]
  BY DEF QuestionsHold
<1>2. /\ asking' \in [Askers -> H \cup {x}] /\ asking'[a] = x
      /\ \A b \in Askers : b # a => asking'[b] = asking[b]
  BY <1>1
<1>3. \A b \in Askers : AskingHolds(b)'
  BY <1>2, QuestionStands
<1>4. \A m \in messages' : Answered(m)'
  BY MessagesStand
<1> QED
  BY <1>2, <1>3, <1>4 DEF QuestionsHold

\* No window does anything.
LEMMA WindowsStand ==
  ASSUME QuestionsHold, NEW live, Publishes(live), UNCHANGED <<asking, messages>>
  PROVE  QuestionsHold'
<1>1. \A a \in Askers : AskingHolds(a)'
  BY QuestionStands
<1>2. \A m \in messages' : Answered(m)'
  BY MessagesStand
<1> QED
  BY <1>1, <1>2 DEF QuestionsHold

\* Ask: an answer of this moment, or nothing when the counters are full.
LEMMA AskStep ==
  ASSUME KnowledgeInv, NEW a \in Askers, NEW topic, Ask(a, topic)
  PROVE  QuestionsHold'
<1>1. Publishes({})
  BY NothingPublished DEF KnowledgeInv, Ask
<1>2. QuestionsHold /\ messages' = messages
  BY DEF KnowledgeInv, Ask
<1>3. CASE \A k \in RequestKeys(a) : HasRoom(k)
  <2>1. PICK x : x = LocalAnswer(topic)
    OBVIOUS
  <2>2. x.step = "answered" /\ IsAnswer(x)
    BY <2>1, LocalAnswerHolds DEF KnowledgeInv
  <2>3. IsAnswer(x)'
    BY <1>1, <2>2, AnswerStands
  <2>4. asking' = [asking EXCEPT ![a] = x]
    BY <1>3, <2>1 DEF Ask
  <2>5. asking'[a] = x => AskingHolds(a)'
    BY <2>2, <2>3 DEF AskingHolds
  <2> QED
    BY <1>1, <1>2, <2>4, <2>5, OneWindowStep
<1>4. CASE ~\A k \in RequestKeys(a) : HasRoom(k)
  <2>1. asking' = [asking EXCEPT ![a] = Silent]
    BY <1>4 DEF Ask
  <2>2. asking'[a] = Silent => AskingHolds(a)'
    BY DEF AskingHolds, Silent
  <2> QED
    BY <1>1, <1>2, <2>1, <2>2, OneWindowStep
<1> QED
  BY <1>3, <1>4

\* CallProvider: the window keeps the local answer and the cards it sends.
LEMMA CallProviderStep ==
  ASSUME KnowledgeInv, NEW a \in Askers, CallProvider(a)
  PROVE  QuestionsHold'
<1>1. Publishes({})
  BY NothingPublished DEF KnowledgeInv, CallProvider
<1>2. QuestionsHold /\ messages' = messages
  BY DEF KnowledgeInv, CallProvider
<1>3. PICK read, day, after, local :
        /\ read = ApprovedSources(asking[a].topic) /\ day = DayNow /\ after = Len(publications)
        /\ local = asking[a]
  OBVIOUS
<1>4. PICK x : x = [step |-> "calling", local |-> local, read |-> read, day |-> day, after |-> after]
  OBVIOUS
<1>5. asking' = [asking EXCEPT ![a] = x]
  BY <1>3, <1>4 DEF CallProvider
<1>6. InForceThen(read, day, after) /\ IsAnswer(local) /\ OnTopic(read, local.topic)
  <2>1. asking[a].step = "answered" /\ AskingHolds(a)
    BY DEF CallProvider, KnowledgeInv, QuestionsHold
  <2> QED
    BY <1>3, <2>1, ReadNow DEF AskingHolds, KnowledgeInv, OnTopic, ApprovedSources
<1>7. InForceThen(read, day, after)' /\ IsAnswer(local)'
  BY <1>1, <1>6, ReadingStands, AnswerStands
<1>8. asking'[a] = x => AskingHolds(a)'
  <2>1. x.step = "calling" /\ x.local = local /\ x.read = read /\ x.day = day /\ x.after = after
    BY <1>4
  <2> QED
    BY <1>6, <1>7, <2>1 DEF AskingHolds
<1> QED
  BY <1>1, <1>2, <1>5, <1>8, OneWindowStep

\* Complete: the cards of the answer are among those that were sent.
LEMMA CompleteStep ==
  ASSUME KnowledgeInv, NEW a \in Askers, NEW cards, NEW review \in BOOLEAN, Complete(a, cards, review)
  PROVE  QuestionsHold'
<1>1. Publishes({})
  BY NothingPublished DEF KnowledgeInv, Complete
<1>2. QuestionsHold /\ messages' = messages /\ \E H : asking \in [Askers -> H]
  BY DEF KnowledgeInv, Complete, QuestionsHold
<1>3. PICK local, read, day, after :
        local = asking[a].local /\ read = asking[a].read /\ day = asking[a].day /\ after = asking[a].after
  OBVIOUS
<1>4. PICK x : x = [step |-> "explained", topic |-> local.topic, cards |-> cards,
                    review |-> local.review \/ review, day |-> day, after |-> after]
  OBVIOUS
<1>5. asking' = [asking EXCEPT ![a] = x]
  BY <1>2, <1>3, <1>4 DEF Complete
<1>6. /\ IsAnswer(local) /\ InForceThen(read, day, after) /\ cards \subseteq read /\ cards # {}
      /\ OnTopic(read, local.topic)
  <2>1. asking[a].step = "calling" /\ AskingHolds(a)
    BY DEF Complete, KnowledgeInv, QuestionsHold
  <2> QED
    BY <1>3, <2>1 DEF AskingHolds, Complete
<1>7. /\ x.step = "explained" /\ x.topic = local.topic /\ x.cards = cards
      /\ x.review = (local.review \/ review) /\ x.day = day /\ x.after = after
      /\ x = [step |-> x.step, topic |-> x.topic, cards |-> x.cards, review |-> x.review,
              day |-> x.day, after |-> x.after]
  BY <1>4
<1>8. IsAnswer(x)
  <2>1. InForceThen(cards, day, after)
    BY <1>6 DEF InForceThen
  <2>2. ~x.review => ~local.review
    BY <1>7
  <2>3. Supported(x)
    BY <1>6, <1>7, <2>2 DEF IsAnswer, Answered, Supported
  <2>4. OnTopic(x.cards, x.topic)
    BY <1>6, <1>7 DEF OnTopic
  <2> QED
    BY <1>7, <2>1, <2>3, <2>4 DEF IsAnswer, Answered
<1>9. IsAnswer(x)'
  BY <1>1, <1>8, AnswerStands
<1>10. asking'[a] = x => AskingHolds(a)'
  BY <1>7, <1>9 DEF AskingHolds
<1> QED
  BY <1>1, <1>2, <1>5, <1>10, OneWindowStep

\* Unavailable: the local answer, with a word of explanation.
LEMMA UnavailableStep ==
  ASSUME KnowledgeInv, NEW a \in Askers, Unavailable(a)
  PROVE  QuestionsHold'
<1>1. Publishes({})
  BY NothingPublished DEF KnowledgeInv, Unavailable
<1>2. QuestionsHold /\ messages' = messages /\ \E H : asking \in [Askers -> H]
  BY DEF KnowledgeInv, Unavailable, QuestionsHold
<1>3. PICK local : local = asking[a].local
  OBVIOUS
<1>4. PICK x : x = [local EXCEPT !.step = "explained"]
  OBVIOUS
<1>5. asking' = [asking EXCEPT ![a] = x]
  BY <1>2, <1>3, <1>4 DEF Unavailable
<1>6. IsAnswer(local)
  BY <1>3 DEF AskingHolds, Unavailable, KnowledgeInv, QuestionsHold
<1>7. /\ x = [step |-> "explained", topic |-> local.topic, cards |-> local.cards,
              review |-> local.review, day |-> local.day, after |-> local.after]
  BY <1>4, <1>6 DEF IsAnswer
<1>8. IsAnswer(x) /\ x.step = "explained"
  BY <1>6, <1>7 DEF IsAnswer, Answered, Supported
<1>9. IsAnswer(x)'
  BY <1>1, <1>8, AnswerStands
<1>10. asking'[a] = x => AskingHolds(a)'
  BY <1>8, <1>9 DEF AskingHolds
<1> QED
  BY <1>1, <1>2, <1>5, <1>10, OneWindowStep

\* Reply keeps the answer of the window as a message.
LEMMA ReplyStep ==
  ASSUME KnowledgeInv, NEW a \in Askers, Reply(a)
  PROVE  QuestionsHold'
<1>1. Publishes({})
  BY NothingPublished DEF KnowledgeInv, Reply
<1>2. QuestionsHold /\ asking' = [asking EXCEPT ![a] = Silent]
  BY DEF KnowledgeInv, Reply
<1>3. PICK x, m : x = asking[a] /\ m = [number |-> Cardinality(messages) + 1, user |-> a.user,
         organization |-> a.organization, topic |-> x.topic, cards |-> x.cards, review |-> x.review,
         day |-> x.day, after |-> x.after]
  OBVIOUS
<1>4. messages' = messages \cup {m}
  BY <1>3 DEF Reply
<1>5. IsAnswer(x)
  BY <1>3 DEF AskingHolds, Reply, KnowledgeInv, QuestionsHold
<1>6. m.topic = x.topic /\ m.cards = x.cards /\ m.review = x.review /\ m.day = x.day /\ m.after = x.after
  BY <1>3
<1>7. Answered(m)
  BY <1>5, <1>6 DEF IsAnswer, Answered, Supported
<1>8. \A z \in messages' : z \in messages \/ Answered(z)'
  BY <1>1, <1>4, <1>7, AnswerStands
<1>9. asking'[a] = Silent => AskingHolds(a)'
  BY DEF AskingHolds, Silent
<1> QED
  BY <1>1, <1>2, <1>8, <1>9, OneWindowStep

\* Every step keeps the editions, the heads and the questions.
LEMMA KnowledgeStep == KnowledgeInv /\ [KnowledgeNext]_knowledgeVars => KnowledgeInv'
<1> SUFFICES ASSUME KnowledgeInv, [KnowledgeNext]_knowledgeVars PROVE KnowledgeInv'
  OBVIOUS
<1>1. EditionsTyped /\ QuestionsHold /\ \A s \in Sources : HeadHolds(s)
  BY DEF KnowledgeInv
<1>2. ASSUME NEW live, Publishes(live), EditionsTyped', QuestionsHold' PROVE KnowledgeInv'
  BY <1>1, <1>2, PublishesKeepsHeads DEF KnowledgeInv
<1>3. ASSUME UNCHANGED <<heads, revisions, publications>>, QuestionsHold' PROVE KnowledgeInv'
  <2>1. EditionsTyped' /\ Publishes({})
    BY <1>1, <1>3, EditionsUntouched
  <2> QED
    BY <1>2, <1>3, <2>1
<1>4. CASE UNCHANGED <<heads, revisions, publications, asking, messages>>
  <2>1. Publishes({})
    BY <1>1, <1>4, EditionsUntouched
  <2> QED
    BY <1>1, <1>3, <1>4, <2>1, WindowsStand
<1>5. ASSUME NEW catalog \in Catalogs, NEW reviewed \in BOOLEAN, PublishCatalog(catalog, reviewed)
      PROVE  KnowledgeInv'
  <2>1. UNCHANGED <<asking, messages>>
    BY <1>5 DEF PublishCatalog
  <2>2. EditionsTyped' /\ \E live : Publishes(live)
    BY <1>1, <1>5, CatalogStep
  <2> QED
    BY <1>1, <1>2, <2>1, <2>2, WindowsStand
<1>6. ASSUME NEW e, ActivateRevision(e) PROVE KnowledgeInv'
  <2>1. UNCHANGED <<asking, messages>>
    BY <1>6 DEF ActivateRevision
  <2>2. EditionsTyped' /\ Publishes({e})
    BY <1>1, <1>6, ActivateStep
  <2> QED
    BY <1>1, <1>2, <2>1, <2>2, WindowsStand
<1>7. ASSUME NEW a \in Askers, NEW topic, Ask(a, topic) PROVE KnowledgeInv'
  BY <1>3, <1>7, AskStep DEF Ask
<1>8. ASSUME NEW a \in Askers, CallProvider(a) PROVE KnowledgeInv'
  BY <1>3, <1>8, CallProviderStep DEF CallProvider
<1>9. ASSUME NEW a \in Askers, NEW cards, NEW review \in BOOLEAN, Complete(a, cards, review)
      PROVE  KnowledgeInv'
  BY <1>3, <1>9, CompleteStep DEF Complete
<1>10. ASSUME NEW a \in Askers, Unavailable(a) PROVE KnowledgeInv'
  BY <1>3, <1>10, UnavailableStep DEF Unavailable
<1>11. ASSUME NEW a \in Askers, Reply(a) PROVE KnowledgeInv'
  BY <1>3, <1>11, ReplyStep DEF Reply
<1>12. CASE Tick
  BY <1>4, <1>12 DEF Tick
<1>13. CASE UNCHANGED knowledgeVars
  BY <1>4, <1>13 DEF knowledgeVars
<1>14. CASE TaxSourcesCommand
  BY <1>5, <1>6, <1>14 DEF TaxSourcesCommand
<1> QED
  BY <1>5, <1>7, <1>8, <1>9, <1>10, <1>11, <1>12, <1>13, <1>14 DEF KnowledgeNext

\* So do the books at the start.
LEMMA KnowledgeStart == KnowledgeInit => KnowledgeInv
<1> SUFFICES ASSUME KnowledgeInit PROVE QuestionsHold
  BY EditionsStart DEF KnowledgeInv
<1>1. asking = [a \in Askers |-> Silent] /\ messages = {}
  BY DEF KnowledgeInit
<1>2. asking \in [Askers -> {Silent}]
  BY <1>1
<1>3. \A a \in Askers : AskingHolds(a)
  BY <1>1 DEF AskingHolds, Silent
<1> QED
  BY <1>1, <1>2, <1>3 DEF QuestionsHold

\* What the answers cite follows from it.
LEMMA CitationsFollow == KnowledgeInv => CitationsHold
<1> SUFFICES ASSUME KnowledgeInv, NEW m \in messages
             PROVE  /\ \A e \in m.cards : /\ m.topic \in TopicsOf[e.source]
                                           /\ Usable(e, m.day) /\ LatestOf(e.source, m.after) = {e}
                    /\ (~m.review /\ m.topic # "general") => m.cards # {} /\ m.topic \notin ReviewTopics
                    /\ \A a \in Askers : m \in Conversation(a) =>
                         \A e \in m.cards : ConversationShown(a)[m][e] =>
                           Usable(e, DayNow) /\ LatestOf(e.source, Len(publications)) = {e}
  BY DEF CitationsHold
<1>1. Answered(m)
  BY DEF KnowledgeInv, QuestionsHold
<1>2. ASSUME NEW a \in Askers, m \in Conversation(a), NEW e \in m.cards, ConversationShown(a)[m][e]
      PROVE  Usable(e, DayNow) /\ LatestOf(e.source, Len(publications)) = {e}
  <2>1. ConversationShown(a)[m] = HistoricalCards(m)
    BY <1>2 DEF ConversationShown
  <2>2. HistoricalCards(m)[e] = (e \in CurrentSources)
    BY <1>2 DEF HistoricalCards
  <2>3. e \in CurrentSources
    BY <1>2, <2>1, <2>2
  <2> QED
    BY <2>3, CurrentIsLatest DEF KnowledgeInv
<1> QED
  BY <1>1, <1>2 DEF Answered, InForceThen, OnTopic, Supported

-----------------------------------------------------------------------------
(* The counters of questions. *)

\* The rows of a counter of a kind on some days, and their sum.
CountRows(c, kind, days) ==
  {[key |-> k, amount |-> c[k]] : k \in {k \in DOMAIN c : k[1] = kind /\ k[3] \in days}}

\* d counts what c counts, and each of the keys once more.
Raises(c, keys, d) ==
  /\ c \in [DOMAIN c -> Nat] /\ IsFiniteSet(DOMAIN c) /\ IsFiniteSet(keys)
  /\ d = [k \in DOMAIN c \cup keys |->
           (IF k \in DOMAIN c THEN c[k] ELSE 0) + (IF k \in keys THEN 1 ELSE 0)]

\* Raised counters are counters of a finite set of keys.
LEMMA RaisedTypes ==
  ASSUME NEW c, NEW keys, NEW d, Raises(c, keys, d)
  PROVE  d \in [DOMAIN d -> Nat] /\ IsFiniteSet(DOMAIN d)
<1>1. DOMAIN d = DOMAIN c \cup keys
  BY DEF Raises
<1>2. IsFiniteSet(DOMAIN d)
  BY <1>1, FS_Union DEF Raises
<1>3. \A k \in DOMAIN d : d[k] \in Nat
  BY <1>1 DEF Raises
<1> QED
  BY <1>2, <1>3 DEF Raises

\* The rows of counters are finitely many, with a sum.
LEMMA CountRowsFinite ==
  ASSUME NEW c, c \in [DOMAIN c -> Nat], IsFiniteSet(DOMAIN c), NEW kind, NEW days
  PROVE  /\ IsFiniteSet(CountRows(c, kind, days))
         /\ \A r \in CountRows(c, kind, days) : r.amount \in Nat
         /\ IsFiniteSet(Units(CountRows(c, kind, days))) /\ Total(CountRows(c, kind, days)) \in Nat
<1> DEFINE S == {k \in DOMAIN c : k[1] = kind /\ k[3] \in days}
           g == [k \in S |-> [key |-> k, amount |-> c[k]]]
<1>1. g \in Surjection(S, CountRows(c, kind, days))
  BY DEF Surjection, CountRows
<1>2. IsFiniteSet(S)
  BY FS_Subset
<1>3. IsFiniteSet(CountRows(c, kind, days))
  BY <1>1, <1>2, FS_Surjection
<1>4. \A r \in CountRows(c, kind, days) : r.amount \in Nat
  BY DEF CountRows
<1> QED
  BY <1>3, <1>4, UnitsFinite, TotalType

\* Keys of other kinds or other days leave a sum as it is.
LEMMA OthersLeaveSum ==
  ASSUME NEW c, NEW keys, NEW d, Raises(c, keys, d), NEW kind, NEW days,
         \A k \in keys : ~(k[1] = kind /\ k[3] \in days)
  PROVE  CountRows(d, kind, days) = CountRows(c, kind, days)
<1>1. DOMAIN d = DOMAIN c \cup keys
  BY DEF Raises
<1>2. {k \in DOMAIN d : k[1] = kind /\ k[3] \in days} = {k \in DOMAIN c : k[1] = kind /\ k[3] \in days}
  BY <1>1
<1>3. \A k \in DOMAIN c : k \notin keys => d[k] = c[k]
  BY DEF Raises
<1>4. \A k \in {k \in DOMAIN c : k[1] = kind /\ k[3] \in days} : d[k] = c[k]
  BY <1>3
<1> QED
  BY <1>2, <1>4 DEF CountRows

\* One key among them raises it by one.
LEMMA OneRaisesSum ==
  ASSUME NEW c, NEW keys, NEW d, Raises(c, keys, d), NEW kind, NEW days, NEW key \in keys,
         key[1] = kind, key[3] \in days,
         \A k \in keys : k[1] = kind /\ k[3] \in days => k = key
  PROVE  Total(CountRows(d, kind, days)) = Total(CountRows(c, kind, days)) + 1
<1>1. DOMAIN d = DOMAIN c \cup keys /\ c \in [DOMAIN c -> Nat] /\ IsFiniteSet(DOMAIN c)
  BY DEF Raises
<1> DEFINE rest == {[key |-> k, amount |-> c[k]] :
                      k \in {k \in DOMAIN c : k[1] = kind /\ k[3] \in days} \ {key}}
           was == IF key \in DOMAIN c THEN c[key] ELSE 0
<1>2. was \in Nat /\ d[key] = was + 1
  BY <1>1 DEF Raises
<1>3. \A k \in DOMAIN c : k \notin keys => d[k] = c[k]
  BY DEF Raises
<1>4. CountRows(d, kind, days) = rest \cup {[key |-> key, amount |-> was + 1]}
  <2>1. {k \in DOMAIN d : k[1] = kind /\ k[3] \in days}
          = ({k \in DOMAIN c : k[1] = kind /\ k[3] \in days} \ {key}) \cup {key}
    BY <1>1
  <2>2. \A k \in {k \in DOMAIN c : k[1] = kind /\ k[3] \in days} \ {key} : d[k] = c[k]
    BY <1>3
  <2> HIDE DEF was
  <2> QED
    BY <1>2, <2>1, <2>2 DEF CountRows
<1>5. rest \subseteq CountRows(c, kind, days) /\ (\A r \in rest : r.key # key)
  BY DEF CountRows
<1>6. /\ key \in DOMAIN c => CountRows(c, kind, days) = rest \cup {[key |-> key, amount |-> was]}
      /\ key \notin DOMAIN c => CountRows(c, kind, days) = rest /\ was = 0
  BY DEF CountRows
<1>7. IsFiniteSet(Units(rest)) /\ Total(rest) \in Nat
  <2>1. IsFiniteSet(rest) /\ \A r \in rest : r.amount \in Nat
    BY <1>1, <1>5, CountRowsFinite, FS_Subset
  <2> HIDE DEF rest
  <2> QED
    BY <2>1, UnitsFinite, TotalType
<1> HIDE DEF rest, was
<1>8. \A n \in Nat : Total(rest \cup {[key |-> key, amount |-> n]}) = Total(rest) + n
  <2> TAKE n \in Nat
  <2>1. PICK r : r = [key |-> key, amount |-> n]
    OBVIOUS
  <2>2. r \notin rest /\ r.amount = n
    BY <1>5, <2>1
  <2>3. Total(rest \cup {r}) = Total(rest) + r.amount
    BY <1>7, <2>2, TotalAdd
  <2> QED
    BY <2>1, <2>2, <2>3
<1>9. Total(CountRows(c, kind, days)) = Total(rest) + was
  BY <1>2, <1>6, <1>7, <1>8
<1>10. Total(CountRows(d, kind, days)) = Total(rest) + (was + 1)
  BY <1>2, <1>4, <1>8
<1> QED
  BY <1>2, <1>7, <1>9, <1>10

\* The minutes of a day are those that divide to it.
LEMMA MinutesOfOneDay ==
  ASSUME NEW c \in Nat, NEW m \in Nat \ {0}, NEW day \in Nat
  PROVE  c \div m \in Nat /\ (c \in day * m .. (day + 1) * m - 1 <=> c \div m = day)
<1>1. PICK q, r : q = c \div m /\ r = c % m
  OBVIOUS
<1>2. q \in Nat /\ r \in Nat /\ r < m /\ c = q * m + r
  BY <1>1
<1>3. (day + 1) * m = day * m + m /\ (q + 1) * m = q * m + m /\ day * m \in Nat /\ q * m \in Nat
  BY <1>2
<1>4. day < q => day * m + m <= q * m
  BY <1>2, <1>3, TimesMonotone, day < q => day + 1 <= q
<1>5. q < day => q * m + m <= day * m
  BY <1>2, <1>3, TimesMonotone, q < day => q + 1 <= day
<1>6. c \in day * m .. (day + 1) * m - 1 <=> day * m <= c /\ c < day * m + m
  BY <1>3
<1>7. PICK x, y : x = day * m /\ y = q * m
  OBVIOUS
<1>8. day * m <= c /\ c < day * m + m <=> q = day
  BY <1>2, <1>3, <1>4, <1>5, <1>7
<1> QED
  BY <1>1, <1>2, <1>6, <1>8

\* What a question of one minute adds on a day, by user, by company and by minute.
CountsOK == counts \in [DOMAIN counts -> Nat] /\ IsFiniteSet(DOMAIN counts)
DayHolds(day) ==
  /\ SumOf("day", {day}) = SumOf("company", {day})
  /\ SumOf("day", {day}) = SumOf("minute", day * MinutesOfDay .. (day + 1) * MinutesOfDay - 1)
CountsInv == clock \in Nat /\ CountsOK /\ \A day \in Nat : DayHolds(day)

\* The sums the property compares are the sums of rows.
LEMMA SumsAreOfRows ==
  ASSUME NEW kind, NEW days
  PROVE  SumOf(kind, days) = Total(CountRows(counts, kind, days))
  BY DEF SumOf, CountRows

\* Counted raises the counters of its keys by one.
LEMMA CountedRaises ==
  ASSUME CountsOK, NEW keys, IsFiniteSet(keys), counts' = Counted(keys)
  PROVE  Raises(counts, keys, counts')
  BY DEF CountsOK, Raises, Counted, Count

\* Keys of other kinds leave the days as they are.
LEMMA MonthLeavesDays ==
  ASSUME CountsInv, counts' = Counted({MonthKey})
  PROVE  CountsOK' /\ \A day \in Nat : DayHolds(day)'
<1>1. PICK key : key = MonthKey
  OBVIOUS
<1>2. key[1] = "month"
  BY <1>1 DEF MonthKey
<1>3. Raises(counts, {key}, counts')
  BY <1>1, FS_Singleton, CountedRaises DEF CountsInv
<1>4. \A days : \A kind \in {"day", "company", "minute"} :
        CountRows(counts', kind, days) = CountRows(counts, kind, days)
  BY <1>2, <1>3, OthersLeaveSum
<1>5. \A days : \A kind \in {"day", "company", "minute"} : SumOf(kind, days)' = SumOf(kind, days)
  BY <1>4 DEF SumOf, CountRows
<1>6. CountsOK'
  BY <1>3, RaisedTypes DEF CountsOK
<1> QED
  BY <1>5, <1>6 DEF CountsInv, DayHolds

\* A question raises the sums of its day by one, and no others.
LEMMA QuestionRaisesDay ==
  ASSUME CountsInv, NEW a \in Askers, counts' = Counted(RequestKeys(a))
  PROVE  CountsOK' /\ \A day \in Nat : DayHolds(day)'
<1>1. PICK minute, day, company, keys, current :
        /\ minute = <<"minute", a.user, clock>> /\ day = <<"day", a.user, DayNow>>
        /\ company = <<"company", a.organization, DayNow>> /\ keys = RequestKeys(a) /\ current = DayNow
  OBVIOUS
<1>2. /\ keys = {minute, day, company}
      /\ minute[1] = "minute" /\ day[1] = "day" /\ company[1] = "company"
      /\ minute[3] = clock /\ day[3] = current /\ company[3] = current
  BY <1>1 DEF RequestKeys
<1>3. IsFiniteSet(keys)
  <2>1. IsFiniteSet({minute}) /\ IsFiniteSet({day}) /\ IsFiniteSet({company})
    BY FS_Singleton
  <2>2. IsFiniteSet({minute} \cup {day})
    BY <2>1, FS_Union
  <2>3. IsFiniteSet(({minute} \cup {day}) \cup {company})
    BY <2>1, <2>2, FS_Union
  <2>4. keys = ({minute} \cup {day}) \cup {company}
    BY <1>2
  <2> QED
    BY <2>3, <2>4
<1>4. Raises(counts, keys, counts')
  BY <1>1, <1>3, CountedRaises DEF CountsInv
<1>5. CountsOK'
  BY <1>4, RaisedTypes DEF CountsOK
<1>6. \A kind, days, k : k \in keys /\ k[1] = kind /\ k[3] \in days
                          /\ (\A l \in keys : l[1] = kind => l = k)
        => Total(CountRows(counts', kind, days)) = Total(CountRows(counts, kind, days)) + 1
  BY <1>4, OneRaisesSum
<1>7. \A kind, days : (\A l \in keys : l[1] = kind => l[3] \notin days)
        => CountRows(counts', kind, days) = CountRows(counts, kind, days)
  BY <1>4, OthersLeaveSum
<1>8. /\ \A l \in keys : l[1] = "minute" => l = minute
      /\ \A l \in keys : l[1] = "day" => l = day
      /\ \A l \in keys : l[1] = "company" => l = company
  BY <1>2
<1>9. \A kind, days : SumOf(kind, days)' = Total(CountRows(counts', kind, days))
  BY DEF SumOf, CountRows
<1>10. ASSUME NEW d \in Nat PROVE DayHolds(d)'
  <2>1. PICK minutes : minutes = d * MinutesOfDay .. (d + 1) * MinutesOfDay - 1
    OBVIOUS
  <2>2. clock \in minutes <=> current = d
    BY <1>1, <2>1, MinutesOfOneDay, KnowledgeAssumption DEF CountsInv, DayNow
  <2>3. /\ Total(CountRows(counts, "day", {d})) = Total(CountRows(counts, "company", {d}))
        /\ Total(CountRows(counts, "day", {d})) = Total(CountRows(counts, "minute", minutes))
    BY <2>1, SumsAreOfRows DEF CountsInv, DayHolds
  <2>4. /\ Total(CountRows(counts', "day", {d})) = Total(CountRows(counts', "company", {d}))
        /\ Total(CountRows(counts', "day", {d})) = Total(CountRows(counts', "minute", minutes))
    <3>1. CASE current = d
      <4>1. Total(CountRows(counts', "day", {d})) = Total(CountRows(counts, "day", {d})) + 1
        BY <1>2, <1>6, <1>8, <3>1
      <4>2. Total(CountRows(counts', "company", {d})) = Total(CountRows(counts, "company", {d})) + 1
        BY <1>2, <1>6, <1>8, <3>1
      <4>3. Total(CountRows(counts', "minute", minutes)) = Total(CountRows(counts, "minute", minutes)) + 1
        BY <1>2, <1>6, <1>8, <2>2, <3>1
      <4> QED
        BY <2>3, <4>1, <4>2, <4>3
    <3>2. CASE current # d
      <4>1. /\ CountRows(counts', "day", {d}) = CountRows(counts, "day", {d})
            /\ CountRows(counts', "company", {d}) = CountRows(counts, "company", {d})
            /\ CountRows(counts', "minute", minutes) = CountRows(counts, "minute", minutes)
        BY <1>2, <1>7, <1>8, <2>2, <3>2
      <4> QED
        BY <2>3, <4>1
    <3> QED
      BY <3>1, <3>2
  <2> QED
    BY <1>9, <2>1, <2>4 DEF DayHolds
<1> QED
  BY <1>5, <1>10

\* Every step keeps the counters of every day equal.
LEMMA CountsStep == CountsInv /\ [KnowledgeNext]_knowledgeVars => CountsInv'
<1> SUFFICES ASSUME CountsInv, [KnowledgeNext]_knowledgeVars PROVE CountsInv'
  OBVIOUS
<1>1. ASSUME UNCHANGED counts, clock' \in Nat PROVE CountsInv'
  <2>1. \A kind, days : SumOf(kind, days)' = SumOf(kind, days)
    BY <1>1 DEF SumOf
  <2> QED
    BY <1>1, <2>1 DEF CountsInv, CountsOK, DayHolds
<1>2. clock \in Nat
  BY DEF CountsInv
<1>3. CASE Tick
  <2>1. UNCHANGED counts /\ clock' = clock + 1
    BY <1>3 DEF Tick
  <2> QED
    BY <1>1, <1>2, <2>1
<1>4. ASSUME NEW catalog, NEW reviewed, PublishCatalog(catalog, reviewed) PROVE CountsInv'
  BY <1>1, <1>2, <1>4 DEF PublishCatalog
<1>5. ASSUME NEW e, ActivateRevision(e) PROVE CountsInv'
  BY <1>1, <1>2, <1>5 DEF ActivateRevision
<1>6. CASE TaxSourcesCommand
  BY <1>4, <1>5, <1>6 DEF TaxSourcesCommand
<1>7. ASSUME NEW a \in Askers, NEW topic, Ask(a, topic) PROVE CountsInv'
  <2>1. clock' = clock /\ ReserveRequest(a)
    BY <1>7 DEF Ask
  <2>2. CASE counts' = Counted(RequestKeys(a))
    BY <1>2, <2>1, <2>2, QuestionRaisesDay DEF CountsInv
  <2> QED
    BY <1>1, <1>2, <2>1, <2>2 DEF ReserveRequest
<1>8. ASSUME NEW a \in Askers, CallProvider(a) PROVE CountsInv'
  <2>1. clock' = clock /\ counts' = Counted({MonthKey})
    BY <1>8 DEF CallProvider
  <2> QED
    BY <1>2, <2>1, MonthLeavesDays DEF CountsInv
<1>9. ASSUME NEW a \in Askers, NEW cards, NEW review, Complete(a, cards, review) PROVE CountsInv'
  BY <1>1, <1>2, <1>9 DEF Complete
<1>10. ASSUME NEW a \in Askers, Unavailable(a) PROVE CountsInv'
  BY <1>1, <1>2, <1>10 DEF Unavailable
<1>11. ASSUME NEW a \in Askers, Reply(a) PROVE CountsInv'
  BY <1>1, <1>2, <1>11 DEF Reply
<1>12. CASE UNCHANGED knowledgeVars
  BY <1>1, <1>2, <1>12 DEF knowledgeVars
<1> QED
  BY <1>3, <1>4, <1>6, <1>7, <1>8, <1>9, <1>10, <1>11, <1>12 DEF KnowledgeNext

\* So do the empty counters.
LEMMA CountsStart == KnowledgeInit => CountsInv
<1> SUFFICES ASSUME KnowledgeInit PROVE CountsInv
  OBVIOUS
<1>1. clock = 0 /\ counts = [k \in {} |-> 0]
  BY DEF KnowledgeInit
<1>2. DOMAIN counts = {} /\ counts \in [DOMAIN counts -> Nat] /\ IsFiniteSet(DOMAIN counts)
  BY <1>1, FS_EmptySet
<1>3. \A kind, days : SumOf(kind, days) = Total({})
  BY <1>2 DEF SumOf
<1> QED
  BY <1>1, <1>2, <1>3 DEF CountsInv, CountsOK, DayHolds

\* Whatever is staged, reviewed and published while questions are asked, in any number of
\* windows: an answer cites editions in force, as last reviewed, and a question counts once
\* for its user, its company and its minute (current_sources, chat_api,
\* reserve_chat_request).
THEOREM AnswersAlwaysStandOnReviews == KnowledgeSpec => []AnswersStandOnReviews
<1>1. KnowledgeInit => KnowledgeInv /\ CountsInv
  BY KnowledgeStart, CountsStart
<1>2. (KnowledgeInv /\ CountsInv) /\ [KnowledgeNext]_knowledgeVars => (KnowledgeInv /\ CountsInv)'
  BY KnowledgeStep, CountsStep
<1>3. KnowledgeInv /\ CountsInv => AnswersStandOnReviews
  <2> SUFFICES ASSUME KnowledgeInv, CountsInv PROVE QuestionsCountedOnce
    BY CitationsFollow DEF AnswersStandOnReviews
  <2>1. \A day \in 0 .. DayNow : day \in Nat
    BY MinutesOfOneDay, KnowledgeAssumption DEF CountsInv, DayNow
  <2> QED
    BY <2>1 DEF CountsInv, DayHolds, QuestionsCountedOnce
<1> QED
  BY <1>1, <1>2, <1>3, PTL DEF KnowledgeSpec

-----------------------------------------------------------------------------
(* The years of the archive. *)

\* What is archived was valid, and no source or month is archived twice; the invoices that
\* came along are in the books.
RecapInv ==
  /\ IsFiniteSet(batches)
  /\ \A b \in batches : Valid(b) /\ IsTranscript(b)
  /\ \A a, b \in batches : a.source = b.source => a = b
  /\ \A a, b \in batches : \A m \in a.months, n \in b.months : m.period = n.period => a = b
  /\ \A b \in batches : {BillOf(i) : i \in b.invoice} \subseteq drafts

\* import_bundle keeps it, and so does a supplier entered by hand.
LEMMA RecapStep == RecapInv /\ [RecapNext]_recapVars => RecapInv'
<1> SUFFICES ASSUME RecapInv, [RecapNext]_recapVars PROVE RecapInv'
  OBVIOUS
<1>1. ASSUME NEW b \in Transcripts, ImportBundle(b) PROVE RecapInv'
  <2>1. Valid(b) /\ NotYetTold(b) /\ batches' = batches \cup {b} /\ drafts \subseteq drafts'
    BY <1>1 DEF ImportBundle, DraftSupplierBill
  <2>2. IsTranscript(b)
    BY RecapAssumption
  <2>3. \A a \in batches : a.source # b.source /\ \A m \in a.months, n \in b.months : m.period # n.period
    BY <2>1 DEF NotYetTold
  <2>4. \A i \in b.invoice : BillOf(i) \in drafts'
    <3> SUFFICES ASSUME NEW i \in b.invoice PROVE BillOf(i) \in drafts'
      OBVIOUS
    <3>1. CASE \A bill \in drafts : bill.supplier # i.supplier \/ bill.number # i.number
      BY <1>1, <3>1 DEF ImportBundle, DraftSupplierBill
    <3>2. CASE \E bill \in drafts : bill.supplier = i.supplier /\ bill.number = i.number
      <4>1. SameBillOrNone(i)
        BY <1>1 DEF ImportBundle, DraftSupplierBill
      <4> QED
        BY <2>1, <3>2, <4>1 DEF SameBillOrNone
    <3> QED
      BY <3>1, <3>2
  <2>5. IsFiniteSet(batches')
    <3>1. IsFiniteSet(batches) /\ IsFiniteSet({b})
      BY FS_Singleton DEF RecapInv
    <3>2. IsFiniteSet(batches \cup {b})
      BY <3>1, FS_Union
    <3> QED
      BY <2>1, <3>2
  <2>6. \A a \in batches' : Valid(a) /\ IsTranscript(a)
    BY <2>1, <2>2 DEF RecapInv
  <2>7. \A a, c \in batches' : a.source = c.source => a = c
    BY <2>1, <2>3 DEF RecapInv
  <2>8. \A a, c \in batches' : \A m \in a.months, n \in c.months : m.period = n.period => a = c
    BY <2>1, <2>3 DEF RecapInv
  <2>9. \A a \in batches' : {BillOf(i) : i \in a.invoice} \subseteq drafts'
    BY <2>1, <2>4 DEF RecapInv
  <2> QED
    BY <2>5, <2>6, <2>7, <2>8, <2>9 DEF RecapInv
<1>2. ASSUME NEW name, AddSupplier(name) PROVE RecapInv'
  BY <1>2 DEF AddSupplier, RecapInv
<1>3. CASE UNCHANGED recapVars
  BY <1>3 DEF recapVars, RecapInv
<1> QED
  BY <1>1, <1>2, <1>3 DEF RecapNext

\* So does the empty archive.
LEMMA RecapStart == RecapInit => RecapInv
BY FS_EmptySet DEF RecapInit, RecapInv

\* A page of an archived bundle, in its place.
PageOf(s) == s = [batch |-> s.batch, month |-> s.month] /\ s.batch \in batches /\ s.month \in s.batch.months
Pages == {s \in [batch : batches, month : UNION {b.months : b \in batches}] : s.month \in s.batch.months}

\* Pages are finitely many, and a month, a source with an ID each tell one.
LEMMA PagesApart ==
  ASSUME RecapInv
  PROVE  /\ IsFiniteSet(Pages) /\ \A s \in Pages : PageOf(s)
         /\ \A b \in batches : \A m \in b.months : [batch |-> b, month |-> m] \in Pages
         /\ \A s, x \in Pages : s.month.period = x.month.period => s = x
         /\ \A s, x \in Pages : s.batch.source = x.batch.source /\ s.month.id = x.month.id => s = x
         /\ \A s \in Pages : /\ s.month.period \in Periods
                              /\ Shown(s.month.printed) /\ Shown(s.month.counted)
<1>1. \A s \in Pages : PageOf(s)
  BY DEF Pages, PageOf
<1>2. \A b \in batches : \A m \in b.months : [batch |-> b, month |-> m] \in Pages
  BY DEF Pages
<1>3. IsFiniteSet(Pages)
  <2> DEFINE a == [s \in Pages |-> s.batch]
             c == [s \in Pages |-> s.month]
             f == [b \in batches |-> b.months]
  <2>1. \A s \in Pages : a[s] = s.batch /\ c[s] = s.month /\ s = [batch |-> s.batch, month |-> s.month]
    BY <1>1 DEF PageOf
  <2>2. \A s \in Pages : a[s] \in batches /\ c[s] \in f[a[s]]
    BY <1>1 DEF PageOf
  <2>3. IsFiniteSet(batches) /\ \A b \in batches : IsFiniteSet(f[b])
    BY DEF RecapInv, IsTranscript
  <2> HIDE DEF a, c, f
  <2>4. \A s, t \in Pages : a[s] = a[t] /\ c[s] = c[t] => s = t
    BY <2>1
  <2>5. Listed(Pages, batches, a, f, c)
    BY <2>2, <2>3, <2>4 DEF Listed
  <2> QED
    BY <2>5, ListedFinite
<1>4. ASSUME NEW s \in Pages, NEW x \in Pages, s.batch = x.batch, s.month = x.month PROVE s = x
  BY <1>1, <1>4 DEF PageOf
<1>5. ASSUME NEW s \in Pages, NEW x \in Pages, s.month.period = x.month.period PROVE s = x
  <2>1. PageOf(s) /\ PageOf(x)
    BY <1>1
  <2>2. s.batch = x.batch
    BY <1>5, <2>1 DEF PageOf, RecapInv
  <2>3. s.month = x.month
    BY <1>5, <2>1, <2>2 DEF PageOf, RecapInv, Valid, MonthsValid
  <2> QED
    BY <1>4, <2>2, <2>3
<1>6. ASSUME NEW s \in Pages, NEW x \in Pages, s.batch.source = x.batch.source, s.month.id = x.month.id
      PROVE  s = x
  <2>1. PageOf(s) /\ PageOf(x)
    BY <1>1
  <2>2. s.batch = x.batch
    BY <1>6, <2>1 DEF PageOf, RecapInv
  <2>3. s.month = x.month
    BY <1>6, <2>1, <2>2 DEF PageOf, RecapInv, Valid, MonthsValid, Indexed
  <2> QED
    BY <1>4, <2>2, <2>3
<1>7. \A s \in Pages : /\ s.month.period \in Periods
                        /\ Shown(s.month.printed) /\ Shown(s.month.counted)
  BY <1>1 DEF PageOf, RecapInv, IsTranscript
<1> QED
  BY <1>1, <1>2, <1>3, <1>5, <1>6, <1>7

-----------------------------------------------------------------------------
(* What is summed: the pages of a year, or those whose amount is known. *)

\* An amount that is shown is a number, and one that is not counts as nothing.
LEMMA ShownAmount ==
  ASSUME NEW value, Shown(value)
  PROVE  /\ AmountOf(value) \in Nat /\ (value = {} => AmountOf(value) = 0)
         /\ value # {} => value = {AmountOf(value)} /\ (CHOOSE n \in value : TRUE) = AmountOf(value)
<1>1. CASE value = {}
  BY <1>1 DEF AmountOf
<1>2. CASE \E n \in value : value = {n}
  BY <1>2 DEF AmountOf, Shown
<1> QED
  BY <1>1, <1>2 DEF Shown, AtMostOne

\* Values of a finite index, each under a name of its own.
Observing(I, name, val) ==
  /\ IsFiniteSet(I) /\ \A i \in I : Shown(val[i])
  /\ \A i, j \in I : name[i] = name[j] => i = j

\* _observed_sum adds up the amounts, unknown ones as nothing.
LEMMA ObservedSumIs ==
  ASSUME NEW I, NEW name, NEW val, Observing(I, name, val)
  PROVE  AmountOf(ObservedSum({[name |-> name[i], value |-> val[i]] : i \in I}))
           = Total(Weights(I, [i \in I |-> AmountOf(val[i])]))
<1> DEFINE seen == {[name |-> name[i], value |-> val[i]] : i \in I}
           observed == {r \in seen : r.value # {}}
           table == {[row |-> r.name, amount |-> CHOOSE n \in r.value : TRUE] : r \in observed}
           known == {i \in I : val[i] # {}}
           w == [i \in I |-> AmountOf(val[i])]
           f == [i \in known |-> [row |-> name[i], amount |-> AmountOf(val[i])]]
<1>1. \A i \in I : val[i] # {} => (CHOOSE n \in val[i] : TRUE) = AmountOf(val[i])
  BY ShownAmount DEF Observing
<1>2. \A i \in I : AmountOf(val[i]) \in Nat /\ (val[i] = {} => AmountOf(val[i]) = 0)
  BY ShownAmount DEF Observing
<1>3. known \in SUBSET I /\ IsFiniteSet(I)
  BY DEF Observing
<1>4. IsFiniteSet(known)
  <2> HIDE DEF known
  <2> QED
    BY <1>3, FS_Subset
<1>5. \A i \in known : /\ f[i] = [row |-> name[i], amount |-> AmountOf(val[i])]
                        /\ w[i] = AmountOf(val[i]) /\ w[i] \in Nat
  BY <1>2
<1>6. \A i \in known : f[i] \in table
  <2> TAKE i \in known
  <2>1. [name |-> name[i], value |-> val[i]] \in observed
    OBVIOUS
  <2>2. [row |-> name[i], amount |-> CHOOSE n \in val[i] : TRUE] \in table
    BY <2>1
  <2> QED
    BY <1>1, <1>5, <2>2
<1>7. \A t \in table : \E i \in known : t = f[i]
  <2> TAKE t \in table
  <2>1. PICK i \in known : t = [row |-> name[i], amount |-> CHOOSE n \in val[i] : TRUE]
    OBVIOUS
  <2> QED
    BY <1>1, <1>5, <2>1
<1>8. \A i, j \in known : f[i] = f[j] => i = j
  BY <1>5 DEF Observing
<1>9. Indexes(known, w, table, f)
  <2> HIDE DEF table, f, w, known
  <2>1. \A i \in known : f[i].amount = w[i]
    <3> SUFFICES ASSUME NEW i \in known PROVE f[i].amount = w[i]
      OBVIOUS
    <3>1. f[i] = [row |-> name[i], amount |-> AmountOf(val[i])] /\ w[i] = AmountOf(val[i])
      BY <1>5
    <3>2. f[i].amount = AmountOf(val[i])
      BY <3>1
    <3> QED
      BY <3>1, <3>2
  <2> QED
    BY <1>4, <1>5, <1>6, <1>7, <1>8, <2>1 DEF Indexes, Weighing
<1>10. \A i \in I \ known : w[i] = 0
  BY <1>2
<1>11. Total(table) = Total(Weights(known, w)) /\ Total(Weights(I, w)) = Total(Weights(known, w))
  <2> HIDE DEF table, f, w, known
  <2> QED
    BY <1>3, <1>9, <1>10, TotalOfIndexed, TotalOfSome
<1>12. CASE observed = {}
  <2>1. known = {}
    <3> SUFFICES ASSUME NEW i \in known PROVE FALSE
      OBVIOUS
    <3>1. [name |-> name[i], value |-> val[i]] \in observed
      OBVIOUS
    <3> QED
      BY <1>12, <3>1
  <2>2. Weights(known, w) = {}
    BY <2>1 DEF Weights
  <2>3. Total(Weights(known, w)) = 0
    BY <2>2, TotalEmpty
  <2>4. ObservedSum(seen) = {}
    BY <1>12 DEF ObservedSum
  <2> QED
    BY <1>11, <2>3, <2>4 DEF AmountOf
<1>13. CASE observed # {}
  <2>1. ObservedSum(seen) = {Total(table)}
    BY <1>13 DEF ObservedSum
  <2>2. AmountOf({Total(table)}) = Total(table)
    BY DEF AmountOf
  <2> QED
    BY <1>11, <2>1, <2>2
<1> QED
  BY <1>12, <1>13

-----------------------------------------------------------------------------
(* The figures of a year. *)

PrintedOn == [s \in Pages |-> AmountOf(s.month.printed)]
CountedOn == [s \in Pages |-> AmountOf(s.month.counted)]

\* The pages of a year are of the archive, and an ID of their source names one.
LEMMA SnapshotsArePages ==
  ASSUME RecapInv, NEW y
  PROVE  /\ Snapshots(y) = {s \in Pages : s.month.period.year = y}
         /\ Snapshots(y) \in SUBSET Pages /\ IsFiniteSet(Snapshots(y))
<1>1. Snapshots(y) = {s \in Pages : s.month.period.year = y}
  BY DEF Snapshots, Pages
<1>2. Snapshots(y) \in SUBSET Pages
  BY <1>1
<1> QED
  BY <1>1, <1>2, PagesApart, FS_Subset

\* import_summary adds up what the pages of the year print, and what they count.
LEMMA YearOfPages ==
  ASSUME RecapInv, NEW y
  PROVE  /\ AmountOf(PrintedTotal(y)) = Total(Weights(Snapshots(y), PrintedOn))
         /\ AmountOf(CountedTotal(y)) = Total(Weights(Snapshots(y), CountedOn))
<1> DEFINE I == Snapshots(y)
           name == [s \in Pages |-> <<s.batch.source, s.month.id>>]
           printed == [s \in Pages |-> s.month.printed]
           counted == [s \in Pages |-> s.month.counted]
<1>1. I \in SUBSET Pages /\ IsFiniteSet(I)
  BY SnapshotsArePages
<1>2. PrintedTotal(y) = ObservedSum({[name |-> <<s.batch.source, s.month.id>>, value |-> s.month.printed] : s \in I})
  BY DEF PrintedTotal
<1>3. CountedTotal(y) = ObservedSum({[name |-> <<s.batch.source, s.month.id>>, value |-> s.month.counted] : s \in I})
  BY DEF CountedTotal
<1> HIDE DEF I
<1>4. {[name |-> <<s.batch.source, s.month.id>>, value |-> s.month.printed] : s \in I}
        = {[name |-> name[s], value |-> printed[s]] : s \in I}
  BY <1>1
<1>5. {[name |-> <<s.batch.source, s.month.id>>, value |-> s.month.counted] : s \in I}
        = {[name |-> name[s], value |-> counted[s]] : s \in I}
  BY <1>1
<1>6. /\ \A s \in I : Shown(printed[s]) /\ Shown(counted[s])
      /\ \A s, x \in I : name[s] = name[x] => s = x
  <2>1. \A s \in I : /\ name[s] = <<s.batch.source, s.month.id>>
                     /\ printed[s] = s.month.printed /\ counted[s] = s.month.counted
    BY <1>1
  <2> HIDE DEF name, printed, counted
  <2> QED
    BY <1>1, <2>1, PagesApart
<1>7. Weights(I, [s \in I |-> AmountOf(printed[s])]) = Weights(I, PrintedOn)
  BY <1>1 DEF Weights, PrintedOn
<1>8. Weights(I, [s \in I |-> AmountOf(counted[s])]) = Weights(I, CountedOn)
  BY <1>1 DEF Weights, CountedOn
<1> HIDE DEF name, printed, counted
<1>9. Observing(I, name, printed) /\ Observing(I, name, counted)
  BY <1>1, <1>6 DEF Observing
<1>10. /\ AmountOf(PrintedTotal(y)) = Total(Weights(I, [s \in I |-> AmountOf(printed[s])]))
       /\ AmountOf(CountedTotal(y)) = Total(Weights(I, [s \in I |-> AmountOf(counted[s])]))
  BY <1>2, <1>3, <1>4, <1>5, <1>9, ObservedSumIs
<1> QED
  BY <1>7, <1>8, <1>10 DEF I

\* The amounts of pages are numbers.
LEMMA PagesWeigh ==
  ASSUME RecapInv, NEW I \in SUBSET Pages
  PROVE  /\ IsFiniteSet(I) /\ \A s \in I : PrintedOn[s] \in Nat /\ CountedOn[s] \in Nat
         /\ Weighing(I, PrintedOn) /\ Weighing(I, CountedOn)
<1>1. IsFiniteSet(I)
  BY PagesApart, FS_Subset
<1>2. \A s \in I : AmountOf(s.month.printed) \in Nat /\ AmountOf(s.month.counted) \in Nat
  BY PagesApart, ShownAmount
<1>3. \A s \in I : PrintedOn[s] \in Nat /\ CountedOn[s] \in Nat
  BY <1>2 DEF PrintedOn, CountedOn
<1> QED
  BY <1>1, <1>3 DEF Weighing

\* A year's printed total is what its months' pages print.
LEMMA YearOfMonths ==
  ASSUME RecapInv, NEW y \in RecapYears
  PROVE  AmountOf(PrintedTotal(y)) = SumOfMonths(y)
<1> DEFINE I == Snapshots(y)
           G == 1..LastMonth
           pages(n) == {[page |-> m, amount |-> AmountOf(m.printed)] : m \in Page([year |-> y, month |-> n])}
           g == [s \in I |-> s.month.period.month]
           v == [n \in G |-> Total(pages(n))]
           k == [n \in G |-> [month |-> n, amount |-> v[n]]]
           R == {[month |-> n, amount |-> Total(pages(n))] : n \in G}
<1>1. /\ I = {s \in Pages : s.month.period.year = y} /\ I \in SUBSET Pages
  BY SnapshotsArePages
<1>2. IsFiniteSet(G)
  BY RecapAssumption, FS_Interval
<1>3. \A s \in I : g[s] \in G /\ s.month.period = [year |-> y, month |-> g[s]]
  BY <1>1, PagesApart DEF Periods
<1>4. \A n \in G : v[n] = Total(Weights({s \in I : g[s] = n}, PrintedOn))
  <2> TAKE n \in G
  <2> DEFINE J == {s \in I : g[s] = n}
             T == pages(n)
             f == [s \in J |-> [page |-> s.month, amount |-> AmountOf(s.month.printed)]]
  <2>1. J = {s \in I : s.month.period = [year |-> y, month |-> n]}
    BY <1>3
  <2>2. Page([year |-> y, month |-> n]) = {s.month : s \in J}
    BY <2>1 DEF Page
  <2>3. J \in SUBSET I
    OBVIOUS
  <2>4. T = {[page |-> s.month, amount |-> AmountOf(s.month.printed)] : s \in J}
    <3>1. PICK months : months = Page([year |-> y, month |-> n])
      OBVIOUS
    <3>2. T = {[page |-> m, amount |-> AmountOf(m.printed)] : m \in months}
      BY <3>1
    <3> HIDE DEF T, J
    <3> QED
      BY <2>2, <3>1, <3>2
  <2> HIDE DEF J, T, I
  <2>5. /\ \A s \in J : f[s] \in T /\ f[s] = [page |-> s.month, amount |-> AmountOf(s.month.printed)]
        /\ \A r \in T : \E s \in J : r = f[s]
    BY <2>4
  <2>6. \A s \in J : f[s].amount = PrintedOn[s]
    BY <1>1, <2>3, <2>5 DEF PrintedOn
  <2>7. \A s, x \in J : f[s] = f[x] => s = x
    <3> SUFFICES ASSUME NEW s \in J, NEW x \in J, f[s] = f[x] PROVE s = x
      OBVIOUS
    <3>1. s.month = x.month
      BY <2>5
    <3> QED
      BY <1>1, <2>3, <3>1, PagesApart
  <2>8. J \in SUBSET Pages
    BY <1>1, <2>3
  <2> HIDE DEF f
  <2>9. Indexes(J, PrintedOn, T, f)
    BY <2>5, <2>6, <2>7, <2>8, PagesWeigh DEF Indexes
  <2>10. Total(T) = Total(Weights(J, PrintedOn))
    BY <2>9, TotalOfIndexed
  <2> QED
    BY <2>10 DEF J, T
<1>5. \A n \in G : v[n] = Total(pages(n))
  OBVIOUS
<1> HIDE DEF pages
<1>6. /\ \A n \in G : k[n] \in R /\ k[n].amount = v[n] /\ k[n].month = n
      /\ \A r \in R : \E n \in G : r = k[n]
  BY <1>5
<1> HIDE DEF I, G, g, v, k, R
<1>7. SumsByGroup(I, PrintedOn, G, g, v)
  BY <1>1, <1>2, <1>3, <1>4, PagesWeigh DEF SumsByGroup
<1>8. Total(Weights(G, v)) = Total(Weights(I, PrintedOn)) /\ Weighing(G, v)
  BY <1>7, TotalOfGroups
<1>9. Indexes(G, v, R, k)
  BY <1>6, <1>8 DEF Indexes
<1>10. Total(R) = Total(Weights(G, v))
  BY <1>9, TotalOfIndexed
<1>11. AmountOf(PrintedTotal(y)) = Total(Weights(I, PrintedOn))
  BY YearOfPages DEF I
<1>12. AmountOf(PrintedTotal(y)) = Total(R)
  BY <1>8, <1>10, <1>11
<1> QED
  BY <1>12 DEF SumOfMonths, R, G, pages

-----------------------------------------------------------------------------
(* The cells of a year, by page, by column and by label. *)

CellsTold == {c \in [batch : batches, cell : UNION {b.details : b \in batches}] : c.cell \in c.batch.details}
CellsOfYear(y) == {c \in CellsTold : c.cell.month \in Selected(c.batch, y)}
Quantities == [c \in CellsTold |-> c.cell.quantity]

\* Cells are finitely many numbers, and in its source an ID names one.
LEMMA CellsApart ==
  ASSUME RecapInv
  PROVE  /\ \A c \in CellsTold : c.batch \in batches /\ c.cell \in c.batch.details
         /\ \A b \in batches : \A d \in b.details : [batch |-> b, cell |-> d] \in CellsTold
         /\ \A c, x \in CellsTold : c.batch = x.batch /\ c.cell.id = x.cell.id => c = x
         /\ \A I \in SUBSET CellsTold : Weighing(I, Quantities)
         /\ \A c \in CellsTold : Quantities[c] = c.cell.quantity
<1>1. \A c \in CellsTold : /\ c.batch \in batches /\ c.cell \in c.batch.details
                            /\ c = [batch |-> c.batch, cell |-> c.cell]
  BY DEF CellsTold
<1>2. \A b \in batches : \A d \in b.details : [batch |-> b, cell |-> d] \in CellsTold
  BY DEF CellsTold
<1>3. ASSUME NEW c \in CellsTold, NEW x \in CellsTold, c.batch = x.batch, c.cell.id = x.cell.id
      PROVE  c = x
  <2>1. c.cell = x.cell
    BY <1>1, <1>3 DEF RecapInv, Valid, DetailsValid, Indexed
  <2> QED
    BY <1>1, <1>3, <2>1
<1>4. IsFiniteSet(CellsTold)
  <2> DEFINE a == [c \in CellsTold |-> c.batch]
             e == [c \in CellsTold |-> c.cell]
             f == [b \in batches |-> b.details]
  <2>1. \A c \in CellsTold : a[c] = c.batch /\ e[c] = c.cell
    OBVIOUS
  <2>2. \A c \in CellsTold : a[c] \in batches /\ e[c] \in f[a[c]]
    BY <1>1
  <2>3. IsFiniteSet(batches) /\ \A b \in batches : IsFiniteSet(f[b])
    BY DEF RecapInv, IsTranscript
  <2> HIDE DEF a, e, f
  <2>4. \A c, x \in CellsTold : a[c] = a[x] /\ e[c] = e[x] => c = x
    BY <1>3, <2>1
  <2>5. Listed(CellsTold, batches, a, f, e)
    BY <2>2, <2>3, <2>4 DEF Listed
  <2> QED
    BY <2>5, ListedFinite
<1>5. \A c \in CellsTold : Quantities[c] = c.cell.quantity
  BY DEF Quantities
<1>6. \A c \in CellsTold : Quantities[c] \in Nat
  BY <1>1, <1>5 DEF RecapInv, IsTranscript
<1>7. \A I \in SUBSET CellsTold : Weighing(I, Quantities)
  BY <1>4, <1>6, FS_Subset DEF Weighing
<1> QED
  BY <1>1, <1>2, <1>3, <1>5, <1>7

\* Some cells of a source.
OfSource(J, b, details) ==
  /\ J \in SUBSET CellsTold /\ \A c \in J : c.batch = b
  /\ \A d \in details : \E c \in J : c.cell = d
  /\ \A c \in J : c.cell \in details

\* Their quantity is what they sum to.
LEMMA QuantityIs ==
  ASSUME RecapInv, NEW J, NEW b, NEW details, OfSource(J, b, details)
  PROVE  Quantity(details) = Total(Weights(J, Quantities))
<1> DEFINE R == {[detail |-> d.id, amount |-> d.quantity] : d \in details}
           f == [c \in J |-> [detail |-> c.cell.id, amount |-> c.cell.quantity]]
<1>1. \A c \in J : f[c] = [detail |-> c.cell.id, amount |-> c.cell.quantity] /\ f[c] \in R
  BY DEF OfSource
<1>2. \A r \in R : \E c \in J : r = f[c]
  BY <1>1 DEF OfSource
<1>3. \A c \in J : f[c].detail = c.cell.id /\ f[c].amount = c.cell.quantity
  OBVIOUS
<1> HIDE DEF f, R
<1>4. \A c \in J : f[c].amount = Quantities[c]
  <2> TAKE c \in J
  <2>1. f[c].amount = c.cell.quantity
    BY <1>3
  <2>2. Quantities[c] = c.cell.quantity
    BY CellsApart DEF OfSource
  <2> QED
    BY <2>1, <2>2
<1>5. \A c, x \in J : f[c] = f[x] => c = x
  <2> SUFFICES ASSUME NEW c \in J, NEW x \in J, f[c] = f[x] PROVE c = x
    OBVIOUS
  <2>1. f[c].detail = c.cell.id /\ f[x].detail = x.cell.id
    BY <1>3
  <2>2. c \in CellsTold /\ x \in CellsTold /\ c.batch = x.batch
    BY DEF OfSource
  <2> QED
    BY <2>1, <2>2, CellsApart
<1>6. Weighing(J, Quantities)
  BY CellsApart DEF OfSource
<1>7. Indexes(J, Quantities, R, f)
  BY <1>1, <1>2, <1>4, <1>5, <1>6 DEF Indexes
<1> QED
  BY <1>7, TotalOfIndexed DEF R, Quantity

CountOn == [s \in Pages |-> Quantity({d \in s.batch.details : d.month = s.month.id})]

\* The cells of a year are those on its pages.
LEMMA CellsByPage ==
  ASSUME RecapInv, NEW y
  PROVE  /\ Total(Weights(CellsOfYear(y), Quantities)) = Total(Weights(Snapshots(y), CountOn))
         /\ Weighing(Snapshots(y), CountOn)
<1> DEFINE I == CellsOfYear(y)
           G == Snapshots(y)
           on(c) == CHOOSE s \in G : s.batch = c.batch /\ s.month.id = c.cell.month
           g == [c \in I |-> on(c)]
<1>1. G \in SUBSET Pages /\ IsFiniteSet(G) /\ G = {s \in Pages : s.month.period.year = y}
  BY SnapshotsArePages
<1>2. I \in SUBSET CellsTold
  BY DEF CellsOfYear
<1>3. \A c \in I : on(c) \in G /\ on(c).batch = c.batch /\ on(c).month.id = c.cell.month
  <2> SUFFICES ASSUME NEW c \in I
               PROVE  \E s \in G : s.batch = c.batch /\ s.month.id = c.cell.month
    OBVIOUS
  <2>1. c.batch \in batches /\ c.cell.month \in Selected(c.batch, y)
    BY <1>2, CellsApart DEF CellsOfYear
  <2>2. PICK m \in c.batch.months : m.id = c.cell.month /\ m.period.year = y
    BY <2>1 DEF Selected
  <2>3. [batch |-> c.batch, month |-> m] \in G
    BY <1>1, <2>1, <2>2, PagesApart
  <2> QED
    BY <2>2, <2>3
<1> HIDE DEF on
<1>4. \A c \in I : g[c] \in G /\ g[c].batch = c.batch /\ g[c].month.id = c.cell.month
  BY <1>3
<1> HIDE DEF g
<1>5. \A s \in G : CountOn[s] = Total(Weights({c \in I : g[c] = s}, Quantities))
  <2> TAKE s \in G
  <2> DEFINE J == {c \in I : g[c] = s}
             details == {d \in s.batch.details : d.month = s.month.id}
  <2>1. s \in Pages /\ s.batch \in batches /\ s.month \in s.batch.months /\ s.month.period.year = y
    BY <1>1, PagesApart DEF PageOf
  <2>2. \A c \in J : c.batch = s.batch /\ c.cell \in details
    BY <1>2, <1>4, CellsApart
  <2>3. \A d \in details : \E c \in J : c.cell = d
    <3> TAKE d \in details
    <3> DEFINE c == [batch |-> s.batch, cell |-> d]
    <3>1. c \in CellsTold
      BY <2>1, CellsApart
    <3>2. d.month \in Selected(s.batch, y)
      BY <2>1 DEF Selected
    <3>3. c \in I
      BY <3>1, <3>2 DEF CellsOfYear
    <3>4. g[c] \in Pages /\ g[c].batch = s.batch /\ g[c].month.id = s.month.id
      BY <1>1, <1>4, <3>3
    <3>5. g[c] = s
      BY <2>1, <3>4, PagesApart
    <3> QED
      BY <3>3, <3>5
  <2>4. J \in SUBSET CellsTold
    BY <1>2
  <2> HIDE DEF J, details
  <2>5. OfSource(J, s.batch, details)
    BY <2>2, <2>3, <2>4 DEF OfSource
  <2>6. Quantity(details) = Total(Weights(J, Quantities))
    BY <2>5, QuantityIs
  <2>7. CountOn[s] = Quantity(details)
    BY <2>1 DEF CountOn, details
  <2> QED
    BY <2>6, <2>7 DEF J
<1>6. Weighing(I, Quantities)
  BY <1>2, CellsApart
<1> HIDE DEF I, G
<1>7. SumsByGroup(I, Quantities, G, g, CountOn)
  BY <1>1, <1>4, <1>5, <1>6 DEF SumsByGroup
<1> QED
  BY <1>7, TotalOfGroups DEF I, G

ColumnSums(y) == [x \in Columns(y) |-> Quantity(CellsOf(x, y))]

\* A column is one of its source's, on a page of the year.
LEMMA ColumnsApart ==
  ASSUME RecapInv, NEW y
  PROVE  /\ IsFiniteSet(Columns(y))
         /\ \A x \in Columns(y) : /\ x.batch \in batches /\ x.column \in x.batch.channels
                                    /\ x.column.month \in Selected(x.batch, y)
         /\ \A b \in batches : \A c \in b.channels :
              c.month \in Selected(b, y) => [batch |-> b, column |-> c] \in Columns(y)
         /\ \A x, z \in Columns(y) : x.batch = z.batch /\ x.column.id = z.column.id => x = z
<1>1. \A x \in Columns(y) : /\ x.batch \in batches /\ x.column \in x.batch.channels
                             /\ x.column.month \in Selected(x.batch, y)
                             /\ x = [batch |-> x.batch, column |-> x.column]
  BY DEF Columns
<1>2. \A b \in batches : \A c \in b.channels :
        c.month \in Selected(b, y) => [batch |-> b, column |-> c] \in Columns(y)
  BY DEF Columns
<1>3. ASSUME NEW x \in Columns(y), NEW z \in Columns(y), x.batch = z.batch, x.column.id = z.column.id
      PROVE  x = z
  <2>1. x.column = z.column
    BY <1>1, <1>3 DEF RecapInv, Valid, ChannelsValid, Indexed
  <2> QED
    BY <1>1, <1>3, <2>1
<1>4. IsFiniteSet(Columns(y))
  <2> DEFINE S == Columns(y)
             a == [x \in S |-> x.batch]
             e == [x \in S |-> x.column]
             f == [b \in batches |-> b.channels]
  <2> HIDE DEF S
  <2>1. \A x \in S : a[x] = x.batch /\ e[x] = x.column
    OBVIOUS
  <2>2. \A x \in S : a[x] \in batches /\ e[x] \in f[a[x]]
    BY <1>1 DEF S
  <2>3. IsFiniteSet(batches) /\ \A b \in batches : IsFiniteSet(f[b])
    BY DEF RecapInv, IsTranscript
  <2> HIDE DEF a, e, f
  <2>4. \A x, z \in S : a[x] = a[z] /\ e[x] = e[z] => x = z
    BY <1>3, <2>1 DEF S
  <2>5. Listed(S, batches, a, f, e)
    BY <2>2, <2>3, <2>4 DEF Listed
  <2>6. IsFiniteSet(S)
    BY <2>5, ListedFinite
  <2> QED
    BY <2>6 DEF S
<1> QED
  BY <1>1, <1>2, <1>3, <1>4

\* A column is named by its source and its ID.
LEMMA NamesOfColumns ==
  ASSUME RecapInv, NEW y, NEW x \in Columns(y), NEW z \in Columns(y),
         <<x.batch.source, x.column.id>> = <<z.batch.source, z.column.id>>
  PROVE  x = z
<1>1. x.batch.source = z.batch.source /\ x.column.id = z.column.id
  OBVIOUS
<1>2. x.batch \in batches /\ z.batch \in batches
  BY ColumnsApart
<1>3. x.batch = z.batch
  BY <1>1, <1>2 DEF RecapInv
<1> QED
  BY <1>1, <1>3, ColumnsApart

\* They are also those in its columns: a cell lies in a column of its own page.
LEMMA CellsByColumn ==
  ASSUME RecapInv, NEW y
  PROVE  /\ Total(Weights(CellsOfYear(y), Quantities)) = Total(Weights(Columns(y), ColumnSums(y)))
         /\ Weighing(Columns(y), ColumnSums(y))
<1> DEFINE I == CellsOfYear(y)
           G == Columns(y)
           v == ColumnSums(y)
           under(c) == CHOOSE x \in G : x.batch = c.batch /\ x.column.id = c.cell.channel
           g == [c \in I |-> under(c)]
<1>1. IsFiniteSet(G)
  BY ColumnsApart
<1>2. /\ I \in SUBSET CellsTold
      /\ \A c \in CellsTold : c \in I <=> c.cell.month \in Selected(c.batch, y)
  BY DEF CellsOfYear
<1>3. \A c \in I : under(c) \in G /\ under(c).batch = c.batch /\ under(c).column.id = c.cell.channel
  <2> SUFFICES ASSUME NEW c \in I
               PROVE  \E x \in G : x.batch = c.batch /\ x.column.id = c.cell.channel
    OBVIOUS
  <2>1. c.batch \in batches /\ c.cell \in c.batch.details /\ c.cell.month \in Selected(c.batch, y)
    BY <1>2, CellsApart
  <2>2. PICK h \in c.batch.channels : h.id = c.cell.channel /\ h.month = c.cell.month
    BY <2>1 DEF RecapInv, Valid, DetailsValid
  <2>3. [batch |-> c.batch, column |-> h] \in G
    BY <2>1, <2>2, ColumnsApart
  <2> QED
    BY <2>2, <2>3
<1> HIDE DEF under
<1>4. \A c \in I : g[c] \in G /\ g[c].batch = c.batch /\ g[c].column.id = c.cell.channel
  BY <1>3
<1> HIDE DEF g
<1>5. \A x \in G : v[x] = Total(Weights({c \in I : g[c] = x}, Quantities))
  <2> TAKE x \in G
  <2> DEFINE J == {c \in I : g[c] = x}
             details == CellsOf(x, y)
  <2>1. x.batch \in batches
    BY ColumnsApart
  <2>2. \A d : d \in details <=> /\ d \in x.batch.details /\ d.channel = x.column.id
                                  /\ d.month \in Selected(x.batch, y)
    BY DEF CellsOf
  <2> HIDE DEF details, I
  <2>3. \A c \in J : c.batch = x.batch /\ c.cell \in details
    <3> TAKE c \in J
    <3>1. c \in I /\ g[c] = x
      OBVIOUS
    <3>2. c \in CellsTold /\ c.batch = x.batch /\ x.column.id = c.cell.channel
      BY <1>2, <1>4, <3>1
    <3>3. c.cell \in x.batch.details /\ c.cell.month \in Selected(x.batch, y)
      BY <1>2, <3>1, <3>2, CellsApart
    <3> QED
      BY <2>2, <3>2, <3>3
  <2>4. \A d \in details : \E c \in J : c.cell = d
    <3> TAKE d \in details
    <3> DEFINE c == [batch |-> x.batch, cell |-> d]
    <3>1. c \in CellsTold
      BY <2>1, <2>2, CellsApart
    <3>2. c \in I
      BY <1>2, <2>2, <3>1
    <3>3. g[c] \in G /\ g[c].batch = x.batch /\ g[c].column.id = x.column.id
      BY <1>4, <2>2, <3>2
    <3>4. g[c] = x
      BY <3>3, ColumnsApart
    <3> QED
      BY <3>2, <3>4
  <2>5. J \in SUBSET CellsTold
    BY <1>2
  <2> HIDE DEF J
  <2>6. OfSource(J, x.batch, details)
    BY <2>3, <2>4, <2>5 DEF OfSource
  <2>7. Quantity(details) = Total(Weights(J, Quantities))
    BY <2>6, QuantityIs
  <2>8. v[x] = Quantity(details)
    BY DEF ColumnSums, details
  <2> QED
    BY <2>7, <2>8 DEF J
<1>6. Weighing(I, Quantities)
  BY <1>2, CellsApart
<1> HIDE DEF I, G, v
<1>7. SumsByGroup(I, Quantities, G, g, v)
  BY <1>1, <1>4, <1>5, <1>6 DEF SumsByGroup
<1> QED
  BY <1>7, TotalOfGroups DEF I, G, v

ColumnCounts(y) == [x \in Columns(y) |-> AmountOf(ColumnCount(x, y))]

\* A column's count is a number or unknown, and without one of its own that of its cells.
LEMMA CountOfColumn ==
  ASSUME RecapInv, NEW y, NEW x \in Columns(y)
  PROVE  /\ Shown(ColumnCount(x, y)) /\ ColumnCounts(y)[x] = AmountOf(ColumnCount(x, y))
         /\ x.column.own = {} => ColumnCounts(y)[x] = ColumnSums(y)[x]
<1>1. Quantity(CellsOf(x, y)) \in Nat /\ ColumnSums(y)[x] = Quantity(CellsOf(x, y))
  <2>1. ColumnSums(y)[x] = Quantity(CellsOf(x, y))
    BY DEF ColumnSums
  <2> QED
    BY <2>1, CellsByColumn DEF Weighing
<1>2. ColumnCounts(y)[x] = AmountOf(ColumnCount(x, y))
  BY DEF ColumnCounts
<1>3. CASE x.column.own = {}
  <2>1. CASE CellsOf(x, y) = {}
    <3>1. Quantity(CellsOf(x, y)) = 0
      BY <2>1, TotalEmpty DEF Quantity
    <3>2. ColumnCount(x, y) = {}
      BY <1>3, <2>1 DEF ColumnCount
    <3>3. Shown(ColumnCount(x, y)) /\ AmountOf(ColumnCount(x, y)) = 0
      BY <3>2 DEF AmountOf, Shown, AtMostOne
    <3> QED
      BY <1>1, <1>2, <3>1, <3>3
  <2>2. CASE CellsOf(x, y) # {}
    <3>1. PICK n : n = Quantity(CellsOf(x, y))
      OBVIOUS
    <3>2. ColumnCount(x, y) = {n}
      BY <1>3, <2>2, <3>1 DEF ColumnCount
    <3>3. Shown({n}) /\ AmountOf({n}) = n
      BY <1>1, <3>1 DEF AmountOf, Shown, AtMostOne
    <3> QED
      BY <1>1, <1>2, <3>1, <3>2, <3>3
  <2> QED
    BY <2>1, <2>2
<1>4. CASE x.column.own # {}
  <2>1. x.batch \in batches /\ x.column \in x.batch.channels
    BY ColumnsApart
  <2>2. \A count \in x.column.own : Shown(count)
    BY <2>1 DEF RecapInv, IsTranscript
  <2>3. ColumnCount(x, y) = CHOOSE count \in x.column.own : TRUE
    BY <1>4 DEF ColumnCount
  <2>4. ColumnCount(x, y) \in x.column.own
    BY <1>4, <2>3
  <2> QED
    BY <1>2, <1>4, <2>2, <2>4
<1> QED
  BY <1>3, <1>4

\* The counts of columns are numbers, and their table sums to them.
LEMMA ColumnsSum ==
  ASSUME RecapInv, NEW y
  PROVE  /\ Weighing(Columns(y), ColumnCounts(y))
         /\ SumOfColumns(y) = Total(Weights(Columns(y), ColumnCounts(y)))
<1> DEFINE I == Columns(y)
           w == ColumnCounts(y)
           S == {[column |-> <<x.batch.source, x.column.id>>, amount |-> AmountOf(ColumnCount(x, y))] : x \in I}
           f == [x \in I |-> [column |-> <<x.batch.source, x.column.id>>, amount |-> w[x]]]
<1>1. \A x \in I : w[x] = AmountOf(ColumnCount(x, y)) /\ w[x] \in Nat
  BY CountOfColumn, ShownAmount
<1>2. Weighing(I, w)
  BY <1>1, ColumnsApart DEF Weighing
<1>3. SumOfColumns(y) = Total(S)
  BY DEF SumOfColumns
<1> HIDE DEF w, I
<1>4. \A x \in I : f[x] = [column |-> <<x.batch.source, x.column.id>>, amount |-> AmountOf(ColumnCount(x, y))]
  BY <1>1
<1>5. \A x \in I : f[x] \in S
  BY <1>4
<1>6. \A r \in S : \E x \in I : r = f[x]
  BY <1>4
<1>7. \A x \in I : f[x].amount = w[x] /\ f[x].column = <<x.batch.source, x.column.id>>
  OBVIOUS
<1> HIDE DEF f, S
<1>8. \A x, z \in I : f[x] = f[z] => x = z
  <2> SUFFICES ASSUME NEW x \in I, NEW z \in I, f[x] = f[z] PROVE x = z
    OBVIOUS
  <2>1. x.batch.source = z.batch.source /\ x.column.id = z.column.id
    BY <1>7
  <2> QED
    BY <2>1, NamesOfColumns DEF I
<1>9. Indexes(I, w, S, f)
  BY <1>2, <1>5, <1>6, <1>7, <1>8 DEF Indexes
<1>10. Total(S) = Total(Weights(I, w))
  BY <1>9, TotalOfIndexed
<1> QED
  BY <1>2, <1>3, <1>10 DEF I, w

\* The partners of a year together have what its columns count.
LEMMA PartnersOfColumns ==
  ASSUME RecapInv, NEW y
  PROVE  SumOfPartners(y) = Total(Weights(Columns(y), ColumnCounts(y)))
<1> DEFINE I == Columns(y)
           w == ColumnCounts(y)
           G == Labels(y)
           g == [x \in I |-> x.column.label]
           v == [l \in G |-> AmountOf(PartnerCount(l, y))]
           R == {[label |-> l, amount |-> AmountOf(PartnerCount(l, y))] : l \in G}
           k == [l \in G |-> [label |-> l, amount |-> v[l]]]
<1>1. IsFiniteSet(I) /\ Weighing(I, w)
  BY ColumnsApart, ColumnsSum
<1>2. g \in Surjection(I, G)
  BY DEF Surjection, Labels
<1>3. \A l \in G : v[l] = AmountOf(PartnerCount(l, y))
  OBVIOUS
<1>4. \A l \in G : v[l] = Total(Weights({x \in I : g[x] = l}, w))
  <2> TAKE l \in G
  <2> DEFINE J == {x \in I : g[x] = l}
             name == [x \in I |-> <<x.batch.source, x.column.id>>]
             val == [x \in I |-> ColumnCount(x, y)]
             told == [x \in J |-> AmountOf(val[x])]
  <2>1. J = {x \in I : x.column.label = l} /\ J \in SUBSET I
    OBVIOUS
  <2>2. PartnerCount(l, y) = ObservedSum({[name |-> <<x.batch.source, x.column.id>>, value |-> ColumnCount(x, y)] : x \in J})
    BY <2>1 DEF PartnerCount
  <2> HIDE DEF J
  <2>3. {[name |-> <<x.batch.source, x.column.id>>, value |-> ColumnCount(x, y)] : x \in J}
          = {[name |-> name[x], value |-> val[x]] : x \in J}
    BY <2>1
  <2>4. \A x \in I : val[x] = ColumnCount(x, y) /\ name[x] = <<x.batch.source, x.column.id>>
    OBVIOUS
  <2>5. \A x \in I : Shown(val[x]) /\ w[x] = AmountOf(val[x])
    BY <2>4, CountOfColumn
  <2> HIDE DEF name, val
  <2>6. \A x, z \in J : name[x] = name[z] => x = z
    BY <2>1, <2>4, NamesOfColumns
  <2>7. IsFiniteSet(J)
    BY <1>1, <2>1, FS_Subset
  <2>8. Observing(J, name, val)
    BY <2>1, <2>5, <2>6, <2>7 DEF Observing
  <2>9. AmountOf(PartnerCount(l, y)) = Total(Weights(J, told))
    BY <2>2, <2>3, <2>8, ObservedSumIs
  <2>10. \A x \in J : told[x] = w[x]
    BY <2>1, <2>5
  <2> HIDE DEF told
  <2>11. Weights(J, told) = Weights(J, w)
    BY <2>10 DEF Weights
  <2> QED
    BY <1>3, <2>9, <2>11 DEF J
<1>5. \A l \in G : k[l] \in R /\ k[l] = [label |-> l, amount |-> AmountOf(PartnerCount(l, y))]
  BY <1>3
<1>6. \A r \in R : \E l \in G : r = k[l]
  BY <1>3
<1>7. \A l \in G : k[l].amount = v[l] /\ k[l].label = l
  OBVIOUS
<1>8. \A x \in I : g[x] \in G
  BY DEF Labels
<1>9. SumOfPartners(y) = Total(R)
  BY DEF SumOfPartners
<1> HIDE DEF I, w, G, g, v, R, k
<1>10. IsFiniteSet(G)
  BY <1>1, <1>2, FS_Surjection
<1>11. SumsByGroup(I, w, G, g, v)
  BY <1>1, <1>4, <1>8, <1>10 DEF SumsByGroup
<1>12. Total(Weights(G, v)) = Total(Weights(I, w)) /\ Weighing(G, v)
  BY <1>11, TotalOfGroups
<1>13. Indexes(G, v, R, k)
  BY <1>5, <1>6, <1>7, <1>12 DEF Indexes
<1>14. Total(R) = Total(Weights(G, v))
  BY <1>13, TotalOfIndexed
<1> QED
  BY <1>9, <1>12, <1>14 DEF I, w

\* Where no column brings a count of its own, that is the cells of the year.
LEMMA PartnersOfCells ==
  ASSUME RecapInv, NEW y, CellsTell(y)
  PROVE  SumOfPartners(y) = Total(Weights(CellsOfYear(y), Quantities))
<1>1. \A x \in Columns(y) : ColumnCounts(y)[x] = ColumnSums(y)[x]
  BY CountOfColumn DEF CellsTell
<1>2. Weights(Columns(y), ColumnCounts(y)) = Weights(Columns(y), ColumnSums(y))
  BY <1>1 DEF Weights
<1> QED
  BY <1>2, PartnersOfColumns, CellsByColumn

\* So do its pages.
LEMMA PartnersOfPages ==
  ASSUME RecapInv, NEW y, CellsTell(y)
  PROVE  SumOfPartners(y) = SumOfPages(y)
<1> DEFINE P == Snapshots(y)
           T == {[page |-> <<s.batch.source, s.month.id>>,
                  amount |-> Quantity({d \in s.batch.details : d.month = s.month.id})] : s \in P}
           h == [s \in P |-> [page |-> <<s.batch.source, s.month.id>>, amount |-> CountOn[s]]]
<1>1. P \in SUBSET Pages
  BY SnapshotsArePages
<1>2. \A s \in P : CountOn[s] = Quantity({d \in s.batch.details : d.month = s.month.id})
  BY <1>1 DEF CountOn
<1>3. Weighing(P, CountOn)
  BY CellsByPage
<1> HIDE DEF P
<1>4. \A s \in P : h[s].amount = CountOn[s] /\ h[s].page = <<s.batch.source, s.month.id>>
  OBVIOUS
<1>5. \A s \in P : h[s] = [page |-> <<s.batch.source, s.month.id>>,
                           amount |-> Quantity({d \in s.batch.details : d.month = s.month.id})]
  BY <1>2
<1>6. \A s \in P : h[s] \in T
  BY <1>5
<1>7. \A r \in T : \E s \in P : r = h[s]
  BY <1>5
<1> HIDE DEF h, T
<1>8. \A s, x \in P : h[s] = h[x] => s = x
  <2> SUFFICES ASSUME NEW s \in P, NEW x \in P, h[s] = h[x] PROVE s = x
    OBVIOUS
  <2>1. s.batch.source = x.batch.source /\ s.month.id = x.month.id
    BY <1>4
  <2> QED
    BY <1>1, <2>1, PagesApart
<1>9. Indexes(P, CountOn, T, h)
  BY <1>3, <1>4, <1>6, <1>7, <1>8 DEF Indexes
<1>10. Total(T) = Total(Weights(P, CountOn))
  BY <1>9, TotalOfIndexed
<1>11. Total(Weights(P, CountOn)) = Total(Weights(CellsOfYear(y), Quantities))
  BY CellsByPage DEF P
<1>12. SumOfPartners(y) = Total(T)
  BY <1>10, <1>11, PartnersOfCells
<1> QED
  BY <1>12 DEF SumOfPages, T, P

\* Where every page of the year counts its cells, the counts are the partners'.
LEMMA CountsOfPages ==
  ASSUME RecapInv, NEW y, \A s \in Snapshots(y) : s.month.counted # {}
  PROVE  AmountOf(CountedTotal(y)) = Total(Weights(Snapshots(y), CountOn))
<1> DEFINE I == Snapshots(y)
<1>1. I \in SUBSET Pages
  BY SnapshotsArePages
<1>2. \A s \in I : CountedOn[s] = CountOn[s]
  <2> TAKE s \in I
  <2>1. s \in Pages /\ s.batch \in batches /\ s.month \in s.batch.months
    BY <1>1, PagesApart DEF PageOf
  <2>2. s.month.counted \subseteq {CountOn[s]}
    BY <2>1 DEF RecapInv, Valid, CountsAgree, CountOn
  <2>3. s.month.counted = {AmountOf(s.month.counted)}
    BY <2>1, PagesApart, ShownAmount
  <2>4. AmountOf(s.month.counted) = CountOn[s]
    BY <2>2, <2>3
  <2> QED
    BY <2>1, <2>4 DEF CountedOn
<1>3. Weights(I, CountedOn) = Weights(I, CountOn)
  BY <1>2 DEF Weights
<1> QED
  BY <1>3, YearOfPages

\* All years add up to what was archived.
LEMMA YearsOfPages ==
  ASSUME RecapInv
  PROVE  Total({[year |-> y, amount |-> AmountOf(PrintedTotal(y))] : y \in RecapYears})
           = Total({[month |-> m, amount |-> AmountOf(m.month.printed)] : m \in ArchivedMonths})
<1> DEFINE I == Pages
           w == PrintedOn
           G == RecapYears
           g == [s \in I |-> s.month.period.year]
           v == [y \in G |-> AmountOf(PrintedTotal(y))]
           R == {[year |-> y, amount |-> AmountOf(PrintedTotal(y))] : y \in G}
           k == [y \in G |-> [year |-> y, amount |-> v[y]]]
           T == {[month |-> m, amount |-> AmountOf(m.month.printed)] : m \in ArchivedMonths}
           h == [s \in I |-> [month |-> [batch |-> s.batch.source, month |-> s.month], amount |-> w[s]]]
<1>1. Weighing(I, w) /\ IsFiniteSet(G)
  BY PagesWeigh, RecapAssumption
<1>2. \A s \in I : g[s] \in G
  BY PagesApart DEF Periods
<1>3. \A y \in G : v[y] = Total(Weights({s \in I : g[s] = y}, w))
  <2> TAKE y \in G
  <2>1. Snapshots(y) = {s \in I : g[s] = y}
    BY SnapshotsArePages
  <2>2. AmountOf(PrintedTotal(y)) = Total(Weights(Snapshots(y), w))
    BY YearOfPages
  <2> QED
    BY <2>1, <2>2
<1>4. \A y \in G : v[y] = AmountOf(PrintedTotal(y))
  OBVIOUS
<1>5. /\ \A y \in G : k[y] \in R /\ k[y].amount = v[y] /\ k[y].year = y
      /\ \A r \in R : \E y \in G : r = k[y]
  BY <1>4
<1>6. \A s \in I : w[s] = AmountOf(s.month.printed)
  BY DEF PrintedOn
<1>7. \A m : m \in ArchivedMonths <=> \E s \in I : m = [batch |-> s.batch.source, month |-> s.month]
  <2>1. ASSUME NEW m \in ArchivedMonths
        PROVE  \E s \in I : m = [batch |-> s.batch.source, month |-> s.month]
    <3>1. PICK b \in batches : m \in {[batch |-> b.source, month |-> n] : n \in b.months}
      BY DEF ArchivedMonths
    <3>2. PICK n \in b.months : m = [batch |-> b.source, month |-> n]
      BY <3>1
    <3>3. [batch |-> b, month |-> n] \in I
      BY PagesApart
    <3> QED
      BY <3>2, <3>3
  <2>2. ASSUME NEW s \in I PROVE [batch |-> s.batch.source, month |-> s.month] \in ArchivedMonths
    <3>1. s.batch \in batches /\ s.month \in s.batch.months
      BY PagesApart DEF PageOf
    <3> QED
      BY <3>1 DEF ArchivedMonths
  <2> QED
    BY <2>1, <2>2
<1>8. \A s \in I : h[s] = [month |-> [batch |-> s.batch.source, month |-> s.month],
                            amount |-> AmountOf(s.month.printed)]
  BY <1>6
<1>9. \A s \in I : h[s].amount = w[s] /\ h[s].month.month = s.month
  OBVIOUS
<1>10. \A s \in I : h[s] \in T
  BY <1>7, <1>8
<1>11. \A r \in T : \E s \in I : r = h[s]
  <2> TAKE r \in T
  <2>1. PICK m \in ArchivedMonths : r = [month |-> m, amount |-> AmountOf(m.month.printed)]
    OBVIOUS
  <2>2. PICK s \in I : m = [batch |-> s.batch.source, month |-> s.month]
    BY <1>7
  <2>3. m.month = s.month
    BY <2>2
  <2> QED
    BY <1>8, <2>1, <2>2, <2>3
<1> HIDE DEF w, g, v, R, k, T, h
<1>12. \A s, x \in I : h[s] = h[x] => s = x
  <2> SUFFICES ASSUME NEW s \in I, NEW x \in I, h[s] = h[x] PROVE s = x
    OBVIOUS
  <2>1. s.month = x.month
    BY <1>9
  <2> QED
    BY <2>1, PagesApart
<1> HIDE DEF I, G
<1>13. SumsByGroup(I, w, G, g, v)
  BY <1>1, <1>2, <1>3 DEF SumsByGroup
<1>14. Total(Weights(G, v)) = Total(Weights(I, w)) /\ Weighing(G, v)
  BY <1>13, TotalOfGroups
<1>15. Indexes(G, v, R, k)
  BY <1>5, <1>14 DEF Indexes
<1>16. Indexes(I, w, T, h)
  BY <1>1, <1>9, <1>10, <1>11, <1>12 DEF Indexes
<1>17. Total(R) = Total(Weights(G, v)) /\ Total(T) = Total(Weights(I, w))
  BY <1>15, <1>16, TotalOfIndexed
<1>18. Total(R) = Total(T)
  BY <1>14, <1>17
<1> QED
  BY <1>18 DEF R, T, G

-----------------------------------------------------------------------------
(* What is told once. *)

\* The year of a page has its notes, and no other year has.
LEMMA NotesInOneYear ==
  ASSUME RecapInv, NEW b \in batches, NEW e \in b.exceptions, e.month # {}
  PROVE  Cardinality({y \in RecapYears : <<b.source, e.id>> \in NotesOf(y)}) = 1
<1>1. Valid(b) /\ IsTranscript(b)
  BY DEF RecapInv
<1>2. PICK n \in e.month : e.month = {n}
  BY <1>1 DEF IsTranscript, AtMostOne
<1>3. PICK m \in b.months : m.id = n
  BY <1>1, <1>2 DEF Valid, ExceptionsValid, RowIds
<1>4. \A x \in b.months : x.id = n => x = m
  BY <1>1, <1>3 DEF Valid, MonthsValid, Indexed
<1>5. PICK year \in RecapYears : m.period.year = year
  BY <1>1 DEF IsTranscript, Periods
<1>6. <<b.source, e.id>> \in NotesOf(year)
  <2> DEFINE s == [batch |-> b, month |-> m]
  <2>1. s \in Snapshots(year) /\ s.batch = b
    BY <1>5, PagesApart, SnapshotsArePages
  <2>2. e.month \subseteq Selected(b, year)
    BY <1>2, <1>3, <1>5 DEF Selected
  <2> HIDE DEF s
  <2> QED
    BY <2>1, <2>2 DEF NotesOf, BatchesOf
<1>7. ASSUME NEW y \in RecapYears, <<b.source, e.id>> \in NotesOf(y)
      PROVE  y = year
  <2>1. PICK s \in Snapshots(y) :
          <<b.source, e.id>> \in {<<s.batch.source, x.id>> : x \in {x \in s.batch.exceptions :
                                                                     x.month \subseteq Selected(s.batch, y)}}
    BY <1>7 DEF NotesOf, BatchesOf
  <2>2. PICK x \in s.batch.exceptions :
          x.month \subseteq Selected(s.batch, y) /\ s.batch.source = b.source /\ x.id = e.id
    BY <2>1
  <2>3. s.batch \in batches
    BY SnapshotsArePages, PagesApart DEF PageOf
  <2>4. s.batch = b
    BY <2>2, <2>3 DEF RecapInv
  <2>5. x = e
    BY <1>1, <2>2, <2>4 DEF Valid, ExceptionsValid, Indexed
  <2>6. n \in Selected(b, y)
    BY <1>2, <2>2, <2>4, <2>5
  <2> QED
    BY <1>4, <1>5, <2>6 DEF Selected
<1>8. {y \in RecapYears : <<b.source, e.id>> \in NotesOf(y)} = {year}
  BY <1>6, <1>7
<1> QED
  BY <1>8, FS_Singleton

\* The notes listed are counted, and those of sources within the year are all listed.
LEMMA NotesListed ==
  ASSUME RecapInv, NEW y
  PROVE  /\ NotesOf(y) \subseteq NotesCounted(y)
         /\ (\A b \in BatchesOf(y) : \A m \in b.months : m.period.year = y) => NotesCounted(y) = NotesOf(y)
<1>1. NotesOf(y) \subseteq NotesCounted(y)
  BY DEF NotesOf, NotesCounted
<1>2. ASSUME \A b \in BatchesOf(y) : \A m \in b.months : m.period.year = y
      PROVE  NotesCounted(y) \subseteq NotesOf(y)
  <2> SUFFICES ASSUME NEW b \in BatchesOf(y), NEW e \in b.exceptions PROVE <<b.source, e.id>> \in NotesOf(y)
    BY DEF NotesCounted
  <2>1. b \in batches
    BY SnapshotsArePages, PagesApart DEF BatchesOf, PageOf
  <2>2. e.month \subseteq RowIds(b.months)
    BY <2>1 DEF RecapInv, Valid, ExceptionsValid
  <2>3. RowIds(b.months) = Selected(b, y)
    BY <1>2 DEF RowIds, Selected
  <2> QED
    BY <2>2, <2>3 DEF NotesOf
<1> QED
  BY <1>1, <1>2

\* The annual totals of sources that cover no other year are what the overview adds up.
LEMMA AnnualsListed ==
  ASSUME RecapInv, NEW y, \A b \in BatchesOf(y) : \A p \in b.covered : p.year = y
  PROVE  AmountOf(AnnualPrinted(y)) = SumOfAnnuals(y)
<1> DEFINE I == BatchesOf(y)
           J == AnnualRecords(y)
           name == [b \in I |-> b.source]
           val == [b \in I |-> b.annual]
           w == [b \in I |-> AmountOf(val[b])]
           S == {[source |-> b.source, amount |-> AmountOf(b.annual)] : b \in J}
           f == [b \in J |-> [source |-> b.source, amount |-> w[b]]]
<1>1. I \in SUBSET batches
  BY SnapshotsArePages, PagesApart DEF BatchesOf, PageOf
<1>2. IsFiniteSet(I)
  BY <1>1, FS_Subset DEF RecapInv
<1>3. \A b \in I : /\ Shown(b.annual) /\ val[b] = b.annual /\ name[b] = b.source
                   /\ w[b] = AmountOf(b.annual)
  BY <1>1 DEF RecapInv, IsTranscript
<1>4. \A b, c \in I : b.source = c.source => b = c
  BY <1>1 DEF RecapInv
<1>5. J = {b \in I : b.annual # {}} /\ J \in SUBSET I
  BY DEF AnnualRecords
<1>6. AnnualPrinted(y) = ObservedSum({[name |-> b.source, value |-> b.annual] : b \in I})
  BY DEF AnnualPrinted
<1>7. SumOfAnnuals(y) = Total(S)
  BY DEF SumOfAnnuals
<1> HIDE DEF I, J
<1>8. {[name |-> b.source, value |-> b.annual] : b \in I} = {[name |-> name[b], value |-> val[b]] : b \in I}
  OBVIOUS
<1> HIDE DEF name, val
<1>9. Observing(I, name, val)
  BY <1>2, <1>3, <1>4 DEF Observing
<1>10. AmountOf(AnnualPrinted(y)) = Total(Weights(I, w))
  BY <1>6, <1>8, <1>9, ObservedSumIs
<1> HIDE DEF w
<1>11. \A b \in I : w[b] \in Nat /\ (b.annual = {} => w[b] = 0)
  BY <1>3, ShownAmount
<1>12. Weighing(J, w)
  BY <1>2, <1>5, <1>11, FS_Subset DEF Weighing
<1>13. \A b \in I \ J : w[b] = 0
  BY <1>5, <1>11
<1>14. Total(Weights(I, w)) = Total(Weights(J, w))
  BY <1>5, <1>13, TotalOfSome
<1>15. \A b \in J : f[b] = [source |-> b.source, amount |-> AmountOf(b.annual)]
  BY <1>3, <1>5
<1>16. \A b \in J : f[b] \in S
  BY <1>15
<1>17. \A r \in S : \E b \in J : r = f[b]
  BY <1>15
<1>18. \A b \in J : f[b].amount = w[b] /\ f[b].source = b.source
  OBVIOUS
<1> HIDE DEF f, S
<1>19. \A b, c \in J : f[b] = f[c] => b = c
  <2> SUFFICES ASSUME NEW b \in J, NEW c \in J, f[b] = f[c] PROVE b = c
    OBVIOUS
  <2>1. b.source = c.source
    BY <1>18
  <2> QED
    BY <1>4, <1>5, <2>1
<1>20. Indexes(J, w, S, f)
  BY <1>12, <1>16, <1>17, <1>18, <1>19 DEF Indexes
<1>21. Total(S) = Total(Weights(J, w))
  BY <1>20, TotalOfIndexed
<1> QED
  BY <1>7, <1>10, <1>14, <1>21

\* What the records promise is what a year tells.
LEMMA YearsTell == RecapInv => YearsTellTheArchive
<1> SUFFICES ASSUME RecapInv PROVE YearsTellTheArchive
  OBVIOUS
<1>1. \A p \in Periods : Cardinality({s \in Snapshots(p.year) : s.month.period = p}) <= 1
  <2> TAKE p \in Periods
  <2> DEFINE S == {s \in Snapshots(p.year) : s.month.period = p}
  <2>1. \A s, x \in S : s = x
    BY SnapshotsArePages, PagesApart
  <2> HIDE DEF S
  <2>2. Cardinality(S) <= 1
    BY <2>1, FewApart
  <2> QED
    BY <2>2 DEF S
<1>2. ASSUME NEW y \in RecapYears
      PROVE  /\ AmountOf(PrintedTotal(y)) = SumOfMonths(y)
             /\ SumOfPartners(y) = SumOfColumns(y)
             /\ CellsTell(y) =>
                  /\ SumOfPartners(y) = SumOfPages(y)
                  /\ (\A s \in Snapshots(y) : s.month.counted # {}) => AmountOf(CountedTotal(y)) = SumOfPartners(y)
  <2>1. ASSUME CellsTell(y), \A s \in Snapshots(y) : s.month.counted # {}
        PROVE  AmountOf(CountedTotal(y)) = SumOfPartners(y)
    <3>1. AmountOf(CountedTotal(y)) = Total(Weights(CellsOfYear(y), Quantities))
      BY <2>1, CountsOfPages, CellsByPage
    <3> QED
      BY <2>1, <3>1, PartnersOfCells
  <2>2. SumOfPartners(y) = SumOfColumns(y)
    BY PartnersOfColumns, ColumnsSum
  <2> QED
    BY <2>1, <2>2, YearOfMonths, PartnersOfPages
<1>3. ASSUME NEW b \in batches, NEW p \in b.covered
      PROVE  Cardinality({y \in RecapYears : b \in AnnualRecords(y)}) <= 1
  <2> DEFINE S == {y \in RecapYears : b \in AnnualRecords(y)}
  <2>1. \A y \in S : y = p.year
    BY <1>3 DEF AnnualRecords
  <2>2. \A y, z \in S : y = z
    BY <2>1
  <2> HIDE DEF S
  <2>3. Cardinality(S) <= 1
    BY <2>2, FewApart
  <2> QED
    BY <2>3 DEF S
<1>4. \A b \in batches : {BillOf(i) : i \in b.invoice} \subseteq drafts
  BY DEF RecapInv
<1> QED
  BY <1>1, <1>2, <1>3, <1>4, YearsOfPages, NotesInOneYear, NotesListed, AnnualsListed
     DEF YearsTellTheArchive

\* Whatever recaps are archived, in any order and spread over sources as they are, a year's
\* figures are those of its pages; the partners' are those of the columns, and of the cells
\* where no column brings a count of its own; and what is listed of one year by its months is
\* listed of no other, while the overview counts every note and annual total of a source in each
\* year it has a page of (import_bundle, import_summary, _partner_rollups, dashboard_snapshot).
THEOREM YearsAlwaysTellTheArchive == RecapSpec => []YearsTellTheArchive
<1>1. RecapInv /\ [RecapNext]_recapVars => RecapInv'
  BY RecapStep
<1> QED
  BY <1>1, RecapStart, YearsTell, PTL DEF RecapSpec
=============================================================================
