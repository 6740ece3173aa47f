----------------------------- MODULE TaxFacility -----------------------------
(***************************************************************************)
(* The right to the final tax on turnover (taxes/rules.py                  *)
(* validate_final_profile, taxes/services.py profile_gates, taxes/         *)
(* workflow.py approve_tax_profile, webapp/views.py tax_profile_setup):    *)
(* three tax years from the year of registration, decided anew for each    *)
(* year, and not for companies registered since the reform.                *)
(*                                                                         *)
(* Years are numbers and a year has the two parts before and after 22      *)
(* April, the day of the reform of 2026; a moment is 2 * year + part. The  *)
(* turnover and the other confirmations of the professional's report are   *)
(* taken to be given.                                                      *)
(***************************************************************************)
EXTENDS Integers, Sequences

CONSTANTS
  FirstYear, LastYear,   \* bound: the years that are looked at
  Earliest,              \* 2018, the first year that counts
  Reform,                \* the moment of the reform
  MaxProfiles            \* bound

ASSUME FacilityAssumption ==
  {FirstYear, LastYear, Earliest, Reform, MaxProfiles} \subseteq Nat /\ FirstYear <= LastYear

Years      == FirstYear..LastYear
Moments    == (2 * FirstYear)..(2 * LastYear + 1)
YearOf(m)  == m \div 2
Unknown    == -1

VARIABLES
  now,            \* the current moment
  registration,   \* TaxProfile.registration_date
  profiles       \* TaxProfileDecision rows

facilityVars == <<now, registration, profiles>>

-----------------------------------------------------------------------------
\* Faulty FacilityStart: a new period begins with the reform.
FacilityStartAnew(from) == IF from >= Reform THEN YearOf(Reform) ELSE YearOf(registration)

\* The first year of the facility, whenever it is activated.
FacilityStart(from) == IF YearOf(registration) > Earliest THEN YearOf(registration) ELSE Earliest

\* validate_final_profile for an activation and the period that the report states.
ValidFinal(from, start, end) ==
  /\ registration < Reform
  /\ start = FacilityStart(from) /\ end = start + 2
  /\ start <= YearOf(from) /\ YearOf(from) <= end
  /\ from >= Reform => end >= YearOf(Reform)

\* The facts of the documents can be changed until the first review.
Revisable == profiles = <<>>

SetUpProfile(date) ==
  /\ Revisable
  /\ registration' = date
  /\ UNCHANGED <<now, profiles>>

\* approve_tax_profile, with the professional's report on exactly these facts.
ApproveProfileYears(regime, from, start, end) ==
  /\ Len(profiles) < MaxProfiles
  /\ registration # Unknown /\ registration <= now /\ registration <= from /\ from <= now
  /\ regime = "final" => ValidFinal(from, start, end)
  /\ profiles' = Append(profiles, [regime |-> regime, from |-> from, start |-> start, end |-> end])
  /\ UNCHANGED <<now, registration>>

Pass == now < 2 * LastYear + 1 /\ now' = now + 1 /\ UNCHANGED <<registration, profiles>>

FacilityInit == now = 2 * FirstYear /\ registration = Unknown /\ profiles = <<>>

FacilityNext ==
  \/ \E date \in Moments : SetUpProfile(date)
  \/ \E from \in Moments, start \in Years, end \in Years : ApproveProfileYears("final", from, start, end)
  \/ \E from \in Moments : ApproveProfileYears("normal", from, 0, 0)
  \/ Pass

FacilitySpec == FacilityInit /\ [][FacilityNext]_facilityVars

-----------------------------------------------------------------------------
\* profile_for_period: the latest decision from the latest moment not after m.
LatestFor(m) ==
  LET started == {d \in 1..Len(profiles) : profiles[d].from <= m}
  IN  {d \in started : \A e \in started :
         profiles[e].from < profiles[d].from \/ (profiles[e].from = profiles[d].from /\ e <= d)}

\* profile_gates: final tax may be computed for m. Each year is decided by itself.
FinalOpen(m) ==
  \E d \in LatestFor(m) :
    /\ profiles[d].regime = "final"
    /\ YearOf(m) <= profiles[d].end /\ YearOf(profiles[d].from) = YearOf(m)

FacilityTypeOK ==
  /\ now \in Moments /\ registration \in Moments \cup {Unknown}
  /\ profiles \in Seq([regime : {"final", "normal"}, from : Moments, start : Nat, end : Nat])

\* "Original expiry honored; no restarted period" (docs/FINANCE-ERP-ARCHITECTURE.md:1216):
\* through any series of profiles, the years in which the final tax is open lie within
\* three years of each other and none comes before the registration; after the reform
\* only a company registered before it has any.
TheFacilityNeverRestarts ==
  LET open == {m \in Moments : FinalOpen(m)}
  IN /\ \A m, n \in open : YearOf(m) - YearOf(n) <= 2
     /\ \A m \in open : registration <= m /\ registration < Reform
=============================================================================
