------------------------------ MODULE AdReports ------------------------------
(***************************************************************************)
(* Daily advertising reports typed in, corrected or imported from files    *)
(* (marketing/services.py save_ad_observation, marketing/imports.py        *)
(* import_ad_csv, marketing/models.py AdDailyObservation).                 *)
(*                                                                         *)
(* A report is about one campaign and day (its place) and, in each         *)
(* dimension, about one name or about all of them. Every command holds the *)
(* organization's lock; one that is refused, and one that finds its report *)
(* recorded with the same values, changes nothing. A stale correction is   *)
(* refused, and its page drawn again, as in module Approvals.              *)
(***************************************************************************)
EXTENDS Amounts, SequencesExt

CONSTANTS
  Dimensions, Names,    \* ad_name, audience and region; the names in each of them
  All,                  \* "Semua ..." of every dimension
  Places, References,
  Spends,               \* the spend a report may give
  Files,                \* the files that may be uploaded: sequences of reports
  MaxReports            \* bound

Grains  == [Dimensions -> Names \cup {All}]
Reports == [place : Places, grain : Grains, reference : References, spend : Spends]

ASSUME AdAssumption ==
  All \notin Names /\ Names # {} /\ Spends \subseteq Nat /\ Files \subseteq Seq(Reports)

VARIABLES
  reports,     \* AdDailyObservation rows
  uploaded     \* history: the files whose import was accepted

adVars == <<reports, uploaded>>

-----------------------------------------------------------------------------
\* Faulty GrainsOverlap: two reports overlap when they are about the same names (the unique
\* constraint of the table).
GrainsOverlapByKey(g, h) == g = h

\* A total and its parts overlap although their keys differ (AdDailyObservation.clean).
GrainsOverlap(g, h) == \A d \in Dimensions : g[d] = h[d] \/ All \in {g[d], h[d]}

\* A report that may join these rows as a new one, and one that is among them.
Fits(r, rows) ==
  \A other \in rows : /\ other.reference # r.reference
                      /\ other.place = r.place => ~GrainsOverlap(r.grain, other.grain)
Known(r, rows) == r \in rows

SaveAdObservation(r) ==
  /\ Fits(r, reports) /\ Cardinality(reports) < MaxReports
  /\ reports' = reports \cup {r}
  /\ UNCHANGED uploaded

\* A correction keeps place, names and reference.
CorrectAdObservation(r, spend) ==
  /\ r.spend # spend
  /\ reports' = (reports \ {r}) \cup {[r EXCEPT !.spend = spend]}
  /\ UNCHANGED uploaded

\* Each row is known, or fits what was recorded before the file and the rows above it.
Accepted(file, rows) ==
  \A i \in DOMAIN file :
    LET before == rows \cup {file[j] : j \in 1..(i - 1)}
    IN  Known(file[i], before) \/ Fits(file[i], before)

\* import_ad_csv: the rows in their order, all of them or none.
ImportAdCsv(file) ==
  /\ Accepted(file, reports)
  /\ LET new == {r \in ToSet(file) \ reports : Fits(r, reports)} IN
     /\ Cardinality(reports) + Cardinality(new) <= MaxReports
     /\ reports' = reports \cup new
  /\ uploaded' = uploaded \cup {file}

AdInit == reports = {} /\ uploaded = {}

AdNext ==
  \/ \E r \in Reports : SaveAdObservation(r)
  \/ \E r \in reports, spend \in Spends : CorrectAdObservation(r, spend)
  \/ \E file \in Files : ImportAdCsv(file)

AdSpec == AdInit /\ [][AdNext]_adVars

-----------------------------------------------------------------------------
AdTypeOK == reports \subseteq Reports /\ uploaded \subseteq Files

\* What was shown to one audience in one region by one ad, on one day of a campaign.
Cells == Places \X [Dimensions -> Names]
Covers(r, cell) ==
  r.place = cell[1] /\ \A d \in Dimensions : r.grain[d] \in {All, cell[2][d]}

\* Spending is counted once: every part of a day's advertising is in at most one report,
\* whether it was reported as a total or in parts, by hand or from files; and in exactly
\* one if a file that was accepted speaks of it, whose rows are never taken in part
\* (AdDailyObservation.clean, import_ad_csv).
SpendCountedOnce ==
  \A cell \in Cells :
    LET counting == {r \in reports : Covers(r, cell)} IN
    /\ Cardinality(counting) <= 1
    /\ (\E file \in uploaded : \E i \in DOMAIN file : Covers(file[i], cell)) => counting # {}
=============================================================================
