------------------------ MODULE ReportedObservations ------------------------
(***************************************************************************)
(* Marketing figures that are reported to the directors, entered by hand   *)
(* or imported from CSV files (director/services.py _marketing and its     *)
(* callers, director/marketing_import.py). A row is never changed; it is   *)
(* voided, and may name the row it replaces. The key of a row is its date, *)
(* channel, source and reference.                                          *)
(*                                                                         *)
(* A file is read as a whole before anything is written; a file with two   *)
(* figures for one key is refused, so a file is a function from keys to    *)
(* figures. Every request holds the organization's row.                    *)
(***************************************************************************)
EXTENDS Integers, Sequences, FiniteSets

CONSTANTS
  Keys, Figures,   \* natural keys; what is observed
  Imports,           \* files: functions from some keys to figures
  MaxRows          \* bound

ASSUME ObservationAssumption ==
  /\ MaxRows \in Nat
  /\ \A f \in Imports :
       DOMAIN f \subseteq Keys /\ IsFiniteSet(DOMAIN f) /\ \A k \in DOMAIN f : f[k] \in Figures

VARIABLES rows, void, imported

observationVars == <<rows, void, imported>>

Ids == 1..Len(rows)
Active(key) == {i \in Ids \ void : rows[i].key = key}
Recorded(key, figure, replaces, by) ==
  [key |-> key, figure |-> figure, replaces |-> replaces, by |-> by]

-----------------------------------------------------------------------------
\* _marketing: an active row of the key is met again only as it is, and nothing is written.
Marketing(key, figure, replaces, gone) ==
  /\ Active(key) \subseteq gone /\ Len(rows) < MaxRows
  /\ rows' = Append(rows, Recorded(key, figure, replaces, "hand"))

CreateMarketingObservation(key, figure) ==
  /\ Marketing(key, figure, 0, {})
  /\ UNCHANGED <<void, imported>>

VoidMarketingObservation(i) ==
  /\ i \notin void /\ void' = void \cup {i}
  /\ UNCHANGED <<rows, imported>>

\* The old row is voided and the new one written together, also under another key.
ReplaceMarketingObservation(i, key, figure) ==
  /\ i \notin void /\ Marketing(key, figure, i, {i})
  /\ void' = void \cup {i}
  /\ UNCHANGED imported

\* Faulty Fresh: a key that was withdrawn counts as new.
FreshIfNotActive(file) == {k \in DOMAIN file : Active(k) = {}}

\* Keys that were never recorded.
Fresh(file) == {k \in DOMAIN file : \A i \in Ids : rows[i].key # k}

\* A key is new, or active with exactly these figures; one that was withdrawn is refused.
Admitted(file) ==
  \A k \in DOMAIN file : k \in Fresh(file) \/ \E i \in Active(k) : rows[i].figure = file[k]

\* import_marketing_csv: all of the file's new rows, or none.
ImportMarketingCsv(file) ==
  /\ Admitted(file) /\ Len(rows) + Cardinality(Fresh(file)) <= MaxRows
  /\ \E new \in [1..Cardinality(Fresh(file)) -> Fresh(file)] :
       /\ \A k \in Fresh(file) : \E n \in DOMAIN new : new[n] = k
       /\ rows' = rows \o [n \in DOMAIN new |-> Recorded(new[n], file[new[n]], 0, "file")]
  /\ imported' = imported \cup {file}
  /\ UNCHANGED void

ObservationInit == rows = <<>> /\ void = {} /\ imported = {}

ObservationNext ==
  \/ \E k \in Keys, f \in Figures :
       \/ CreateMarketingObservation(k, f)
       \/ \E i \in Ids : ReplaceMarketingObservation(i, k, f)
  \/ \E i \in Ids : VoidMarketingObservation(i)
  \/ \E file \in Imports : ImportMarketingCsv(file)

ObservationSpec == ObservationInit /\ [][ObservationNext]_observationVars

-----------------------------------------------------------------------------
ObservationTypeOK ==
  /\ rows \in Seq([key : Keys, figure : Figures, replaces : Nat, by : {"hand", "file"}])
  /\ void \subseteq Ids /\ imported \subseteq Imports

\* A figure counts once, and what somebody withdrew or corrected comes back only by
\* somebody's hand: in whatever order files are imported, again or after corrections, a
\* row that a file brought is the first of its key, and every key of an imported file is
\* accounted for.
FilesReviveNothing ==
  /\ \A k \in Keys : Cardinality(Active(k)) <= 1
  /\ \A i, j \in Ids : i < j /\ rows[i].key = rows[j].key => rows[j].by = "hand"
  /\ \A file \in imported : \A k \in DOMAIN file : \E i \in Ids : rows[i].key = k
=============================================================================
