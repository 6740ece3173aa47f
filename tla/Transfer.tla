------------------------------- MODULE Transfer -------------------------------
(***************************************************************************)
(* The move of a company from SQLite to an empty PostgreSQL database and   *)
(* an empty place for its files (scripts/sqlite_to_postgres.py transfer,   *)
(* _worker). It takes a backup of the source and restores it into its own  *)
(* workspace with the steps of module Backup, whose `target` is that       *)
(* workspace here; it never writes to the source, and cannot see whether   *)
(* the application has stopped as the operator says.                       *)
(*                                                                         *)
(* The rows of a database stand for their hash. An attempt that fails      *)
(* leaves the destination as it is; the next one has a workspace of its    *)
(* own.                                                                    *)
(***************************************************************************)
EXTENDS Backup

CONSTANT MaxRelease     \* bound on the releases deployed meanwhile

ASSUME TransferAssumption == MaxRelease \in Nat \ {0}

VARIABLES
  release,         \* the migrations of the deployed release (_schema_fingerprint)
  transfer,        \* step; source and release as found at the start; history: rows checked
  destination      \* tables and rows of the database, the release of each, and the files

transferVars == <<release, transfer, destination>>

NoTransfer == [step |-> "idle", source |-> {}, release |-> 0, checked |-> {}]
EmptyDestination ==
  [tables |-> "none", rows |-> {}, exported |-> 0, loaded |-> 0, files |-> {}]

Abandoned == transfer' = [transfer EXCEPT !.step = "idle"]

-----------------------------------------------------------------------------
\* The preflight and the hashes of database, log and migrations, before the snapshot.
StartTransfer ==
  /\ transfer.step = "idle"
  /\ destination.tables = "none" /\ destination.files = {}
  /\ transfer' = [NoTransfer EXCEPT !.step = "copying", !.source = archive, !.release = release]
  /\ script' = NoScript /\ backup' = Nothing /\ target' = Nothing
  /\ UNCHANGED <<archiveVars, release, destination>>

\* The fingerprint of the migrations is still the one of the start.
ReleaseFrozen == release = transfer.release

\* _file_references: every document that the rows of the private copy name is in it.
FilesReferenced == \A a \in target.rows : a.names \subseteq target.files

\* The worker migrates the private copy and looks up its documents.
Export ==
  /\ transfer.step = "copying" /\ target.step = "restored"
  /\ IF ReleaseFrozen /\ FilesReferenced
     THEN /\ transfer' = [transfer EXCEPT !.step = "exported"]
          /\ destination' = [destination EXCEPT !.exported = release]
     ELSE Abandoned /\ UNCHANGED destination
  /\ UNCHANGED <<archiveVars, backupVars, release>>

\* The second worker creates the schema, outside the transaction of the rows.
CreateSchema ==
  /\ transfer.step = "exported"
  /\ IF destination.tables = "none"
     THEN /\ transfer' = [transfer EXCEPT !.step = "loading"]
          /\ destination' = [destination EXCEPT !.tables = "empty", !.loaded = release]
     ELSE Abandoned /\ UNCHANGED destination
  /\ UNCHANGED <<archiveVars, backupVars, release>>

\* Truncation, rows, sequences and the comparison of the inventories are one transaction.
LoadRows ==
  /\ transfer.step = "loading"
  /\ transfer' = [transfer EXCEPT !.step = "loaded"]
  /\ destination' = [destination EXCEPT !.tables = "full", !.rows = target.rows]
  /\ UNCHANGED <<archiveVars, backupVars, release>>

\* Exclusive creation, and the hash of the copy.
CopyDocument(name) ==
  /\ transfer.step = "loaded" /\ name \in backup.files \ destination.files
  /\ destination' = [destination EXCEPT !.files = @ \cup {name}]
  /\ UNCHANGED <<archiveVars, backupVars, release, transfer>>

Copied == transfer.step = "loaded" /\ destination.files = backup.files
CheckedNow == [transfer EXCEPT !.step = "checked", !.checked = archive]

\* Database, log and migrations are hashed once more.
CheckSource ==
  /\ Copied
  /\ IF archive = transfer.source /\ ReleaseFrozen
     THEN transfer' = CheckedNow ELSE Abandoned
  /\ UNCHANGED <<archiveVars, backupVars, release, destination>>

\* verification.json
Approve ==
  /\ transfer.step = "checked"
  /\ transfer' = [transfer EXCEPT !.step = "approved"]
  /\ UNCHANGED <<archiveVars, backupVars, release, destination>>

\* A worker or the script fails or is killed; an open transaction is rolled back.
Abandon ==
  /\ transfer.step \notin {"idle", "approved"}
  /\ Abandoned
  /\ UNCHANGED <<archiveVars, backupVars, release, destination>>

\* The steps of create_backup and restore_backup belong to the attempt.
CopySource ==
  /\ transfer.step = "copying" /\ target.step # "restored"
  /\ \/ Dump \/ ListFiles \/ Publish \/ RestoreDatabase \/ FinishRestore
     \/ \E name \in Names : CopyFile(name) \/ RestoreFile(name)
  /\ UNCHANGED transferVars

Deploy ==
  /\ release < MaxRelease /\ release' = release + 1
  /\ UNCHANGED <<archiveVars, backupVars, transfer, destination>>

TransferInit ==
  /\ BackupInit
  /\ release = 1 /\ transfer = NoTransfer /\ destination = EmptyDestination

TransferNext ==
  \/ ArchiveNext /\ UNCHANGED <<backupVars, transferVars>>
  \/ StartTransfer \/ CopySource \/ Export \/ CreateSchema \/ LoadRows
  \/ CheckSource \/ Approve \/ Abandon \/ Deploy
  \/ \E name \in Names : CopyDocument(name)

TransferSpec == TransferInit /\ [][TransferNext]_<<archiveVars, backupVars, transferVars>>

-----------------------------------------------------------------------------
\* A destination that is approved for the cutover has every row that the source had when
\* it was looked at for the last time, each with its documents, and its rows were written
\* in the schema they were exported from; however writers and deployments went on and
\* earlier attempts ended (transfer, _worker).
CutoverLosesNothing ==
  transfer.step \in {"checked", "approved"} =>
    /\ destination.rows = transfer.checked
    /\ \A a \in destination.rows : a.names \subseteq destination.files
    /\ destination.exported = destination.loaded

\* A copy of the company on another machine is whole: what a backup restores, and what
\* the move to the other database leaves there (scripts/backup.py,
\* scripts/sqlite_to_postgres.py).
CopiesAreWhole == RestoredIsWhole /\ CutoverLosesNothing
=============================================================================
