-------------------------------- MODULE Backup --------------------------------
(***************************************************************************)
(* Backup of database and private files, and restore into an empty place   *)
(* (scripts/backup.py), beside the application of SourceArchive. The       *)
(* operator is asked to stop every writer first and says so with           *)
(* --quiesced; the script cannot see whether that is true, so here writers *)
(* go on.                                                                  *)
(*                                                                         *)
(* Files are never rewritten under their name. A backup that was published *)
(* is never replaced, so the module follows one backup file.               *)
(***************************************************************************)
EXTENDS SourceArchive

VARIABLES
  script,    \* create_backup: its step, the dump, the paths found and those archived
  backup,    \* the published file: rows and files, or none, or broken
  target     \* restore_backup: its step and what is in place

backupVars == <<script, backup, target>>

Nothing == [step |-> "none", rows |-> {}, files |-> {}]
NoScript == [step |-> "idle", rows |-> {}, paths |-> {}, archived |-> {}]

-----------------------------------------------------------------------------
\* Faulty Dump: it comes after the listing of the files.
DumpLast ==
  /\ script.step \in {"idle", "copying"} /\ backup = Nothing
  /\ script' = [script EXCEPT !.step = IF @ = "idle" THEN "dumped" ELSE @, !.rows = archive]
  /\ UNCHANGED <<archiveVars, backup, target>>

\* The database as of one moment, before the files are looked at.
Dump ==
  /\ script.step = "idle" /\ backup = Nothing
  /\ script' = [script EXCEPT !.step = "dumped", !.rows = archive]
  /\ UNCHANGED <<archiveVars, backup, target>>

\* media_root.rglob
ListFiles ==
  /\ script.step = "dumped"
  /\ script' = [script EXCEPT !.step = "copying", !.paths = files]
  /\ UNCHANGED <<archiveVars, backup, target>>

\* A file joins the archive; one that is gone by now ends the script.
CopyFile(name) ==
  /\ script.step = "copying" /\ name \in script.paths \ script.archived
  /\ script' = IF name \in files THEN [script EXCEPT !.archived = @ \cup {name}] ELSE NoScript
  /\ UNCHANGED <<archiveVars, backup, target>>

\* verify_backup, then the exclusive creation of the output and its bytes.
Publish ==
  /\ script.step = "copying" /\ script.archived = script.paths
  /\ backup' = [step |-> "whole", rows |-> script.rows, files |-> script.archived]
  /\ script' = NoScript
  /\ UNCHANGED <<archiveVars, target>>

\* The script is interrupted: its directory is removed or left aside; a half-written
\* output stays where it is, in the way of the next one.
Interrupt ==
  /\ script.step # "idle"
  /\ script' = NoScript
  /\ backup' \in {backup} \cup
       (IF script.step = "copying" /\ script.archived = script.paths
        THEN {[step |-> "broken", rows |-> script.rows, files |-> {}]} ELSE {})
  /\ UNCHANGED <<archiveVars, target>>

-----------------------------------------------------------------------------
\* No database and no private file is there yet.
Empty == target = Nothing

\* Into an empty place, from a backup that verifies: the database in one step.
RestoreDatabase ==
  /\ backup.step = "whole" /\ Empty
  /\ target' = [step |-> "restoring", rows |-> backup.rows, files |-> {}]
  /\ UNCHANGED <<archiveVars, script, backup>>

RestoreFile(name) ==
  /\ target.step = "restoring" /\ name \in backup.files \ target.files
  /\ target' = [target EXCEPT !.files = @ \cup {name}]
  /\ UNCHANGED <<archiveVars, script, backup>>

FinishRestore ==
  /\ target.step = "restoring" /\ target.files = backup.files
  /\ target' = [target EXCEPT !.step = "restored"]
  /\ UNCHANGED <<archiveVars, script, backup>>

\* The rest of an interrupted restore is neither continued nor overwritten.
InterruptRestore ==
  /\ target.step = "restoring"
  /\ target' = [target EXCEPT !.step = "partial"]
  /\ UNCHANGED <<archiveVars, script, backup>>

-----------------------------------------------------------------------------
BackupInit == ArchiveInit /\ script = NoScript /\ backup = Nothing /\ target = Nothing

BackupNext ==
  \/ ArchiveNext /\ UNCHANGED backupVars
  \/ Dump \/ ListFiles \/ Publish \/ Interrupt
  \/ RestoreDatabase \/ FinishRestore \/ InterruptRestore
  \/ \E name \in Names : CopyFile(name) \/ RestoreFile(name)

BackupSpec == BackupInit /\ [][BackupNext]_<<archiveVars, backupVars>>

-----------------------------------------------------------------------------
\* A restored company opens every document that was archived without an error, and its
\* rows are ones that were committed together, even if the application went on writing,
\* failing and cleaning up while the backup ran: rows are dumped before the files are
\* listed, and a file that such a row names is never removed.
RestoredIsWhole ==
  /\ backup.step = "whole" => \A a \in backup.rows \ unheard : a.names \subseteq backup.files
  /\ target.step = "restored" =>
       /\ \A a \in target.rows \ unheard : a.names \subseteq target.files
       /\ \A a, b \in target.rows : a # b => a.bundle.months \cap b.bundle.months = {}
=============================================================================
