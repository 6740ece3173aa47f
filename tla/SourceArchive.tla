---------------------------- MODULE SourceArchive ----------------------------
(***************************************************************************)
(* Private files and the rows that name them: source bundles               *)
(* (imports/services.py import_bundle) and documents attached to invoices  *)
(* and bills (evidence/services.py attach_document). The file system and   *)
(* the database share no transaction: files are written inside the         *)
(* database's transaction, and removed again when it fails.                *)
(*                                                                         *)
(* An attached document is a bundle of one file that covers no month. The  *)
(* rows of a bundle (batch, documents, months, exceptions, draft bill) are *)
(* one entry of archive: they become visible together.                     *)
(***************************************************************************)
EXTENDS FiniteSets, Integers

CONSTANTS
  Uploads,     \* uploads under way at a time
  Bundles,     \* what may be submitted: source (its hash), body, months, size
  Names        \* random names of stored files

ASSUME ArchiveAssumption ==
  \A b \in Bundles : b.size \in Nat \ {0} /\ IsFiniteSet(b.months)

VARIABLES
  archive,     \* committed rows: a bundle and the names of its files
  files,       \* what the storage holds
  upload,      \* step and bundle of each upload, the files in `stored`, the file being saved
  lost,        \* history: files left without anyone to remove them
  unheard      \* history: rows whose COMMIT succeeded although its caller was told an error

archiveVars == <<archive, files, upload, lost, unheard>>

NoBundle == [none |-> TRUE]
NoUpload == [step |-> "idle", bundle |-> NoBundle, stored |-> {}, saving |-> {}]

\* The organization's row is locked from the first read to the end of the transaction.
Unlocked == \A r \in Uploads : upload[r].step # "open"

-----------------------------------------------------------------------------

\* Not yet archived; not the same source told differently, nor a month told twice.
Admissible(b) ==
  \A a \in archive : a.bundle.source # b.source /\ a.bundle.months \cap b.months = {}

\* The transaction begins; a submission that is known or refused ends here.
Begin(r, b) ==
  /\ upload[r] = NoUpload /\ Unlocked
  /\ Admissible(b)
  /\ upload' = [upload EXCEPT ![r] = [NoUpload EXCEPT !.step = "open", !.bundle = b]]
  /\ UNCHANGED <<archive, files, lost, unheard>>

\* file.save puts a file there, under a random name that nobody ever had.
Save(r, name) ==
  /\ upload[r].step = "open" /\ upload[r].saving = {}
  /\ Cardinality(upload[r].stored) < upload[r].bundle.size
  /\ name \notin files /\ \A a \in archive : name \notin a.names
  /\ files' = files \cup {name}
  /\ upload' = [upload EXCEPT ![r].saving = {name}]
  /\ UNCHANGED <<archive, lost, unheard>>

\* Only a save that returns is remembered.
Remember(r) ==
  /\ upload[r].step = "open" /\ upload[r].saving # {}
  /\ upload' = [upload EXCEPT ![r].stored = @ \cup upload[r].saving, ![r].saving = {}]
  /\ UNCHANGED <<archive, files, lost, unheard>>

RowOf(r) == [bundle |-> upload[r].bundle, names |-> upload[r].stored]
Complete(r) ==
  /\ upload[r].step = "open" /\ upload[r].saving = {}
  /\ Cardinality(upload[r].stored) = upload[r].bundle.size

Commit(r) ==
  /\ Complete(r)
  /\ archive' = archive \cup {RowOf(r)}
  /\ upload' = [upload EXCEPT ![r] = NoUpload]
  /\ UNCHANGED <<files, lost, unheard>>

\* The database commits, but the connection breaks before it says so: what the caller
\* sees is an exception like any other.
CommitUnheard(r) ==
  /\ Complete(r)
  /\ archive' = archive \cup {RowOf(r)} /\ unheard' = unheard \cup {RowOf(r)}
  /\ upload' = [upload EXCEPT ![r].step = "failed"]
  /\ UNCHANGED <<files, lost>>

\* An exception inside the transaction: it is rolled back and the lock released, before
\* the except clause runs. A file whose save raised is not in `stored`.
Fail(r) ==
  /\ upload[r].step = "open"
  /\ lost' = lost \cup upload[r].saving
  /\ upload' = [upload EXCEPT ![r].step = "failed", ![r].saving = {}]
  /\ UNCHANGED <<archive, files, unheard>>

\* Faulty Cleanup: only the last file is removed.
CleanupLast(r) ==
  /\ upload[r].step = "failed"
  /\ IF upload[r].stored = {} THEN UNCHANGED files
     ELSE \E name \in upload[r].stored : files' = files \ {name}
  /\ upload' = [upload EXCEPT ![r] = NoUpload]
  /\ UNCHANGED <<archive, lost, unheard>>

\* The except clause removes the files in `stored`, one after another, whatever became of
\* the rows.
Cleanup(r) ==
  /\ upload[r].step = "failed"
  /\ IF upload[r].stored = {}
     THEN upload' = [upload EXCEPT ![r] = NoUpload] /\ UNCHANGED files
     ELSE \E name \in upload[r].stored :
            /\ files' = files \ {name}
            /\ upload' = [upload EXCEPT ![r].stored = @ \ {name}]
  /\ UNCHANGED <<archive, lost, unheard>>

\* The worker dies and the database rolls back, or a file cannot be removed: nobody
\* removes the rest.
Crash(r) ==
  /\ upload[r].step # "idle"
  /\ lost' = lost \cup upload[r].stored \cup upload[r].saving
  /\ upload' = [upload EXCEPT ![r] = NoUpload]
  /\ UNCHANGED <<archive, files, unheard>>

ArchiveInit ==
  /\ archive = {} /\ files = {} /\ lost = {} /\ unheard = {}
  /\ upload = [r \in Uploads |-> NoUpload]

ArchiveNext ==
  \E r \in Uploads :
    \/ \E b \in Bundles : Begin(r, b)
    \/ \E name \in Names : Save(r, name)
    \/ Remember(r) \/ Commit(r) \/ CommitUnheard(r) \/ Fail(r) \/ Cleanup(r) \/ Crash(r)

ArchiveSpec == ArchiveInit /\ [][ArchiveNext]_archiveVars

-----------------------------------------------------------------------------
ArchiveTypeOK ==
  /\ archive \subseteq [bundle : Bundles, names : SUBSET Names] /\ unheard \subseteq archive
  /\ files \subseteq Names /\ lost \subseteq Names
  /\ upload \in [Uploads -> [step : {"idle", "open", "failed"}, bundle : Bundles \cup {NoBundle},
                             stored : SUBSET Names, saving : SUBSET Names]]

\* A source that was archived without an error can always be opened, and is in the
\* archive once: its files are there and its own, whatever attempts of others broke off and
\* were cleaned up meanwhile. What else the storage holds belongs to an attempt under way or
\* was left by one that died, or whose save broke off. (Of a row whose COMMIT was answered
\* with an error the files are removed; import_bundle, attach_document.)
ArchiveIsWhole ==
  /\ \A a \in archive : Cardinality(a.names) = a.bundle.size
  /\ \A a, b \in archive : a # b =>
       /\ a.names \cap b.names = {} /\ a.bundle.months \cap b.bundle.months = {}
       /\ a.bundle.source # b.bundle.source
  /\ \A a \in archive \ unheard : a.names \subseteq files
  /\ files = (UNION {a.names : a \in archive \ unheard})
               \cup (UNION {upload[r].stored \cup upload[r].saving : r \in Uploads}) \cup lost
=============================================================================
