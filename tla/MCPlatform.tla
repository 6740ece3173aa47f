------------------------------ MODULE MCPlatform ------------------------------
(* What every page rests on, for TLC: the members of a company, the sign-in of one
   account, the limits on attempts, and the private files with their backup and their
   move. The parts share no row, so a behaviour follows one of them and the others rest. *)
EXTENDS TeamAccess, SignIn, Throttle, Transfer, TLC

CONSTANT Parts    \* the components this instance has
VARIABLE part     \* the one followed
filesVars    == <<archiveVars, backupVars, transferVars>>
platformVars == <<teamVars, signInVars, throttleVars, filesVars, part>>

-----------------------------------------------------------------------------
CONSTANTS q1, q2
OneLogin == {[account |-> "alice", address |-> "office"]}
TwoRequests == {q1, q2}
Tight == [ip |-> 3, account |-> 2, pair |-> 1]

Bundle(source, body, months, size) ==
  [source |-> source, body |-> body, months |-> months, size |-> size]

\* A recap told in two ways, one that overlaps it in a month, and an attachment.
SomeBundles ==
  { Bundle("recap", "first", {"may", "june"}, 2), Bundle("recap", "second", {"may"}, 1),
    Bundle("other", "first", {"june"}, 1), Bundle("receipt", "first", {}, 1) }

\* Names are alike: an upload takes the first that nobody has or had. Either
\* attempts leave up to two files behind, or commits are not heard of.
Named == UNION {a.names : a \in archive}
FirstFree == \A name \in files' \ files : 1..(name - 1) \subseteq files \cup Named
OneMishap == lost' = {} \/ (unheard' = {} /\ Cardinality(lost') <= 2)

\* Two uploads at a time beside a backup, one beside a transfer; and not every bundle.
Submitted == {upload'[r].bundle : r \in {r \in Uploads : upload'[r] # NoUpload}}
TwoUploads == \A b \in Submitted : b.source # "other"
OneUpload  ==
  /\ \E r \in Uploads : \A other \in Uploads \ {r} : upload'[other] = NoUpload
  /\ \A b \in Submitted : b.body = "first"

\* A second new password, or a second secret.
FewChanges == password' + secrets' <= 4

Alike == Permutations(Browsers) \cup Permutations(TwoRequests) \cup Permutations(Uploads)

-----------------------------------------------------------------------------
PlatformInit ==
  /\ TeamInit /\ SignInInit /\ ThrottleInit /\ TransferInit
  /\ part \in Parts

PlatformNext ==
  /\ UNCHANGED part
  /\ \/ part = "team" /\ TeamNext /\ UNCHANGED <<signInVars, throttleVars, filesVars>>
     \/ part = "sign-in" /\ SignInNext /\ FewChanges
        /\ UNCHANGED <<teamVars, throttleVars, filesVars>>
     \/ part = "throttle" /\ ThrottleNext /\ UNCHANGED <<teamVars, signInVars, filesVars>>
     \/ part = "backup" /\ BackupNext /\ FirstFree /\ OneMishap /\ TwoUploads
        /\ UNCHANGED <<teamVars, signInVars, throttleVars, transferVars>>
     \/ part = "transfer" /\ TransferNext /\ FirstFree /\ OneMishap /\ OneUpload
        /\ UNCHANGED <<teamVars, signInVars, throttleVars>>

PlatformSpec == PlatformInit /\ [][PlatformNext]_platformVars

=============================================================================
