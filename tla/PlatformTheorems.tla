-------------------------- MODULE PlatformTheorems --------------------------
(***************************************************************************)
(* For any number of people, browsers, codes, requests, bundles and file   *)
(* names: a company keeps an owner, a code opens an account once, a        *)
(* session that is served is of now, no quota of attempts is exceeded, the *)
(* archive stays whole, and so does every copy of it.                      *)
(*                                                                         *)
(* Owners: AnOwnerRemains is inductive with the types and with the fact    *)
(* that a request needs a member. Codes: what is still to be accepted was  *)
(* never accepted. Sessions: one that is behind the account's password or  *)
(* version stays behind, also while its request is under way. Quotas: a    *)
(* row is the last window of its key, and whoever writes it holds its lock.*)
(* Archive: the invariant says whose every file is: of a row, of one       *)
(* attempt, or left behind by one, and never of two of them (a row whose   *)
(* commit was answered with an error owns none); and the one open          *)
(* transaction still may archive what it was asked to. Copies:             *)
(* their invariant follows the rows of one moment, and the files listed    *)
(* after it, from the dump to the other database.                          *)
(***************************************************************************)
EXTENDS TeamAccess, SignIn, Throttle, Transfer, TLAPS

-----------------------------------------------------------------------------
(* The members of a company.                                              *)

\* The table of memberships keeps its types.
LEMMA TeamTypeStep == TeamTypeOK /\ [TeamNext]_teamVars => TeamTypeOK'
<1> SUFFICES ASSUME TeamTypeOK, [TeamNext]_teamVars PROVE TeamTypeOK'
  OBVIOUS
<1> USE TeamAssumption DEF TeamTypeOK, Finish
<1>1. CASE UNCHANGED teamVars
  BY <1>1 DEF teamVars
<1>2. ASSUME NEW u \in Users, Setup(u) PROVE TeamTypeOK'
  BY <1>2 DEF Setup
<1>3. ASSUME NEW u \in Users, Arrive(u) PROVE TeamTypeOK'
  BY <1>3 DEF Arrive
<1>4. ASSUME NEW u \in Users, Leave(u) PROVE TeamTypeOK'
  BY <1>4 DEF Leave
<1>5. ASSUME NEW u \in Users, NEW whom \in Users, NEW r \in Roles, MemberCreate(u, whom, r)
      PROVE  TeamTypeOK'
  BY <1>5 DEF MemberCreate
<1>6. ASSUME NEW u \in Users, NEW whom \in Users, NEW r \in Roles, NEW keep \in BOOLEAN,
             UpdateMemberAccess(u, whom, r, keep)
      PROVE  TeamTypeOK'
  BY <1>6 DEF UpdateMemberAccess
<1> QED
  BY <1>1, <1>2, <1>3, <1>4, <1>5, <1>6 DEF TeamNext

\* The owner who changes somebody's access stays an active owner.
LEMMA ActorStays ==
  ASSUME TeamTypeOK, NEW u \in Users, NEW whom \in Users, NEW r \in Roles, NEW keep \in BOOLEAN,
         UpdateMemberAccess(u, whom, r, keep)
  PROVE  u \in Owners'
<1>1. u \in Users /\ role[u] = "owner" /\ active[u]
  BY DEF UpdateMemberAccess, Authorized, Owners
<1>2. CASE whom = u
  <2>1. r = "owner" /\ keep
    BY <1>2 DEF UpdateMemberAccess
  <2> QED
    BY <1>2, <2>1 DEF UpdateMemberAccess, Owners, TeamTypeOK
<1>3. CASE whom # u
  BY <1>1, <1>3 DEF UpdateMemberAccess, Owners, TeamTypeOK
<1> QED
  BY <1>2, <1>3

\* While a request is under way the company has members.
MembersFirst == \A u \in Users : request[u] # "none" => SetUp

\* Only members have requests, and members leave none behind: every membership view keeps it.
LEMMA MembersFirstStep ==
  TeamTypeOK /\ MembersFirst /\ [TeamNext]_teamVars => MembersFirst'
<1> SUFFICES ASSUME TeamTypeOK, MembersFirst, [TeamNext]_teamVars PROVE MembersFirst'
  OBVIOUS
<1> USE TeamAssumption DEF TeamTypeOK, MembersFirst, SetUp, Finish
<1>1. CASE UNCHANGED teamVars
  BY <1>1 DEF teamVars
<1>2. ASSUME NEW u \in Users, Setup(u) PROVE MembersFirst'
  BY <1>2 DEF Setup
<1>3. ASSUME NEW u \in Users, Arrive(u) PROVE MembersFirst'
  BY <1>3 DEF Arrive
<1>4. ASSUME NEW u \in Users, Leave(u) PROVE MembersFirst'
  BY <1>4 DEF Leave
<1>5. ASSUME NEW u \in Users, NEW whom \in Users, NEW r \in Roles, MemberCreate(u, whom, r)
      PROVE  MembersFirst'
  BY <1>5 DEF MemberCreate
<1>6. ASSUME NEW u \in Users, NEW whom \in Users, NEW r \in Roles, NEW keep \in BOOLEAN,
             UpdateMemberAccess(u, whom, r, keep)
      PROVE  MembersFirst'
  BY <1>6 DEF UpdateMemberAccess
<1> QED
  BY <1>1, <1>2, <1>3, <1>4, <1>5, <1>6 DEF TeamNext

\* The owner of a new company, and every owner before a new member, is an owner after it.
LEMMA OwnerStep ==
  TeamTypeOK /\ MembersFirst /\ AnOwnerRemains /\ [TeamNext]_teamVars => AnOwnerRemains'
<1> SUFFICES ASSUME TeamTypeOK, MembersFirst, AnOwnerRemains, [TeamNext]_teamVars PROVE AnOwnerRemains'
  OBVIOUS
<1>1. ASSUME UNCHANGED <<role, active>> PROVE AnOwnerRemains'
  BY <1>1 DEF AnOwnerRemains, SetUp, Owners
<1>2. ASSUME NEW u \in Users, Setup(u) PROVE AnOwnerRemains'
  <2>1. u \in Owners'
    BY <1>2 DEF Setup, Owners, TeamTypeOK
  <2> QED
    BY <2>1 DEF AnOwnerRemains, Owners
<1>3. ASSUME NEW u \in Users, NEW whom \in Users, NEW r \in Roles, MemberCreate(u, whom, r)
      PROVE  AnOwnerRemains'
  <2>1. PICK o \in Owners : TRUE
    BY <1>3, TeamAssumption DEF MemberCreate, MembersFirst, AnOwnerRemains, Owners
  <2>2. o # whom
    BY <1>3, <2>1, TeamAssumption DEF MemberCreate, Owners
  <2>3. o \in Owners'
    BY <1>3, <2>1, <2>2 DEF MemberCreate, Owners, TeamTypeOK
  <2> QED
    BY <2>3 DEF AnOwnerRemains, Owners
<1>4. ASSUME NEW u \in Users, NEW whom \in Users, NEW r \in Roles, NEW keep \in BOOLEAN,
             UpdateMemberAccess(u, whom, r, keep)
      PROVE  AnOwnerRemains'
  BY <1>4, ActorStays DEF AnOwnerRemains, Owners
<1> QED
  BY <1>1, <1>2, <1>3, <1>4 DEF TeamNext, teamVars, Arrive, Leave, Finish

\* Demotions, suspensions and new members in any order leave the company an owner
\* (update_member_access).
THEOREM OwnersAlwaysRemain == TeamSpec => []AnOwnerRemains
<1> DEFINE IInv == TeamTypeOK /\ MembersFirst /\ AnOwnerRemains
<1>1. TeamInit => IInv
  BY DEF TeamInit, TeamTypeOK, MembersFirst, AnOwnerRemains, SetUp
<1>2. IInv /\ [TeamNext]_teamVars => IInv'
  BY TeamTypeStep, MembersFirstStep, OwnerStep
<1> QED
  BY <1>1, <1>2, PTL DEF TeamSpec

-----------------------------------------------------------------------------
(* The sign-in of one account.                                            *)

\* Whether a code still opens the account: one of a secret that is yet to be made, a
\* later period of the secret in force, or a recovery code of it that is handed out or will
\* be at its confirmation.
Unspent(s, c) == TotpCode(s, c) \in Codes => spent[TotpCode(s, c)] = 0
UnspentRecovery(s, c) == RecoveryCode(s, c) \in Codes => spent[RecoveryCode(s, c)] = 0

CodesInv ==
  /\ enabled => secret # 0
  /\ \A s \in (secrets + 1)..MaxSecret :
       /\ \A c \in 0..(MaxPeriod + 1) : Unspent(s, c)
       /\ \A c \in RecoveryCodes : UnspentRecovery(s, c)
  /\ secret # 0 => \A c \in (last + 1)..(MaxPeriod + 1) : Unspent(secret, c)
  /\ secret # 0 => \A c \in RecoveryCodes : ~enabled \/ c \in codes => UnspentRecovery(secret, c)
  /\ CodesWorkOnce

\* What a session was begun with is of now, or its hash is an earlier password's; once it is
\* let in, its version must be an earlier one too, because the request may set either.
SessionsInv ==
  \A b \in Browsers :
    LET s == browser[b] IN
    /\ s.hash <= password /\ s.version <= version /\ s.mfa <= version
    /\ s.at \in {"password", "pending", "code"} /\ s.hash = password => s.since = resets
    /\ s.at \in {"request", "rotate"} /\ (s.hash = password \/ s.version = version) => s.since = resets
    /\ s.at \in {"in", "saved"} /\ s.hash = password /\ s.version = version => s.since = resets
    /\ s.at # "out" /\ enabled /\ s.mfa = version => s.proved = secret



\* A code that is accepted is counted once more, and no other.
LEMMA AcceptedStep ==
  ASSUME spent \in [Codes -> Nat], NEW code, Accepted(code)
  PROVE  /\ spent' \in [Codes -> Nat]
         /\ \A c \in Codes : spent'[c] = IF c = code THEN spent[c] + 1 ELSE spent[c]
<1>1. spent' = [c \in Codes |-> IF c = code THEN spent[c] + 1 ELSE spent[c]]
  BY DEF Accepted
<1>2. \A c \in Codes : spent[c] \in Nat
  OBVIOUS
<1> QED
  BY <1>1, <1>2

\* The session that each action of a browser leaves.
LEMMA SessionTypes ==
  ASSUME SignInTypeOK, NEW b \in Browsers
  PROVE  /\ \A at \in {"out", "password", "pending", "code", "in", "request", "rotate", "saved"} :
              [browser[b] EXCEPT !.at = at] \in Sessions
         /\ SignedOut \in Sessions
         /\ [SignedOut EXCEPT !.at = "password", !.hash = password, !.since = resets] \in Sessions
         /\ [browser[b] EXCEPT !.at = "in", !.version = version] \in Sessions
         /\ [browser[b] EXCEPT !.at = "in", !.version = version, !.mfa = version, !.proved = secret]
              \in Sessions
         /\ [browser[b] EXCEPT !.at = "saved", !.hash = password + 1] \in Sessions
         /\ [[browser[b] EXCEPT !.version = version + 1, !.mfa = version + 1] EXCEPT !.at = "in"]
              \in Sessions
         /\ [[browser[b] EXCEPT !.version = version + 1, !.mfa = version + 1, !.proved = secret]
               EXCEPT !.at = "in"] \in Sessions
<1>1. /\ browser[b] \in Sessions /\ secret \in Nat
      /\ {password, password + 1, version, version + 1, resets} \subseteq Nat
  BY SignInAssumption DEF SignInTypeOK
<1>2. SignedOut \in Sessions
  BY DEF SignedOut, Sessions
<1> QED
  BY <1>1, <1>2 DEF Sessions

\* What a browser holds after any step is again a session.
LEMMA BrowserTypeStep ==
  ASSUME SignInTypeOK, SignInNext PROVE browser' \in [Browsers -> Sessions]
<1>1. browser \in [Browsers -> Sessions]
  BY DEF SignInTypeOK
<1>2. CASE UNCHANGED browser
  BY <1>1, <1>2
<1>3. ASSUME NEW b \in Browsers, Authenticate(b) PROVE browser' \in [Browsers -> Sessions]
  BY <1>3, <1>1, SessionTypes DEF Authenticate, Put, Answer
<1>4. ASSUME NEW b \in Browsers, FormValid(b) PROVE browser' \in [Browsers -> Sessions]
  BY <1>4, <1>1, SessionTypes DEF FormValid, Put, Answer
<1>5. ASSUME NEW b \in Browsers, SubmitCode(b) PROVE browser' \in [Browsers -> Sessions]
  BY <1>5, <1>1, SessionTypes DEF SubmitCode, Put, Answer
<1>6. ASSUME NEW b \in Browsers, MfaChallenge(b) PROVE browser' \in [Browsers -> Sessions]
  BY <1>6, <1>1, SessionTypes DEF MfaChallenge, Put, Answer
<1>7. ASSUME NEW b \in Browsers, WrongCode(b) PROVE browser' \in [Browsers -> Sessions]
  BY <1>7, <1>1, SessionTypes DEF WrongCode, Put, Answer
<1>8. ASSUME NEW b \in Browsers, SignOut(b) PROVE browser' \in [Browsers -> Sessions]
  BY <1>8, <1>1, SessionTypes DEF SignOut, Put, Answer
<1>9. ASSUME NEW b \in Browsers, Visit(b) PROVE browser' \in [Browsers -> Sessions]
  BY <1>9, <1>1, SessionTypes DEF Visit, Put, Answer
<1>10. ASSUME NEW b \in Browsers, BeginEnrollment(b) PROVE browser' \in [Browsers -> Sessions]
  BY <1>10, <1>1, SessionTypes DEF BeginEnrollment, Put, Answer
<1>11. ASSUME NEW b \in Browsers, ConfirmEnrollment(b) PROVE browser' \in [Browsers -> Sessions]
  BY <1>11, <1>1, SessionTypes DEF ConfirmEnrollment, Put, Answer
<1>12. ASSUME NEW b \in Browsers, DisableMfa(b) PROVE browser' \in [Browsers -> Sessions]
  BY <1>12, <1>1, SessionTypes DEF DisableMfa, Put, Answer
<1>13. ASSUME NEW b \in Browsers, SavePassword(b) PROVE browser' \in [Browsers -> Sessions]
  BY <1>13, <1>1, SessionTypes DEF SavePassword, Put, Answer
<1>14. ASSUME NEW b \in Browsers, PasswordChanged(b) PROVE browser' \in [Browsers -> Sessions]
  BY <1>14, <1>1, SessionTypes DEF PasswordChanged, Put, Answer
<1>15. ASSUME NEW b \in Browsers, OtherPage(b) PROVE browser' \in [Browsers -> Sessions]
  BY <1>15, <1>1, SessionTypes DEF OtherPage, Put, Answer
<1> QED
  BY <1>2, <1>3, <1>4, <1>5, <1>6, <1>7, <1>8, <1>9, <1>10, <1>11, <1>12, <1>13, <1>14, <1>15
     DEF SignInNext, NextPeriod, ResetMemberPassword, RecoverAccount, SetByOther

\* The times a code was accepted are counted by natural numbers.
LEMMA SpentTypeStep ==
  ASSUME SignInTypeOK, SignInNext PROVE spent' \in [Codes -> Nat]
<1> USE AcceptedStep DEF SignInTypeOK
<1>1. CASE UNCHANGED spent
  BY <1>1
<1>2. CASE \E code : Accepted(code)
  BY <1>2
<1>3. ASSUME NEW b \in Browsers, MfaChallenge(b) \/ ConfirmEnrollment(b) \/ DisableMfa(b)
      PROVE  \E code : Accepted(code)
  BY <1>3 DEF MfaChallenge, VerifyChallenge, AcceptTotp, AcceptRecovery, ConfirmEnrollment, DisableMfa
<1> QED
  BY <1>1, <1>2, <1>3 DEF SignInNext, NextPeriod, ResetMemberPassword, RecoverAccount, SetByOther,
     Authenticate, FormValid, SubmitCode, WrongCode, SignOut, Visit, BeginEnrollment, SavePassword,
     PasswordChanged, OtherPage

\* Every step of signing in keeps the types.
LEMMA SignInTypeStep == SignInTypeOK /\ [SignInNext]_signInVars => SignInTypeOK'
<1> SUFFICES ASSUME SignInTypeOK, SignInNext PROVE SignInTypeOK'
  BY DEF SignInTypeOK, signInVars, security
<1>1. browser' \in [Browsers -> Sessions] /\ spent' \in [Codes -> Nat]
  BY BrowserTypeStep, SpentTypeStep
<1>2. {MaxPassword, MaxSecret, MaxPeriod} \subseteq Nat /\ -1 \in -1..(MaxPeriod + 1)
  BY SignInAssumption
<1> USE <1>1, <1>2 DEF SignInTypeOK, security
<1>3. CASE NextPeriod
  BY <1>3 DEF NextPeriod
<1>4. CASE ResetMemberPassword
  BY <1>4 DEF ResetMemberPassword, SetByOther
<1>5. CASE RecoverAccount(TRUE)
  <2>1. last' \in -1..(MaxPeriod+1) /\ codes' \subseteq RecoveryCodes
    BY <1>5 DEF RecoverAccount
  <2>2. secret' \in 0..secrets'
    BY <1>5 DEF RecoverAccount, SetByOther
  <2>3. enabled' \in BOOLEAN
    BY <1>5 DEF RecoverAccount, SetByOther
  <2> QED BY <1>5, <2>1, <2>2, <2>3 DEF RecoverAccount, SetByOther
<1>6. CASE RecoverAccount(FALSE)
  BY <1>6 DEF RecoverAccount, SetByOther
<1>7. ASSUME NEW b \in Browsers, Authenticate(b) PROVE SignInTypeOK'
  BY <1>7 DEF Authenticate
<1>8. ASSUME NEW b \in Browsers, FormValid(b) PROVE SignInTypeOK'
  BY <1>8 DEF FormValid
<1>9. ASSUME NEW b \in Browsers, SubmitCode(b) PROVE SignInTypeOK'
  BY <1>9 DEF SubmitCode
<1>10. ASSUME NEW b \in Browsers, MfaChallenge(b) PROVE SignInTypeOK'
  BY <1>10 DEF MfaChallenge, VerifyChallenge, AcceptTotp, AcceptRecovery, Fresh, Window
<1>11. ASSUME NEW b \in Browsers, WrongCode(b) PROVE SignInTypeOK'
  BY <1>11 DEF WrongCode
<1>12. ASSUME NEW b \in Browsers, SignOut(b) PROVE SignInTypeOK'
  BY <1>12 DEF SignOut
<1>13. ASSUME NEW b \in Browsers, Visit(b) PROVE SignInTypeOK'
  BY <1>13 DEF Visit
<1>14. ASSUME NEW b \in Browsers, BeginEnrollment(b) PROVE SignInTypeOK'
  BY <1>14 DEF BeginEnrollment
<1>15. ASSUME NEW b \in Browsers, ConfirmEnrollment(b) PROVE SignInTypeOK'
  BY <1>15 DEF ConfirmEnrollment, AcceptTotp, Fresh, Window
<1>16. ASSUME NEW b \in Browsers, DisableMfa(b) PROVE SignInTypeOK'
  <2>1. /\ last' = -1 /\ codes' = {} /\ secret' = 0 /\ enabled' = FALSE /\ version' = version + 1
        /\ UNCHANGED <<password, mustChange, period, secrets, resets>>
    BY <1>16 DEF DisableMfa
  <2>2. last' \in -1..(MaxPeriod + 1) /\ secret' \in 0..secrets'
    BY <2>1
  <2>3. enabled' \in BOOLEAN /\ codes' \subseteq RecoveryCodes
    BY <2>1
  <2> QED
    BY <2>1, <2>2, <2>3
<1>17. ASSUME NEW b \in Browsers, SavePassword(b) PROVE SignInTypeOK'
  BY <1>17 DEF SavePassword
<1>18. ASSUME NEW b \in Browsers, PasswordChanged(b) PROVE SignInTypeOK'
  BY <1>18 DEF PasswordChanged
<1>19. ASSUME NEW b \in Browsers, OtherPage(b) PROVE SignInTypeOK'
  BY <1>19 DEF OtherPage
<1> QED
  BY <1>3, <1>4, <1>5, <1>6, <1>7, <1>8, <1>9, <1>10, <1>11, <1>12, <1>13, <1>14, <1>15, <1>16, <1>17, <1>18, <1>19 DEF SignInNext

\* Every step of one browser keeps what the invariant says of every browser's session.
LEMMA SessionsStep ==
  ASSUME SignInTypeOK, SessionsInv, SignInNext PROVE SessionsInv'
<1> SUFFICES ASSUME NEW o \in Browsers
             PROVE  LET s == browser'[o] IN
    /\ s.hash <= password' /\ s.version <= version' /\ s.mfa <= version'
    /\ s.at \in {"password", "pending", "code"} /\ s.hash = password' => s.since = resets'
    /\ s.at \in {"request", "rotate"} /\ (s.hash = password' \/ s.version = version') => s.since = resets'
    /\ s.at \in {"in", "saved"} /\ s.hash = password' /\ s.version = version' => s.since = resets'
    /\ s.at # "out" /\ enabled' /\ s.mfa = version' => s.proved = secret'
  BY DEF SessionsInv
<1>1. /\ browser[o] \in Sessions
      /\ {password, version} \subseteq Nat \ {0} /\ {secret, resets} \subseteq Nat
      /\ browser \in [Browsers -> Sessions]
  BY SignInAssumption DEF SignInTypeOK
<1> USE <1>1 DEF SessionsInv, security
<1>2. CASE NextPeriod
  BY <1>2 DEF NextPeriod
<1>3. CASE ResetMemberPassword \/ RecoverAccount(TRUE) \/ RecoverAccount(FALSE)
  BY <1>3 DEF ResetMemberPassword, RecoverAccount, SetByOther, Sessions
<1>4. ASSUME NEW b \in Browsers, Authenticate(b) PROVE SessionsInv'
  BY <1>4 DEF Authenticate, Put, Answer, Sessions, SignedOut
<1>5. ASSUME NEW b \in Browsers, FormValid(b) PROVE SessionsInv'
  BY <1>5 DEF FormValid, Put, Answer, Sessions
<1>6. ASSUME NEW b \in Browsers, SubmitCode(b) PROVE SessionsInv'
  BY <1>6 DEF SubmitCode, Put, Answer, Sessions
<1>7. ASSUME NEW b \in Browsers, MfaChallenge(b) PROVE SessionsInv'
  BY <1>7 DEF MfaChallenge, Put, Answer, Sessions, VerifyChallenge
<1>8. ASSUME NEW b \in Browsers, WrongCode(b) PROVE SessionsInv'
  BY <1>8 DEF WrongCode, Put, Answer, Sessions
<1>9. ASSUME NEW b \in Browsers, SignOut(b) PROVE SessionsInv'
  BY <1>9 DEF SignOut, Put, Answer, Sessions, SignedOut
<1>10. ASSUME NEW b \in Browsers, Visit(b) PROVE SessionsInv'
  BY <1>10 DEF Visit, Put, Answer, Sessions, Served
<1>11. ASSUME NEW b \in Browsers, BeginEnrollment(b) PROVE SessionsInv'
  BY <1>11 DEF BeginEnrollment, Put, Answer, Sessions
<1>12. ASSUME NEW b \in Browsers, ConfirmEnrollment(b) PROVE SessionsInv'
  BY <1>12 DEF ConfirmEnrollment, Put, Answer, Sessions
<1>13. ASSUME NEW b \in Browsers, DisableMfa(b) PROVE SessionsInv'
  BY <1>13 DEF DisableMfa, Put, Answer, Sessions
<1>14. ASSUME NEW b \in Browsers, SavePassword(b) PROVE SessionsInv'
  BY <1>14 DEF SavePassword, Put, Answer, Sessions
<1>15. ASSUME NEW b \in Browsers, PasswordChanged(b) PROVE SessionsInv'
  BY <1>15 DEF PasswordChanged, Put, Answer, Sessions
<1>16. ASSUME NEW b \in Browsers, OtherPage(b) PROVE SessionsInv'
  BY <1>16 DEF OtherPage, Put, Answer, Sessions
<1> QED
  BY <1>2, <1>3, <1>4, <1>5, <1>6, <1>7, <1>8, <1>9, <1>10, <1>11, <1>12, <1>13, <1>14, <1>15, <1>16 DEF SignInNext

\* A code that is accepted was unspent and is spent now.
LEMMA CodesStep ==
  ASSUME SignInTypeOK, CodesInv, SignInNext PROVE CodesInv'
<1> USE SignInAssumption DEF CodesInv, security
<1>1. CASE UNCHANGED <<enabled, secret, last, codes, secrets, spent>>
  BY <1>1 DEF CodesWorkOnce, Unspent, UnspentRecovery
<1>2. ASSUME NEW b \in Browsers, BeginEnrollment(b) PROVE CodesInv'
  BY <1>2 DEF BeginEnrollment, SignInTypeOK, CodesWorkOnce, Unspent, UnspentRecovery
<1>3. CASE RecoverAccount(TRUE)
  BY <1>3 DEF RecoverAccount, SetByOther, CodesWorkOnce, Unspent, UnspentRecovery
<1>4. ASSUME NEW code \in Codes, Accepted(code) PROVE spent[code] = 0 => CodesWorkOnce'
  BY <1>4, AcceptedStep DEF CodesWorkOnce, SignInTypeOK
<1>5. ASSUME NEW b \in Browsers, NEW counter \in 0..(MaxPeriod + 1), enabled, Fresh(counter),
             enabled', last' = counter, UNCHANGED <<secret, codes, secrets>>,
             Accepted(TotpCode(secret, counter))
      PROVE CodesInv'
  <2>1. TotpCode(secret, counter) \in Codes /\ spent[TotpCode(secret, counter)] = 0
    BY <1>5 DEF SignInTypeOK, Codes, Unspent, Fresh
  <2> QED
    BY <1>4, <1>5, <2>1, AcceptedStep DEF SignInTypeOK, Unspent, UnspentRecovery, TotpCode, RecoveryCode, Fresh
<1>6. ASSUME NEW b \in Browsers, MfaChallenge(b) PROVE CodesInv'
  <2>1. enabled /\ UNCHANGED <<enabled, secret, secrets>>
    BY <1>6 DEF MfaChallenge, VerifyChallenge
  <2>2. CASE UNCHANGED codes /\ \E counter \in Window : AcceptTotp(counter)
    BY <1>5, <2>1, <2>2 DEF AcceptTotp, Fresh, Window, SignInTypeOK
  <2>3. CASE UNCHANGED last /\ \E code \in codes : AcceptRecovery(code)
    <3>1. PICK code \in codes : codes' = codes \ {code} /\ Accepted(RecoveryCode(secret, code))
      BY <2>3 DEF AcceptRecovery
    <3>2. RecoveryCode(secret, code) \in Codes /\ spent[RecoveryCode(secret, code)] = 0
      BY <2>1 DEF SignInTypeOK, Codes, UnspentRecovery
    <3> QED
      BY <1>4, <2>1, <2>3, <3>1, <3>2, AcceptedStep
         DEF SignInTypeOK, Unspent, UnspentRecovery, TotpCode, RecoveryCode
  <2> QED
    BY <1>6, <2>2, <2>3 DEF MfaChallenge, VerifyChallenge
<1>7. ASSUME NEW b \in Browsers, ConfirmEnrollment(b) PROVE CodesInv'
  <2>1. PICK counter \in Window : AcceptTotp(counter)
    BY <1>7 DEF ConfirmEnrollment
  <2>2. /\ ~enabled /\ secret # 0 /\ enabled' /\ codes' = RecoveryCodes
        /\ UNCHANGED <<secret, secrets>>
    BY <1>7 DEF ConfirmEnrollment
  <2>3. TotpCode(secret, counter) \in Codes /\ spent[TotpCode(secret, counter)] = 0
    BY <2>1, <2>2 DEF SignInTypeOK, Codes, Unspent, AcceptTotp, Fresh, Window
  <2>4. /\ counter > last /\ last' = counter /\ counter \in 0..(MaxPeriod + 1)
        /\ \A c \in Codes : c # TotpCode(secret, counter) => spent'[c] = spent[c]
    BY <2>1, AcceptedStep DEF SignInTypeOK, AcceptTotp, Fresh, Window
  <2>5. CodesWorkOnce'
    BY <1>4, <2>1, <2>3 DEF AcceptTotp
  <2>6. \A s \in (secrets + 1)..MaxSecret : s # secret
    BY DEF SignInTypeOK
  <2>7. \A c \in RecoveryCodes : UnspentRecovery(secret, c)'
    BY <2>2, <2>4 DEF UnspentRecovery, TotpCode, RecoveryCode
  <2>8. \A c \in (counter + 1)..(MaxPeriod + 1) : Unspent(secret, c)'
    BY <2>2, <2>4 DEF Unspent, TotpCode, SignInTypeOK
  <2> QED
    BY <2>2, <2>4, <2>5, <2>6, <2>7, <2>8 DEF Unspent, UnspentRecovery, TotpCode, RecoveryCode
<1>8. ASSUME NEW b \in Browsers, DisableMfa(b) PROVE CodesInv'
  <2>1. enabled /\ secret' = 0 /\ enabled' = FALSE /\ UNCHANGED secrets
    BY <1>8 DEF DisableMfa
  <2>2. PICK code : /\ Accepted(code) /\ code \in Codes /\ spent[code] = 0
                    /\ \/ \E counter \in Window : code = TotpCode(secret, counter)
                       \/ \E c \in codes : code = RecoveryCode(secret, c)
    <3>1. CASE \E counter \in Window : Fresh(counter) /\ Accepted(TotpCode(secret, counter))
      BY <2>1, <3>1 DEF SignInTypeOK, Codes, Unspent, Fresh, Window
    <3>2. CASE \E code \in codes : Accepted(RecoveryCode(secret, code))
      BY <2>1, <3>2 DEF SignInTypeOK, Codes, UnspentRecovery
    <3> QED
      BY <1>8, <3>1, <3>2 DEF DisableMfa
  <2> QED
    BY <1>4, <2>1, <2>2, AcceptedStep
       DEF SignInTypeOK, Unspent, UnspentRecovery, TotpCode, RecoveryCode
<1> QED
  BY <1>1, <1>2, <1>3, <1>6, <1>7, <1>8 DEF SignInNext, NextPeriod, ResetMemberPassword,
     RecoverAccount, SetByOther, Authenticate, FormValid, SubmitCode, WrongCode, SignOut, Visit,
     SavePassword, PasswordChanged, OtherPage

\* The account before anybody has signed in.
LEMMA SignInStart == SignInInit => SignInTypeOK /\ CodesInv /\ SessionsInv
<1> SUFFICES ASSUME SignInInit PROVE SignInTypeOK /\ CodesInv /\ SessionsInv
  OBVIOUS
<1> USE SignInAssumption DEF SignInInit
<1>1. SignedOut \in Sessions /\ -1 \in -1..(MaxPeriod + 1)
  BY DEF SignedOut, Sessions
<1>2. SignInTypeOK
  <2>1. /\ last \in -1..(MaxPeriod + 1) /\ codes \subseteq RecoveryCodes
        /\ enabled \in BOOLEAN /\ mustChange \in BOOLEAN
    BY <1>1
  <2>2. browser \in [Browsers -> Sessions] /\ spent \in [Codes -> Nat]
    BY <1>1
  <2> QED
    BY <2>1, <2>2 DEF SignInTypeOK
<1>3. CodesInv
  BY DEF CodesInv, CodesWorkOnce, Unspent, UnspentRecovery
<1>4. SessionsInv
  BY DEF SessionsInv, SignedOut
<1> QED
  BY <1>2, <1>3, <1>4

\* The tables of the account and its sessions hold rows of their models.
THEOREM SignInTypeCorrect == SignInSpec => []SignInTypeOK
  BY SignInStart, SignInTypeStep, PTL DEF SignInSpec

\* No code opens the account twice, with any number of browsers, periods and enrolments
\* (_accept_totp, verify_challenge, confirm_enrollment, disable_mfa).
THEOREM EveryCodeWorksOnce == SignInSpec => []CodesWorkOnce
<1>1. SignInTypeOK /\ CodesInv /\ [SignInNext]_signInVars => CodesInv'
  <2>1. CodesInv /\ UNCHANGED signInVars => CodesInv'
    BY DEF CodesInv, signInVars, security, CodesWorkOnce, Unspent, UnspentRecovery
  <2> QED
    BY <2>1, CodesStep
<1>2. CodesInv => CodesWorkOnce
  BY DEF CodesInv
<1> QED
  BY <1>1, <1>2, SignInStart, SignInTypeStep, PTL DEF SignInSpec

\* Whoever is served has shown what is asked for now: a reset of the password and a change
\* of the second factor end every session of before, open, pending or in a request
\* (FinanceLoginView, mfa_challenge, recover_account, reset_member_password).
THEOREM SessionsServedAreCurrent == SignInSpec => []ServedSessionsAreCurrent
<1>1. SignInTypeOK /\ SessionsInv /\ [SignInNext]_signInVars => SessionsInv'
  <2>1. SessionsInv /\ UNCHANGED signInVars => SessionsInv'
    BY DEF SessionsInv, signInVars, security
  <2> QED
    BY <2>1, SessionsStep
<1>2. SessionsInv => ServedSessionsAreCurrent
  BY DEF SessionsInv, ServedSessionsAreCurrent, Served
<1> QED
  BY <1>1, <1>2, SignInStart, SignInTypeStep, PTL DEF SignInSpec

-----------------------------------------------------------------------------
(* The throttle.                                                           *)

WindowRow == [start : 0..MaxClock, attempts : Nat]
WrittenRows == UNION {[K -> WindowRow] : K \in SUBSET Keys}
Resets == [does : {"reset"}, left : SUBSET Keys]
Attempts == [does : {"find", "lock", "commit"}, login : Logins, at : 1..3, now : 0..MaxClock,
             row : WindowRow \cup {Absent}, wrote : WrittenRows]
Attempt(r) == doing[r].does \in {"find", "lock", "commit"}

ThrottleTypeOK ==
  /\ rows \in [Keys -> WindowRow \cup {Absent}] /\ holder \in [Keys -> Requests \cup {Nobody}]
  /\ granted \in [Keys -> [0..MaxClock -> Nat]] /\ clock \in 0..MaxClock
  /\ doing \in [Requests -> {Idle} \cup Resets \cup Attempts]

\* The committed row of a key is its last window, which counts what was granted in it.
WindowOK(k) ==
  /\ \A t \in 0..MaxClock :
       granted[k][t] <= Limit[k.kind] /\ (granted[k][t] > 0 => t <= rows[k].start)
  /\ \A t, u \in 0..MaxClock : granted[k][t] > 0 /\ granted[k][u] > 0 /\ t < u => u - t >= Seconds
  /\ rows[k] # Absent => granted[k][rows[k].start] = rows[k].attempts /\ rows[k].attempts > 0

Windows == \A k \in Keys : WindowOK(k)

\* `row` follows the committed row of k: one attempt more in its window, or the first of a
\* window that begins at least Seconds later.
Follows(k, row) ==
  /\ row.attempts <= Limit[k.kind]
  /\ \/ rows[k] # Absent /\ row.start = rows[k].start /\ row.attempts = rows[k].attempts + 1
     \/ row.attempts = 1 /\ (rows[k] = Absent \/ row.start - rows[k].start >= Seconds)

\* Who writes a key holds its lock; a row that is missing under one's own lock is the one
\* this transaction is creating.
Locked ==
  \A r \in Requests :
    /\ Attempt(r) => \A k \in DOMAIN doing[r].wrote : holder[k] = r /\ Follows(k, doing[r].wrote[k])
    /\ doing[r].does = "lock" => doing[r].row \in WindowRow
    /\ doing[r].does = "lock" /\ holder[Wanted(r)] = r /\ rows[Wanted(r)] = Absent =>
         doing[r].row.attempts = 0

\* An attempt under way is about a key that exists and has written only windows.
LEMMA AttemptType ==
  ASSUME ThrottleTypeOK, NEW r \in Requests, Attempt(r)
  PROVE  /\ doing[r] \in Attempts /\ Wanted(r) \in Keys
         /\ DOMAIN doing[r].wrote \subseteq Keys /\ \A k \in DOMAIN doing[r].wrote : doing[r].wrote[k] \in WindowRow
<1>1. doing[r] \in Attempts
  BY DEF ThrottleTypeOK, Attempt, Idle, Resets
<1>2. doing[r].login \in Logins /\ doing[r].at \in 1..3
  BY <1>1 DEF Attempts
<1>3. Wanted(r) \in Keys
  BY <1>2, ThrottleAssumption DEF Wanted, KeysOf, Keys
<1>4. doing[r].wrote \in WrittenRows
  BY <1>1 DEF Attempts
<1> QED
  BY <1>1, <1>3, <1>4 DEF WrittenRows

\* Every key has a limit, of at least one request.
LEMMA LimitType == \A k \in Keys : Limit[k.kind] \in Nat \ {0}
  BY ThrottleAssumption DEF Keys, Key

\* A transaction that has written nothing.
LEMMA EmptyWritten == <<>> \in WrittenRows
<1>1. <<>> \in [{} -> WindowRow]
  OBVIOUS
<1> QED
  BY <1>1 DEF WrittenRows

\* A transaction that writes one more window.
LEMMA MoreWritten ==
  ASSUME NEW k \in Keys, NEW row \in WindowRow, NEW w \in WrittenRows
  PROVE  Also(k, row, w) \in WrittenRows
<1>1. PICK K \in SUBSET Keys : w \in [K -> WindowRow]
  BY DEF WrittenRows
<1>2. Also(k, row, w) \in [K \cup {k} -> WindowRow]
  BY <1>1 DEF Also
<1> QED
  BY <1>1, <1>2 DEF WrittenRows

\* What is counted follows the committed row.
LEMMA RenewedFollows ==
  ASSUME ThrottleTypeOK, Windows, Locked, NEW r \in Requests, doing[r].does = "lock",
         rows[Wanted(r)] # Absent \/ holder[Wanted(r)] = r
  PROVE  /\ Renewed(r) \in WindowRow
         /\ Renewed(r).attempts < Limit[Wanted(r).kind] =>
              Follows(Wanted(r), [Renewed(r) EXCEPT !.attempts = @ + 1])
<1> DEFINE k == Wanted(r)
<1>1. k \in Keys /\ doing[r] \in Attempts /\ Limit[k.kind] \in Nat \ {0}
  BY AttemptType, LimitType DEF Attempt
<1>2. doing[r].now \in 0..MaxClock /\ doing[r].row \in WindowRow
  BY <1>1 DEF Attempts, Locked
<1>3. CASE rows[k] # Absent
  <2>1. LockedRow(r) = rows[k] /\ rows[k] \in WindowRow
    BY <1>1, <1>3 DEF LockedRow, ThrottleTypeOK
  <2> QED
    BY <1>1, <1>2, <1>3, <2>1, ThrottleAssumption DEF Renewed, Follows, WindowRow
<1>4. CASE rows[k] = Absent
  <2>1. LockedRow(r) = doing[r].row /\ doing[r].row.attempts = 0
    BY <1>4 DEF LockedRow, Locked
  <2> QED
    BY <1>1, <1>2, <1>4, <2>1, ThrottleAssumption DEF Renewed, Follows, WindowRow
<1> QED
  BY <1>3, <1>4

\* A request that ends gives up its locks and leaves the others as they are.
LEMMA EndType ==
  ASSUME ThrottleTypeOK, NEW r \in Requests, End(r)
  PROVE  /\ holder' \in [Keys -> Requests \cup {Nobody}]
         /\ doing' \in [Requests -> {Idle} \cup Resets \cup Attempts]
         /\ doing'[r] = Idle /\ \A s \in Requests : s # r => doing'[s] = doing[s]
         /\ \A k \in Keys : holder'[k] = IF holder[k] = r THEN Nobody ELSE holder[k]
  BY DEF ThrottleTypeOK, End

\* Every step of the throttle keeps the types.
LEMMA ThrottleTypeStep == ThrottleTypeOK /\ Windows /\ Locked /\ ThrottleNext => ThrottleTypeOK'
<1> SUFFICES ASSUME ThrottleTypeOK, Windows, Locked, ThrottleNext PROVE ThrottleTypeOK'
  OBVIOUS
<1>1. ASSUME NEW r \in Requests, NEW l \in Logins, BeginAttempt(r, l) PROVE ThrottleTypeOK'
  <2>1. [does |-> "find", login |-> l, at |-> 1, now |-> 0, row |-> Absent, wrote |-> <<>>] \in Attempts
    BY EmptyWritten, ThrottleAssumption DEF Attempts
  <2> QED
    BY <1>1, <2>1 DEF BeginAttempt, ThrottleTypeOK
<1>2. ASSUME NEW r \in Requests, NEW l \in Logins, BeginReset(r, l) PROVE ThrottleTypeOK'
  <2>1. ResetKeys(l) \subseteq Keys
    BY ThrottleAssumption DEF ResetKeys, Keys
  <2>2. [does |-> "reset", left |-> {k \in ResetKeys(l) : rows[k] # Absent}] \in Resets
    BY <2>1 DEF Resets
  <2> QED
    BY <1>2, <2>2 DEF BeginReset, ThrottleTypeOK
<1>3. ASSUME NEW r \in Requests, Find(r) PROVE ThrottleTypeOK'
  <2>1. doing[r] \in Attempts /\ Wanted(r) \in Keys
    BY <1>3, AttemptType DEF Find, Attempt
  <2>2. (IF rows[Wanted(r)] # Absent THEN rows[Wanted(r)] ELSE [start |-> clock, attempts |-> 0]) \in WindowRow
    BY <2>1 DEF ThrottleTypeOK, WindowRow
  <2>3. [doing[r] EXCEPT !.does = "lock", !.now = clock,
           !.row = IF rows[Wanted(r)] # Absent THEN rows[Wanted(r)] ELSE [start |-> clock, attempts |-> 0]]
          \in Attempts
    BY <2>1, <2>2 DEF ThrottleTypeOK, Attempts
  <2>4. doing' \in [Requests -> {Idle} \cup Resets \cup Attempts]
    BY <1>3, <2>3 DEF Find, ThrottleTypeOK
  <2> QED
    BY <1>3, <2>1, <2>4 DEF Find, ThrottleTypeOK
<1>4. ASSUME NEW r \in Requests, Vanished(r) \/ Abort(r) PROVE ThrottleTypeOK'
  BY <1>4, EndType DEF Vanished, Abort, ThrottleTypeOK
<1>5. ASSUME NEW r \in Requests, Count(r) PROVE ThrottleTypeOK'
  <2> DEFINE row == [Renewed(r) EXCEPT !.attempts = @ + 1]
  <2>1. doing[r] \in Attempts /\ Wanted(r) \in Keys /\ doing[r].wrote \in WrittenRows
    BY <1>5, AttemptType DEF Count, Attempt, Attempts
  <2>2. row \in WindowRow
    <3>1. Renewed(r) \in WindowRow
      BY <1>5, RenewedFollows DEF Count
    <3> QED
      BY <3>1 DEF WindowRow
  <2>3. Also(Wanted(r), row, doing[r].wrote) \in WrittenRows
    BY <2>1, <2>2, MoreWritten
  <2>4. [doing[r] EXCEPT !.wrote = Also(Wanted(r), row, doing[r].wrote),
           !.does = IF doing[r].at = 3 THEN "commit" ELSE "find",
           !.at = IF doing[r].at = 3 THEN 3 ELSE @ + 1, !.now = 0, !.row = Absent] \in Attempts
    <3>1. doing[r].at \in 1..3 /\ (IF doing[r].at = 3 THEN 3 ELSE doing[r].at + 1) \in 1..3
      BY <2>1 DEF Attempts
    <3>2. 0 \in 0..MaxClock
      BY ThrottleAssumption
    <3> QED
      BY <2>1, <2>3, <3>1, <3>2 DEF Attempts
  <2>5. doing' \in [Requests -> {Idle} \cup Resets \cup Attempts]
    BY <1>5, <2>4 DEF Count, ThrottleTypeOK
  <2> QED
    BY <1>5, <2>1, <2>5 DEF Count, ThrottleTypeOK
<1>6. ASSUME NEW r \in Requests, Refuse(r) PROVE ThrottleTypeOK'
  <2>1. [doing[r] EXCEPT !.does = "commit", !.now = 0, !.row = Absent] \in Attempts
    <3>1. doing[r] \in Attempts
      BY <1>6, AttemptType DEF Refuse, Attempt
    <3>2. 0 \in 0..MaxClock
      BY ThrottleAssumption
    <3> QED
      BY <3>1, <3>2 DEF Attempts
  <2> QED
    BY <1>6, <2>1 DEF Refuse, ThrottleTypeOK
<1>7. ASSUME NEW r \in Requests, CommitAttempt(r) PROVE ThrottleTypeOK'
  <2>1. Attempt(r)
    BY <1>7 DEF CommitAttempt, Attempt
  <2>2. \A k \in DOMAIN doing[r].wrote : doing[r].wrote[k] \in WindowRow
    BY <2>1, AttemptType
  <2>3. rows' \in [Keys -> WindowRow \cup {Absent}]
    BY <1>7, <2>2 DEF CommitAttempt, ThrottleTypeOK
  <2>4. granted' \in [Keys -> [0..MaxClock -> Nat]]
    <3>1. \A f \in [0..MaxClock -> Nat], t \in 0..MaxClock : [f EXCEPT ![t] = @ + 1] \in [0..MaxClock -> Nat]
      OBVIOUS
    <3>2. ASSUME NEW k \in Keys, k \in DOMAIN doing[r].wrote
          PROVE  [granted[k] EXCEPT ![doing[r].wrote[k].start] = @ + 1] \in [0..MaxClock -> Nat]
      <4>1. granted[k] \in [0..MaxClock -> Nat] /\ doing[r].wrote[k].start \in 0..MaxClock
        BY <2>2, <3>2 DEF ThrottleTypeOK, WindowRow
      <4> QED
        BY <3>1, <4>1
    <3> QED
      BY <1>7, <3>2 DEF CommitAttempt, ThrottleTypeOK
  <2> QED
    BY <1>7, <2>3, <2>4, EndType DEF CommitAttempt, ThrottleTypeOK
<1>8. ASSUME NEW r \in Requests, NEW k \in Keys, Delete(r, k) PROVE ThrottleTypeOK'
  <2>1. doing[r] \in Resets
    <3>1. doing[r] \in {Idle} \cup Resets \cup Attempts /\ doing[r].does = "reset"
      BY <1>8 DEF Delete, ThrottleTypeOK
    <3>2. \A d \in Attempts : d.does # "reset"
      BY DEF Attempts
    <3> QED
      BY <3>1, <3>2 DEF Idle
  <2>2. [doing[r] EXCEPT !.left = @ \ {k}] \in Resets
    BY <2>1 DEF Resets
  <2> QED
    BY <1>8, <2>2 DEF Delete, ThrottleTypeOK
<1>9. ASSUME NEW r \in Requests, CommitReset(r) PROVE ThrottleTypeOK'
  <2>1. [t \in 0..MaxClock |-> 0] \in [0..MaxClock -> Nat]
    OBVIOUS
  <2> QED
    BY <1>9, <2>1, EndType DEF CommitReset, ThrottleTypeOK
<1>10. CASE Tick
  BY <1>10, ThrottleAssumption DEF Tick, ThrottleTypeOK
<1> QED
  BY <1>1, <1>2, <1>3, <1>4, <1>5, <1>6, <1>7, <1>8, <1>9, <1>10 DEF ThrottleNext

\* A commit counts one attempt in the row that follows the committed one.
LEMMA CommitWindows ==
  ASSUME ThrottleTypeOK, Windows, Locked, NEW r \in Requests, CommitAttempt(r) PROVE Windows'
<1>1. /\ Attempt(r) /\ DOMAIN doing[r].wrote \subseteq Keys
      /\ \A k \in DOMAIN doing[r].wrote : doing[r].wrote[k] \in WindowRow /\ Follows(k, doing[r].wrote[k])
  BY AttemptType DEF CommitAttempt, Attempt, Locked
<1> SUFFICES ASSUME NEW k \in Keys PROVE WindowOK(k)'
  BY DEF Windows
<1>2. WindowOK(k)
  BY DEF Windows
<1>3. CASE k \notin DOMAIN doing[r].wrote
  BY <1>2, <1>3 DEF CommitAttempt, WindowOK
<1>4. CASE k \in DOMAIN doing[r].wrote
  <2> DEFINE new == doing[r].wrote[k]
  <2>1. /\ rows'[k] = new /\ new.start \in 0..MaxClock /\ new.attempts \in Nat /\ Follows(k, new)
        /\ granted'[k] = [granted[k] EXCEPT ![new.start] = @ + 1]
    BY <1>1, <1>4 DEF CommitAttempt, WindowRow
  <2>2. /\ granted[k] \in [0..MaxClock -> Nat] /\ Limit[k.kind] \in Nat \ {0} /\ Seconds \in Nat \ {0}
        /\ rows[k] = Absent => rows[k].start = -1
    BY LimitType, ThrottleAssumption DEF ThrottleTypeOK, Absent
  <2>3. rows[k] # Absent => rows[k].start \in 0..MaxClock /\ rows[k].attempts \in Nat
    BY DEF ThrottleTypeOK, WindowRow
  <2>4. \A t \in 0..MaxClock : granted'[k][t] = IF t = new.start THEN granted[k][t] + 1 ELSE granted[k][t]
    BY <2>1, <2>2
  <2>5. \A t \in 0..MaxClock : granted[k][t] \in Nat
    BY <2>2
  <2> HIDE DEF new
  <2>6. /\ granted[k][new.start] + 1 = new.attempts
        /\ \A t \in 0..MaxClock : granted[k][t] > 0 => t = new.start \/ new.start - t >= Seconds
    <3>1. CASE rows[k] = Absent
      <4>1. \A t \in 0..MaxClock : granted[k][t] > 0 => t <= -1
        BY <1>2, <2>2, <3>1 DEF WindowOK
      <4>2. \A t \in 0..MaxClock : granted[k][t] = 0
        BY <2>5, <4>1, ThrottleAssumption
      <4>3. new.attempts = 1
        BY <2>1, <3>1 DEF Follows
      <4> QED
        BY <2>1, <4>2, <4>3
    <3>2. CASE rows[k] # Absent /\ new.start = rows[k].start /\ new.attempts = rows[k].attempts + 1
      <4>1. granted[k][new.start] = rows[k].attempts
        BY <1>2, <3>2 DEF WindowOK
      <4>2. \A t \in 0..MaxClock : granted[k][t] > 0 => t <= new.start /\ (t < new.start => new.start - t >= Seconds)
        BY <1>2, <2>1, <2>3, <3>2, <4>1 DEF WindowOK
      <4> QED
        BY <2>1, <3>2, <4>1, <4>2, ThrottleAssumption
    <3>3. CASE rows[k] # Absent /\ new.attempts = 1 /\ new.start - rows[k].start >= Seconds
      <4>1. \A t \in 0..MaxClock : granted[k][t] > 0 => t <= rows[k].start
        BY <1>2 DEF WindowOK
      <4>2. \A t \in 0..MaxClock : granted[k][t] > 0 => new.start - t >= Seconds
        BY <2>1, <2>2, <2>3, <3>3, <4>1, ThrottleAssumption
      <4>3. granted[k][new.start] = 0
        BY <2>1, <2>2, <2>5, <4>2
      <4> QED
        BY <2>1, <3>3, <4>2, <4>3
    <3> QED
      BY <2>1, <3>1, <3>2, <3>3 DEF Follows
  <2>7. new.attempts <= Limit[k.kind]
    BY <2>1 DEF Follows
  <2>8. \A t \in 0..MaxClock : granted'[k][t] <= Limit[k.kind] /\ (granted'[k][t] > 0 => t <= new.start)
    <3>1. \A t \in 0..MaxClock : granted[k][t] <= Limit[k.kind]
      BY <1>2 DEF WindowOK
    <3> QED
      BY <2>1, <2>2, <2>4, <2>5, <2>6, <2>7, <3>1, ThrottleAssumption
  <2>9. \A t, u \in 0..MaxClock : granted'[k][t] > 0 /\ granted'[k][u] > 0 /\ t < u => u - t >= Seconds
    <3>1. \A t, u \in 0..MaxClock : granted[k][t] > 0 /\ granted[k][u] > 0 /\ t < u => u - t >= Seconds
      BY <1>2 DEF WindowOK
    <3> SUFFICES ASSUME NEW t \in 0..MaxClock, NEW u \in 0..MaxClock,
                        granted'[k][t] > 0, granted'[k][u] > 0, t < u
                 PROVE  u - t >= Seconds
      OBVIOUS
    <3>2. CASE u = new.start
      BY <2>4, <2>5, <2>6, <3>2
    <3>3. CASE u # new.start /\ t # new.start
      BY <2>4, <2>5, <3>1, <3>3
    <3>4. CASE u # new.start /\ t = new.start
      <4>1. granted[k][u] > 0
        BY <2>4, <3>4
      <4>2. new.start - u >= Seconds
        BY <2>6, <3>4, <4>1
      <4> QED
        BY <2>1, <2>2, <3>4, <4>2
    <3> QED
      BY <3>2, <3>3, <3>4
  <2>10. granted'[k][new.start] = new.attempts /\ new.attempts > 0
    BY <2>1, <2>4, <2>5, <2>6
  <2> QED
    BY <2>1, <2>8, <2>9, <2>10 DEF WindowOK
<1> QED
  BY <1>3, <1>4

\* A reset begins the counts of its keys anew.
LEMMA ResetWindows ==
  ASSUME ThrottleTypeOK, Windows, NEW r \in Requests, CommitReset(r) PROVE Windows'
<1> SUFFICES ASSUME NEW k \in Keys PROVE WindowOK(k)'
  BY DEF Windows
<1>1. CASE k \notin Holds(r)
  BY <1>1 DEF CommitReset, Windows, WindowOK
<1>2. CASE k \in Holds(r)
  BY <1>2, LimitType DEF CommitReset, WindowOK
<1> QED
  BY <1>1, <1>2

\* The windows change only when an attempt commits its row or a reset deletes it.
LEMMA WindowsStep == ThrottleTypeOK /\ Windows /\ Locked /\ ThrottleNext => Windows'
<1> SUFFICES ASSUME ThrottleTypeOK, Windows, Locked, ThrottleNext PROVE Windows'
  OBVIOUS
<1>1. CASE UNCHANGED <<rows, granted>>
  BY <1>1 DEF Windows, WindowOK
<1> QED
  BY <1>1, CommitWindows, ResetWindows DEF ThrottleNext, BeginAttempt, BeginReset, Find, Vanished, Count,
     Refuse, Delete, Abort, Tick

\* The locks of one transaction, as another one leaves them.
LockedBy(r) ==
    /\ Attempt(r) => \A k \in DOMAIN doing[r].wrote : holder[k] = r /\ Follows(k, doing[r].wrote[k])
    /\ doing[r].does = "lock" => doing[r].row \in WindowRow
    /\ doing[r].does = "lock" /\ holder[Wanted(r)] = r /\ rows[Wanted(r)] = Absent =>
         doing[r].row.attempts = 0

\* What another transaction does to rows it holds, and to locks that are free, is no
\* matter to this one.
LEMMA OthersStep ==
  ASSUME ThrottleTypeOK, NEW s \in Requests, LockedBy(s), doing'[s] = doing[s],
         \A k \in Keys : holder[k] = s <=> holder'[k] = s,
         \A k \in Keys : holder[k] = s => rows'[k] = rows[k]
  PROVE  LockedBy(s)'
<1>1. Wanted(s)' = Wanted(s) /\ Attempt(s)' = Attempt(s)
  BY DEF Wanted, Attempt
<1>2. CASE Attempt(s)
  BY <1>1, <1>2, AttemptType DEF LockedBy, Follows
<1>3. CASE ~Attempt(s)
  BY <1>1, <1>3 DEF LockedBy, Attempt
<1> QED
  BY <1>2, <1>3

\* A step of one request keeps what the others have locked.
LEMMA LockedStep == ThrottleTypeOK /\ Windows /\ Locked /\ ThrottleNext => Locked'
<1> SUFFICES ASSUME ThrottleTypeOK, Windows, Locked, ThrottleNext, NEW s \in Requests PROVE LockedBy(s)'
  BY DEF Locked, LockedBy
<1>1. LockedBy(s)
  BY DEF Locked, LockedBy
<1>2. ASSUME NEW r \in Requests, End(r), \A k \in Keys : holder[k] # r => rows'[k] = rows[k] PROVE LockedBy(s)'
  <2>1. CASE s = r
    BY <1>2, <2>1, EndType DEF LockedBy, Attempt, Idle
  <2>2. CASE s # r
    <3>1. Nobody # s
      BY ThrottleAssumption DEF Nobody
    <3>2. doing'[s] = doing[s] /\ \A k \in Keys : holder[k] = s <=> holder'[k] = s
      BY <1>2, <2>2, <3>1, EndType
    <3>3. \A k \in Keys : holder[k] = s => rows'[k] = rows[k]
      BY <1>2, <2>2
    <3> QED
      BY <1>1, <3>2, <3>3, OthersStep
  <2> QED
    BY <2>1, <2>2
<1>3. ASSUME NEW r \in Requests, s # r, UNCHANGED rows, doing'[s] = doing[s],
             holder' = holder \/ \E k \in Keys : Free(k, r) /\ holder' = [holder EXCEPT ![k] = r]
      PROVE  LockedBy(s)'
  <2>1. \A k \in Keys : holder[k] = s <=> holder'[k] = s
    BY <1>3, ThrottleAssumption DEF Free, Nobody, ThrottleTypeOK
  <2> QED
    BY <1>1, <1>3, <2>1, OthersStep
<1>4. \A r \in Requests : \A d : s # r /\ doing' = [doing EXCEPT ![r] = d] => doing'[s] = doing[s]
  OBVIOUS
<1>5. doing \in [Requests -> {Idle} \cup Resets \cup Attempts]
  BY DEF ThrottleTypeOK
<1>6. ASSUME NEW r \in Requests, NEW l \in Logins, BeginAttempt(r, l) \/ BeginReset(r, l) PROVE LockedBy(s)'
  <2>1. CASE s = r
    BY <1>5, <1>6, <2>1 DEF BeginAttempt, BeginReset, LockedBy, Attempt
  <2>2. CASE s # r
    BY <1>3, <1>4, <1>6, <2>2 DEF BeginAttempt, BeginReset
  <2> QED
    BY <2>1, <2>2
<1>7. ASSUME NEW r \in Requests, Find(r) PROVE LockedBy(s)'
  <2>1. doing[r] \in Attempts /\ Wanted(r) \in Keys /\ Attempt(r)
    BY <1>7, AttemptType DEF Find, Attempt
  <2>2. CASE s = r
    <3>1. /\ doing'[r].does = "lock" /\ doing'[r].wrote = doing[r].wrote /\ Wanted(r)' = Wanted(r)
          /\ doing'[r].row = IF rows[Wanted(r)] # Absent THEN rows[Wanted(r)] ELSE [start |-> clock, attempts |-> 0]
          /\ rows' = rows
      BY <1>5, <1>7, <2>1 DEF Find, Attempts, Wanted
    <3>2. doing'[r].row \in WindowRow
      BY <2>1, <3>1 DEF ThrottleTypeOK, WindowRow
    <3>3. \A k \in Keys : holder[k] = r => holder'[k] = r
      BY <1>7, <2>1 DEF Find, ThrottleTypeOK
    <3>4. \A k \in DOMAIN doing[r].wrote : k \in Keys
      BY <2>1, AttemptType
    <3> QED
      BY <1>1, <2>1, <2>2, <3>1, <3>2, <3>3, <3>4 DEF LockedBy, Follows
  <2>3. CASE s # r
    <3>1. doing'[s] = doing[s] /\ UNCHANGED rows
      BY <1>5, <1>7, <2>3 DEF Find
    <3>2. holder' = holder \/ (Free(Wanted(r), r) /\ holder' = [holder EXCEPT ![Wanted(r)] = r])
      <4>1. CASE rows[Wanted(r)] # Absent
        BY <1>7, <4>1 DEF Find
      <4>2. CASE rows[Wanted(r)] = Absent
        BY <1>7, <4>2 DEF Find, Free
      <4> QED
        BY <4>1, <4>2
    <3> QED
      BY <1>3, <2>1, <2>3, <3>1, <3>2
  <2> QED
    BY <2>2, <2>3
<1>8. ASSUME NEW r \in Requests, Count(r) PROVE LockedBy(s)'
  <2>1. doing[r] \in Attempts /\ Wanted(r) \in Keys /\ Attempt(r)
    BY <1>8, AttemptType DEF Count, Attempt
  <2>2. CASE s = r
    <3> DEFINE row == [Renewed(r) EXCEPT !.attempts = @ + 1]
    <3>1. /\ doing'[r].does # "lock" /\ doing'[r].wrote = Also(Wanted(r), row, doing[r].wrote)
          /\ rows' = rows /\ holder' = [holder EXCEPT ![Wanted(r)] = r]
      BY <1>5, <1>8, <2>1 DEF Count, Attempts
    <3>2. Follows(Wanted(r), row)
      BY <1>8, RenewedFollows DEF Count
    <3>3. \A k \in DOMAIN doing'[r].wrote :
            /\ k \in Keys
            /\ IF k = Wanted(r) THEN doing'[r].wrote[k] = row ELSE k \in DOMAIN doing[r].wrote /\ doing'[r].wrote[k] = doing[r].wrote[k]
      BY <2>1, <3>1, AttemptType DEF Also
    <3>4. \A k \in Keys : holder'[k] = IF k = Wanted(r) THEN r ELSE holder[k]
      BY <2>1, <3>1 DEF ThrottleTypeOK
    <3>5. \A k \in DOMAIN doing'[r].wrote : holder'[k] = r /\ Follows(k, doing'[r].wrote[k])
      BY <1>1, <2>1, <2>2, <3>2, <3>3, <3>4 DEF LockedBy
    <3> QED
      BY <2>2, <3>1, <3>5 DEF LockedBy, Follows
  <2>3. CASE s # r
    <3>1. doing'[s] = doing[s] /\ UNCHANGED rows
      BY <1>5, <1>8, <2>3 DEF Count
    <3>2. Free(Wanted(r), r) /\ holder' = [holder EXCEPT ![Wanted(r)] = r]
      BY <1>8 DEF Count
    <3> QED
      BY <1>3, <2>1, <2>3, <3>1, <3>2
  <2> QED
    BY <2>2, <2>3
<1>9. ASSUME NEW r \in Requests, Refuse(r) PROVE LockedBy(s)'
  <2>1. doing[r] \in Attempts /\ Attempt(r)
    BY <1>9, AttemptType DEF Refuse, Attempt
  <2>2. CASE s = r
    <3>1. /\ doing'[r].does = "commit" /\ doing'[r].wrote = doing[r].wrote /\ rows' = rows /\ holder' = holder
      BY <1>5, <1>9, <2>1 DEF Refuse, Attempts
    <3> QED
      BY <1>1, <2>1, <2>2, <3>1 DEF LockedBy, Follows
  <2>3. CASE s # r
    <3>1. doing'[s] = doing[s] /\ UNCHANGED <<rows, holder>>
      BY <1>5, <1>9, <2>3 DEF Refuse
    <3> QED
      BY <1>3, <2>3, <3>1
  <2> QED
    BY <2>2, <2>3
<1>10. ASSUME NEW r \in Requests, NEW k \in Keys, Delete(r, k) PROVE LockedBy(s)'
  <2>1. CASE s = r
    <3>1. doing'[r].does = "reset"
      BY <1>5, <1>10 DEF Delete, Resets, Attempts, Idle
    <3> QED
      BY <2>1, <3>1 DEF LockedBy, Attempt
  <2>2. CASE s # r
    <3>1. holder' = holder \/ holder' = [holder EXCEPT ![k] = r]
      BY <1>10 DEF Delete, ThrottleTypeOK
    <3> QED
      BY <1>3, <1>4, <1>10, <2>2, <3>1 DEF Delete
  <2> QED
    BY <2>1, <2>2
<1>11. ASSUME NEW r \in Requests, Vanished(r) \/ Abort(r) PROVE LockedBy(s)'
  BY <1>2, <1>11 DEF Vanished, Abort
<1>12. ASSUME NEW r \in Requests, CommitAttempt(r) PROVE LockedBy(s)'
  <2>1. \A k \in Keys : holder[k] # r => rows'[k] = rows[k]
    BY <1>12 DEF CommitAttempt, Locked, Attempt
  <2> QED
    BY <1>2, <1>12, <2>1 DEF CommitAttempt
<1>13. ASSUME NEW r \in Requests, CommitReset(r) PROVE LockedBy(s)'
  <2>1. \A k \in Keys : holder[k] # r => rows'[k] = rows[k]
    BY <1>13 DEF CommitReset, Holds
  <2> QED
    BY <1>2, <1>13, <2>1 DEF CommitReset
<1>14. CASE Tick
  BY <1>1, <1>14 DEF Tick, LockedBy, Attempt, Follows, Wanted
<1> QED
  BY <1>6, <1>7, <1>8, <1>9, <1>10, <1>11, <1>12, <1>13, <1>14 DEF ThrottleNext

\* A step of anybody else leaves all this as it is.
LEMMA ThrottleStutter ==
  ThrottleTypeOK /\ Windows /\ Locked /\ UNCHANGED throttleVars => ThrottleTypeOK' /\ Windows' /\ Locked'
<1> SUFFICES ASSUME ThrottleTypeOK, Windows, Locked, UNCHANGED throttleVars
             PROVE  ThrottleTypeOK' /\ Windows' /\ Locked'
  OBVIOUS
<1>1. ThrottleTypeOK' /\ Windows'
  BY DEF throttleVars, ThrottleTypeOK, Windows, WindowOK
<1>2. Locked'
  BY DEF throttleVars, Locked, Attempt, Follows, Wanted
<1> QED
  BY <1>1, <1>2

\* No window of an address, an account or a pair lets more attempts through than its limit,
\* whatever transactions arrive together, wait for each other, are rolled back or meet a
\* reset (allow_login_attempt, reset_login_attempts).
THEOREM QuotasAlwaysHold == ThrottleSpec => []QuotasHold
<1>1. ThrottleInit => ThrottleTypeOK /\ Windows /\ Locked
  <2> SUFFICES ASSUME ThrottleInit PROVE ThrottleTypeOK /\ Windows /\ Locked
    OBVIOUS
  <2>1. ThrottleTypeOK
    BY ThrottleAssumption DEF ThrottleInit, ThrottleTypeOK
  <2>2. Windows
    BY LimitType DEF ThrottleInit, Windows, WindowOK
  <2>3. Locked
    BY DEF ThrottleInit, Locked, Attempt, Idle
  <2> QED
    BY <2>1, <2>2, <2>3
<1>2. ThrottleTypeOK /\ Windows /\ Locked /\ [ThrottleNext]_throttleVars => (ThrottleTypeOK /\ Windows /\ Locked)'
  BY ThrottleTypeStep, WindowsStep, LockedStep, ThrottleStutter
<1>3. Windows => QuotasHold
  <2> SUFFICES ASSUME Windows, NEW k \in Keys
               PROVE  /\ \A t \in 0..MaxClock : granted[k][t] <= Limit[k.kind]
                      /\ \A t, u \in {t \in 0..MaxClock : granted[k][t] > 0} : t < u => u - t >= Seconds
    BY DEF QuotasHold
  <2> QED
    BY DEF Windows, WindowOK
<1> QED
  BY <1>1, <1>2, <1>3, PTL DEF ThrottleSpec

-----------------------------------------------------------------------------
(* The archive and its copies. *)

Held(r) == upload[r].stored \cup upload[r].saving

\* The organization's lock: one transaction at a time, for something not yet archived.
Lock ==
  /\ \A r, s \in Uploads : upload[r].step = "open" /\ upload[s].step = "open" => r = s
  /\ \A r \in Uploads : upload[r].step = "open" =>
       upload[r].bundle \in Bundles /\ Admissible(upload[r].bundle)

Accounted ==
  \A x \in Names : x \in files <=>
    \/ \E a \in archive \ unheard : x \in a.names
    \/ \E r \in Uploads : x \in Held(r)
    \/ x \in lost

\* The files of an attempt are its own, and no row's that is sure of them. An open one's are
\* no row's at all.
Apart ==
  /\ \A r \in Uploads :
       /\ Held(r) \cap lost = {}
       /\ \A a \in archive \ unheard : Held(r) \cap a.names = {}
       /\ upload[r].step = "open" => \A a \in archive : Held(r) \cap a.names = {}
  /\ \A r, s \in Uploads : r # s => Held(r) \cap Held(s) = {}

\* Only an open attempt saves, and what it saves is not yet remembered.
Saving ==
  \A r \in Uploads : /\ upload[r].stored \cap upload[r].saving = {}
                     /\ upload[r].step # "open" => upload[r].saving = {}

Rows ==
  /\ \A a \in archive : Cardinality(a.names) = a.bundle.size
  /\ \A a, b \in archive : a # b =>
       /\ a.names \cap b.names = {} /\ a.bundle.months \cap b.bundle.months = {}
       /\ a.bundle.source # b.bundle.source

ArchInv == ArchiveTypeOK /\ Lock /\ Accounted /\ Apart /\ Saving /\ Rows

\* A upload whose transaction begins has no files yet.
LEMMA BeginStep ==
  ASSUME ArchInv, NEW r \in Uploads, NEW b \in Bundles, Begin(r, b) PROVE ArchInv'
<1> USE DEF ArchInv, ArchiveTypeOK, Begin, NoUpload
<1>1. ArchiveTypeOK'
  OBVIOUS
<1>2. Lock'
  BY DEF Lock, Unlocked, Admissible
<1>3. \A s \in Uploads : Held(s)' = Held(s)
  BY DEF Held
<1>4. Held(r) = {} /\ \A s \in Uploads : s # r => upload'[s] = upload[s]
  BY DEF Held
<1>5. Accounted'
  BY <1>3 DEF Accounted
<1>6. Apart'
  BY <1>3, <1>4 DEF Apart
<1>7. Rows' /\ Saving'
  BY <1>4 DEF Rows, Saving, Held
<1> QED
  BY <1>1, <1>2, <1>5, <1>6, <1>7

\* A new name is nobody's, and becomes this attempt's.
LEMMA SaveStep ==
  ASSUME ArchInv, NEW r \in Uploads, NEW name \in Names, Save(r, name) PROVE ArchInv'
<1> USE DEF ArchInv, ArchiveTypeOK, Save
<1>1. ArchiveTypeOK'
  OBVIOUS
<1>2. Lock'
  BY DEF Lock, Admissible
<1>3. \A s \in Uploads : /\ Held(s)' = IF s = r THEN Held(s) \cup {name} ELSE Held(s)
                         /\ upload'[s].step = upload[s].step
  BY DEF Held
<1>4. /\ name \notin lost /\ \A a \in archive : name \notin a.names
      /\ \A s \in Uploads : name \notin Held(s)
  BY DEF Accounted
<1>5. Accounted'
  BY <1>3 DEF Accounted
<1>6. Apart'
  BY <1>3, <1>4 DEF Apart
<1>7. Rows' /\ Saving'
  BY <1>4 DEF Rows, Saving, Held
<1> QED
  BY <1>1, <1>2, <1>5, <1>6, <1>7

\* A file that is remembered was this attempt's before.
LEMMA RememberStep ==
  ASSUME ArchInv, NEW r \in Uploads, Remember(r) PROVE ArchInv'
<1> USE DEF ArchInv, ArchiveTypeOK, Remember
<1>1. ArchiveTypeOK'
  OBVIOUS
<1>2. Lock'
  BY DEF Lock, Admissible
<1>3. \A s \in Uploads : Held(s)' = Held(s) /\ upload'[s].step = upload[s].step
  BY DEF Held
<1>4. Accounted' /\ Apart'
  BY <1>3 DEF Accounted, Apart
<1>5. Rows' /\ Saving'
  BY DEF Rows, Saving
<1> QED
  BY <1>1, <1>2, <1>4, <1>5

\* What a complete attempt has becomes a row of its own.
LEMMA CompleteRow ==
  ASSUME ArchInv, NEW r \in Uploads, Complete(r)
  PROVE  /\ RowOf(r).bundle \in Bundles /\ Admissible(RowOf(r).bundle)
         /\ RowOf(r).names \subseteq Names /\ RowOf(r).names = Held(r)
         /\ Cardinality(RowOf(r).names) = RowOf(r).bundle.size
         /\ RowOf(r) \in [bundle : Bundles, names : SUBSET Names] /\ RowOf(r) \notin archive
         /\ upload[r].step = "open"
<1>1. RowOf(r).bundle = upload[r].bundle /\ RowOf(r).names = upload[r].stored
  BY DEF RowOf
<1>2. RowOf(r).bundle \in Bundles /\ Admissible(RowOf(r).bundle)
  BY <1>1 DEF ArchInv, Lock, Complete
<1>3. upload[r].stored \subseteq Names
  BY DEF ArchInv, ArchiveTypeOK
<1> QED
  BY <1>1, <1>2, <1>3 DEF Complete, Admissible, Held, RowOf

\* With its row the archive stays one of apart sources.
LEMMA RowJoins ==
  ASSUME ArchInv, NEW r \in Uploads, Complete(r), archive' = archive \cup {RowOf(r)}
  PROVE  Rows'
<1> DEFINE new == RowOf(r)
<1>1. \A a \in archive : /\ a.names \cap new.names = {}
                         /\ a.bundle.months \cap new.bundle.months = {}
                         /\ a.bundle.source # new.bundle.source
  BY CompleteRow DEF ArchInv, Apart, Admissible
<1>2. Cardinality(new.names) = new.bundle.size
  BY CompleteRow
<1> HIDE DEF new
<1>3. archive' = archive \cup {new}
  BY DEF new
<1> QED
  BY <1>1, <1>2, <1>3 DEF ArchInv, Rows

\* The attempt's files become a row's; no other transaction is open.
LEMMA CommitStep ==
  ASSUME ArchInv, NEW r \in Uploads, Commit(r) PROVE ArchInv'
<1> DEFINE new == RowOf(r)
<1>1. /\ Complete(r) /\ archive' = archive \cup {new}
      /\ upload' = [upload EXCEPT ![r] = NoUpload] /\ UNCHANGED <<files, lost, unheard>>
  BY DEF Commit
<1>2. /\ new \in [bundle : Bundles, names : SUBSET Names] /\ new \notin archive
      /\ new.names = Held(r) /\ upload[r].step = "open"
  BY <1>1, CompleteRow
<1> HIDE DEF new
<1>3. ArchiveTypeOK'
  BY <1>1, <1>2 DEF ArchInv, ArchiveTypeOK, NoUpload
<1>4. Lock'
  BY <1>1, <1>2 DEF ArchInv, ArchiveTypeOK, Lock, NoUpload
<1>5. \A s \in Uploads : /\ Held(s)' = IF s = r THEN {} ELSE Held(s)
                         /\ upload'[s].step = IF s = r THEN "idle" ELSE upload[s].step
  BY <1>1 DEF ArchInv, ArchiveTypeOK, Held, NoUpload
<1>6. \A a : a \in archive' \ unheard' <=> a \in archive \ unheard \/ a = new
  BY <1>1, <1>2 DEF ArchInv, ArchiveTypeOK
<1>7. Accounted'
  <2>1. ASSUME NEW x \in Names
        PROVE  (\E a \in archive' \ unheard' : x \in a.names) <=>
                 x \in Held(r) \/ \E a \in archive \ unheard : x \in a.names
    BY <1>2, <1>6
  <2>2. ASSUME NEW x \in Names
        PROVE  (\E s \in Uploads : x \in Held(s)) <=> x \in Held(r) \/ \E s \in Uploads : x \in Held(s)'
    BY <1>5
  <2> QED
    BY <1>1, <2>1, <2>2 DEF ArchInv, Accounted
<1>8. Apart'
  <2>1. \A s \in Uploads : s # r => upload[s].step # "open"
    BY <1>2 DEF ArchInv, Lock
  <2> QED
    BY <1>1, <1>2, <1>5, <1>6, <2>1 DEF ArchInv, Apart
<1>9. Rows' /\ Saving'
  BY <1>1, RowJoins DEF new, ArchInv, ArchiveTypeOK, Saving, NoUpload, Complete
<1> QED
  BY <1>3, <1>4, <1>7, <1>8, <1>9 DEF ArchInv

\* A row that its caller does not hear of is not sure of its files: they stay the attempt's.
LEMMA UnheardStep ==
  ASSUME ArchInv, NEW r \in Uploads, CommitUnheard(r) PROVE ArchInv'
<1> DEFINE new == RowOf(r)
<1>1. /\ Complete(r) /\ archive' = archive \cup {new} /\ unheard' = unheard \cup {new}
      /\ upload' = [upload EXCEPT ![r].step = "failed"] /\ UNCHANGED <<files, lost>>
  BY DEF CommitUnheard
<1>2. /\ new \in [bundle : Bundles, names : SUBSET Names] /\ new \notin archive
      /\ new.names = Held(r) /\ upload[r].step = "open"
  BY <1>1, CompleteRow
<1> HIDE DEF new
<1>3. ArchiveTypeOK'
  BY <1>1, <1>2 DEF ArchInv, ArchiveTypeOK
<1>4. Lock'
  BY <1>1, <1>2 DEF ArchInv, ArchiveTypeOK, Lock
<1>5. \A s \in Uploads : /\ Held(s)' = Held(s)
                         /\ upload'[s].step = IF s = r THEN "failed" ELSE upload[s].step
  BY <1>1 DEF ArchInv, ArchiveTypeOK, Held
<1>6. archive' \ unheard' = archive \ unheard
  BY <1>1, <1>2 DEF ArchInv, ArchiveTypeOK
<1>7. Accounted'
  BY <1>1, <1>5, <1>6 DEF ArchInv, Accounted
<1>8. Apart'
  <2>1. \A s \in Uploads : s # r => upload[s].step # "open"
    BY <1>2 DEF ArchInv, Lock
  <2> QED
    BY <1>1, <1>2, <1>5, <1>6, <2>1 DEF ArchInv, Apart
<1>9. Rows' /\ Saving'
  BY <1>1, RowJoins DEF new, ArchInv, ArchiveTypeOK, Saving, NoUpload, Complete
<1> QED
  BY <1>3, <1>4, <1>7, <1>8, <1>9 DEF ArchInv

\* A failed transaction keeps what it remembers until that is removed, and leaves the file
\* whose save broke off.
LEMMA FailStep ==
  ASSUME ArchInv, NEW r \in Uploads, Fail(r) PROVE ArchInv'
<1> USE DEF ArchInv, ArchiveTypeOK, Fail
<1>1. ArchiveTypeOK'
  OBVIOUS
<1>2. Lock'
  BY DEF Lock, Admissible
<1>3. /\ \A s \in Uploads : /\ Held(s)' = IF s = r THEN upload[r].stored ELSE Held(s)
                            /\ upload'[s].step = IF s = r THEN "failed" ELSE upload[s].step
      /\ lost' = lost \cup upload[r].saving
      /\ Held(r) = upload[r].stored \cup upload[r].saving
  BY DEF Held
<1>4. Accounted'
  BY <1>3 DEF Accounted
<1>5. upload[r].stored \cap upload[r].saving = {}
  BY DEF Saving
<1>6. Apart'
  BY <1>3, <1>5 DEF Apart
<1>7. Rows' /\ Saving'
  BY DEF Rows, Saving
<1> QED
  BY <1>1, <1>2, <1>4, <1>6, <1>7

\* What is removed was this attempt's and nobody else's.
LEMMA CleanupStep ==
  ASSUME ArchInv, NEW r \in Uploads, Cleanup(r) PROVE ArchInv'
<1>1. CASE upload[r].stored = {}
  <2>1. upload' = [upload EXCEPT ![r] = NoUpload] /\ UNCHANGED <<files, archive, lost, unheard>>
    BY <1>1 DEF Cleanup
  <2>2. \A s \in Uploads : /\ Held(s)' = Held(s)
                           /\ upload'[s].step = IF s = r THEN "idle" ELSE upload[s].step
    BY <1>1, <2>1 DEF ArchInv, ArchiveTypeOK, Held, NoUpload, Cleanup, Saving
  <2>3. ArchiveTypeOK' /\ Rows' /\ Saving'
    BY <2>1 DEF ArchInv, ArchiveTypeOK, Rows, Saving, NoUpload
  <2>4. Lock'
    BY <2>1 DEF ArchInv, ArchiveTypeOK, Lock, Admissible, NoUpload
  <2>5. Accounted' /\ Apart'
    BY <2>1, <2>2 DEF ArchInv, Accounted, Apart
  <2> QED
    BY <2>3, <2>4, <2>5 DEF ArchInv
<1>2. CASE upload[r].stored # {}
  <2>1. PICK name \in upload[r].stored :
          /\ files' = files \ {name} /\ UNCHANGED <<archive, lost, unheard>>
          /\ upload' = [upload EXCEPT ![r].stored = @ \ {name}]
    BY <1>2 DEF Cleanup
  <2>2. \A s \in Uploads : /\ Held(s)' = IF s = r THEN Held(s) \ {name} ELSE Held(s)
                           /\ upload'[s].step = upload[s].step
    BY <2>1 DEF ArchInv, ArchiveTypeOK, Held, Cleanup, Saving
  <2>3. /\ name \notin lost /\ \A a \in archive \ unheard : name \notin a.names
        /\ \A s \in Uploads : s # r => name \notin Held(s)
    BY <2>1 DEF ArchInv, Apart, Held
  <2>4. ArchiveTypeOK' /\ Rows' /\ Saving'
    BY <2>1 DEF ArchInv, ArchiveTypeOK, Rows, Saving, Cleanup
  <2>5. Lock'
    BY <2>1 DEF ArchInv, ArchiveTypeOK, Lock, Admissible
  <2>6. Accounted'
    BY <2>1, <2>2, <2>3 DEF ArchInv, Accounted
  <2>7. Apart'
    BY <2>1, <2>2 DEF ArchInv, Apart
  <2> QED
    BY <2>4, <2>5, <2>6, <2>7 DEF ArchInv
<1> QED
  BY <1>1, <1>2

\* The files of a worker that dies are kept apart for good.
LEMMA CrashStep ==
  ASSUME ArchInv, NEW r \in Uploads, Crash(r) PROVE ArchInv'
<1> USE DEF ArchInv, ArchiveTypeOK, Crash, NoUpload
<1>1. ArchiveTypeOK'
  OBVIOUS
<1>2. Lock'
  BY DEF Lock, Admissible
<1>3. /\ \A s \in Uploads : /\ Held(s)' = IF s = r THEN {} ELSE Held(s)
                            /\ upload'[s].step = IF s = r THEN "idle" ELSE upload[s].step
      /\ lost' = lost \cup Held(r)
  BY DEF Held
<1>4. Accounted'
  <2>1. UNCHANGED <<archive, files, unheard>> /\ Accounted
    OBVIOUS
  <2>2. \A x \in Names : (\E s \in Uploads : x \in Held(s)') \/ x \in lost'
                         <=> (\E s \in Uploads : x \in Held(s)) \/ x \in lost
    <3> TAKE x \in Names
    <3>1. x \in lost' <=> x \in lost \/ x \in Held(r)
      BY <1>3
    <3>2. \A s \in Uploads : x \in Held(s)' <=> s # r /\ x \in Held(s)
      BY <1>3
    <3> HIDE DEF ArchInv, ArchiveTypeOK, Crash, NoUpload
    <3> QED
      BY <3>1, <3>2
  <2> HIDE DEF ArchInv, ArchiveTypeOK, Crash, NoUpload
  <2>3. \A x \in Names : x \in files' <=> x \in files
    BY <2>1
  <2>4. \A x \in Names : (\E a \in (archive \ unheard)' : x \in a.names)
                         <=> \E a \in archive \ unheard : x \in a.names
    BY <2>1
  <2> QED
    BY <2>1, <2>2, <2>3, <2>4, Zenon DEF Accounted
<1>5. Apart'
  BY <1>3 DEF Apart
<1>6. Rows' /\ Saving'
  BY DEF Rows, Saving
<1> QED
  BY <1>1, <1>2, <1>4, <1>5, <1>6

\* Nothing is lost by a step that is not of the archive.
LEMMA StutterStep == ArchInv /\ UNCHANGED archiveVars => ArchInv'
  BY DEF archiveVars, ArchInv, ArchiveTypeOK, Lock, Admissible, Accounted, Apart, Saving, Rows, Held

\* What the invariant says of names is what the property says of sets of files.
LEMMA InvImpliesWhole == ArchInv => ArchiveIsWhole
<1> SUFFICES ASSUME ArchInv PROVE ArchiveIsWhole
  OBVIOUS
<1>1. \A a \in archive \ unheard : a.names \subseteq files
  BY DEF ArchInv, ArchiveTypeOK, Accounted
<1>2. files = (UNION {a.names : a \in archive \ unheard})
                \cup (UNION {upload[r].stored \cup upload[r].saving : r \in Uploads}) \cup lost
  <2>1. \A x : x \in UNION {a.names : a \in archive \ unheard} <=> \E a \in archive \ unheard : x \in a.names
    OBVIOUS
  <2>2. \A x : x \in UNION {upload[r].stored \cup upload[r].saving : r \in Uploads}
               <=> \E r \in Uploads : x \in Held(r)
    BY DEF Held
  <2>3. /\ files \subseteq Names /\ lost \subseteq Names
        /\ \A a \in archive : a.names \subseteq Names
        /\ \A r \in Uploads : Held(r) \subseteq Names
    BY DEF ArchInv, ArchiveTypeOK, Held
  <2> QED
    BY <2>1, <2>2, <2>3 DEF ArchInv, Accounted
<1> QED
  BY <1>1, <1>2 DEF ArchiveIsWhole, ArchInv, Rows

\* The empty archive.
LEMMA ArchiveStart == ArchiveInit => ArchInv
  BY DEF ArchiveInit, ArchInv, ArchiveTypeOK, Lock, Accounted, Apart, Saving, Rows, Held, NoUpload

\* Every step of the uploads keeps the invariant.
LEMMA ArchiveStep == ArchInv /\ [ArchiveNext]_archiveVars => ArchInv'
  BY BeginStep, SaveStep, RememberStep, CommitStep, UnheardStep, FailStep, CleanupStep, CrashStep,
     StutterStep DEF ArchiveNext

\* Every source that was archived without an error keeps its files, whatever attempts fail
\* at any point, are cleaned up or die (import_bundle, attach_document).
THEOREM TheArchiveIsWhole == ArchiveSpec => []ArchiveIsWhole
  BY ArchiveStart, ArchiveStep, InvImpliesWhole, PTL DEF ArchiveSpec

-----------------------------------------------------------------------------
(* The backup and the move.                                                *)

Covers(kept, names) == \A a \in kept \ unheard : a.names \subseteq names

CopyTypeOK ==
  /\ script \in [step : {"idle", "dumped", "copying"}, rows : SUBSET [bundle : Bundles, names : SUBSET Names],
                 paths : SUBSET Names, archived : SUBSET Names]
  /\ backup \in [step : {"none", "whole", "broken"}, rows : SUBSET [bundle : Bundles, names : SUBSET Names],
                 files : SUBSET Names]
  /\ target \in [step : {"none", "restoring", "restored", "partial"},
                 rows : SUBSET [bundle : Bundles, names : SUBSET Names], files : SUBSET Names]

\* Rows are those of one moment and files those of a later one, all along the way.
CopyInv ==
  /\ script.step \in {"dumped", "copying"} => backup = Nothing /\ script.rows \subseteq archive
  /\ script.step = "copying" => Covers(script.rows, script.paths)
  /\ backup.step = "whole" => backup.rows \subseteq archive /\ Covers(backup.rows, backup.files)
  /\ target.step \in {"restoring", "restored"} => backup.step = "whole" /\ target.rows = backup.rows
  /\ target.step = "restored" => target.files = backup.files

\* The rows found at the start are in every copy of the attempt; what is loaded is what was
\* exported, in a schema between that of the start and the one deployed now.
CutoverInv ==
  /\ transfer.step # "idle" =>
       /\ transfer.source \subseteq archive /\ transfer.release <= release
       /\ script.step \in {"dumped", "copying"} => transfer.source \subseteq script.rows
       /\ backup.step = "whole" => transfer.source \subseteq backup.rows
  /\ transfer.step \in {"exported", "loading", "loaded", "checked", "approved"} =>
       /\ target.step = "restored" /\ destination.exported = transfer.release
       /\ FilesReferenced
  /\ transfer.step \in {"loading", "loaded", "checked", "approved"} =>
       transfer.release <= destination.loaded /\ destination.loaded <= release
  /\ transfer.step \in {"loaded", "checked", "approved"} => destination.rows = target.rows
  /\ transfer.step \in {"checked", "approved"} => destination.rows = transfer.checked
  /\ transfer.step \in {"checked", "approved"} =>
       destination.files = backup.files /\ destination.loaded = destination.exported

CopyStuff == CopyTypeOK /\ CopyInv

\* No row leaves the archive, and none that is unheard of is heard of later.
LEMMA ArchiveGrows == ArchInv /\ ArchiveNext => archive \subseteq archive' /\ unheard \subseteq unheard'
  BY DEF ArchiveNext, Begin, Save, Remember, Commit, CommitUnheard, Fail, Cleanup, Crash, ArchInv, ArchiveTypeOK

\* Every row's files are there.
LEMMA RowsHaveFiles ==
  ArchInv => /\ Covers(archive, files) /\ files \subseteq Names
             /\ archive \subseteq [bundle : Bundles, names : SUBSET Names]
  BY DEF ArchInv, ArchiveTypeOK, Accounted, Covers

\* An archive that only grows while the backup runs loses nothing that the backup has.
LEMMA CopyArchiveStep ==
  ASSUME CopyStuff, archive \subseteq archive', unheard \subseteq unheard', UNCHANGED backupVars
  PROVE  CopyStuff'
  BY DEF CopyStuff, CopyTypeOK, CopyInv, Covers, backupVars

\* The rows of a dump are as of one moment; the files listed after it hold theirs.
LEMMA ScriptStep ==
  ASSUME ArchInv, CopyStuff, Dump \/ ListFiles \/ (\E name \in Names : CopyFile(name)) \/ Publish \/ Interrupt
  PROVE  CopyStuff'
<1> USE DEF CopyStuff, Covers
<1>1. CASE Dump
  <2>1. /\ script' = [script EXCEPT !.step = "dumped", !.rows = archive]
        /\ UNCHANGED <<archive, unheard, backup, target>> /\ backup = Nothing
    BY <1>1 DEF Dump, archiveVars
  <2>2. CopyTypeOK'
    BY <2>1, RowsHaveFiles DEF CopyTypeOK
  <2>3. script'.step = "dumped" /\ script'.rows = archive
    BY <2>1 DEF CopyTypeOK
  <2> QED
    BY <2>1, <2>2, <2>3 DEF CopyInv
<1>2. CASE ListFiles
  <2>1. /\ script' = [script EXCEPT !.step = "copying", !.paths = files]
        /\ UNCHANGED <<archive, unheard, backup, target>> /\ script.step = "dumped"
    BY <1>2 DEF ListFiles, archiveVars
  <2>2. CopyTypeOK'
    BY <2>1, RowsHaveFiles DEF CopyTypeOK
  <2>3. script'.step = "copying" /\ script'.rows = script.rows /\ script'.paths = files
    BY <2>1 DEF CopyTypeOK
  <2> QED
    BY <2>1, <2>2, <2>3, RowsHaveFiles DEF CopyInv, Covers
<1>3. ASSUME NEW name \in Names, CopyFile(name) PROVE CopyStuff'
  <2>1. /\ script.step = "copying" /\ UNCHANGED <<archive, unheard, backup, target>>
        /\ script' = NoScript \/ script' = [script EXCEPT !.archived = @ \cup {name}]
    BY <1>3 DEF CopyFile, archiveVars
  <2>2. CopyTypeOK'
    BY <2>1 DEF CopyTypeOK, NoScript
  <2>3. script'.step = "idle" \/ (script'.step = "copying" /\ script'.rows = script.rows /\ script'.paths = script.paths)
    BY <2>1 DEF CopyTypeOK, NoScript
  <2> QED
    BY <2>1, <2>2, <2>3 DEF CopyInv
<1>4. CASE Publish
  BY <1>4 DEF Publish, archiveVars, CopyTypeOK, CopyInv, Covers, NoScript, Nothing
<1>5. CASE Interrupt
  BY <1>5 DEF Interrupt, archiveVars, CopyTypeOK, CopyInv, NoScript, Nothing
<1> QED
  BY <1>1, <1>2, <1>3, <1>4, <1>5

\* A restore takes rows and files from the one backup.
LEMMA RestoreStep ==
  ASSUME CopyStuff,
         RestoreDatabase \/ (\E name \in Names : RestoreFile(name)) \/ FinishRestore \/ InterruptRestore
  PROVE  CopyStuff'
<1> USE DEF CopyStuff, Covers
<1>1. CASE RestoreDatabase
  BY <1>1 DEF RestoreDatabase, archiveVars, CopyTypeOK, CopyInv
<1>2. ASSUME NEW name \in Names, RestoreFile(name) PROVE CopyStuff'
  BY <1>2 DEF RestoreFile, archiveVars, CopyTypeOK, CopyInv
<1>3. CASE FinishRestore \/ InterruptRestore
  BY <1>3 DEF FinishRestore, InterruptRestore, archiveVars, CopyTypeOK, CopyInv
<1> QED
  BY <1>1, <1>2, <1>3

\* What the invariant says of the copies is what the property says of a restored company.
LEMMA CopiesImplyRestored == ArchInv /\ CopyStuff => RestoredIsWhole
  BY DEF CopyStuff, CopyInv, Covers, RestoredIsWhole, ArchInv, Rows

\* Every company that a published backup restores is whole, whatever the application did
\* while the backup ran (create_backup, restore_backup).
THEOREM BackupsRestoreWhole == BackupSpec => []RestoredIsWhole
<1>1. BackupInit => ArchInv /\ CopyStuff
  BY ArchiveStart DEF BackupInit, ArchiveInit, CopyStuff, CopyTypeOK, CopyInv, NoScript, Nothing
<1>2. ArchInv /\ CopyStuff /\ [BackupNext]_<<archiveVars, backupVars>> => ArchInv' /\ CopyStuff'
  <2> SUFFICES ASSUME ArchInv, CopyStuff, [BackupNext]_<<archiveVars, backupVars>> PROVE ArchInv' /\ CopyStuff'
    OBVIOUS
  <2>1. CASE [ArchiveNext]_archiveVars /\ UNCHANGED backupVars
    BY <2>1, ArchiveStep, ArchiveGrows, CopyArchiveStep DEF archiveVars
  <2>2. CASE UNCHANGED archiveVars /\ CopyStuff'
    BY <2>2, StutterStep
  <2> QED
    BY <2>1, <2>2, ScriptStep, RestoreStep DEF BackupNext, Dump, ListFiles, CopyFile, Publish, Interrupt,
       RestoreDatabase, RestoreFile, FinishRestore, InterruptRestore
<1> QED
  BY <1>1, <1>2, CopiesImplyRestored, PTL DEF BackupSpec

-----------------------------------------------------------------------------
(* The move to another database.                                           *)

TransferTypeOK ==
  /\ release \in Nat
  /\ transfer \in [step : {"idle", "copying", "exported", "loading", "loaded", "checked", "approved"},
                   source : SUBSET [bundle : Bundles, names : SUBSET Names], release : Nat,
                   checked : SUBSET [bundle : Bundles, names : SUBSET Names]]
  /\ destination \in [tables : {"none", "empty", "full"},
                      rows : SUBSET [bundle : Bundles, names : SUBSET Names],
                      exported : Nat, loaded : Nat, files : SUBSET Names]

MoveInv == ArchInv /\ CopyStuff /\ TransferTypeOK /\ CutoverInv

\* The application goes on working during the transfer.
LEMMA MoveArchiveStep ==
  ASSUME MoveInv, [ArchiveNext]_archiveVars, UNCHANGED <<backupVars, transferVars>> PROVE MoveInv'
<1>1. archive \subseteq archive' /\ unheard \subseteq unheard' /\ ArchInv'
  BY ArchiveStep, ArchiveGrows DEF MoveInv, archiveVars
<1> QED
  BY <1>1, CopyArchiveStep DEF MoveInv, TransferTypeOK, CutoverInv, FilesReferenced, backupVars, transferVars

\* A transfer begins with the rows of that moment.
LEMMA StartStep == ASSUME MoveInv, StartTransfer PROVE MoveInv'
<1>1. /\ script' = NoScript /\ backup' = Nothing /\ target' = Nothing
      /\ transfer' = [NoTransfer EXCEPT !.step = "copying", !.source = archive, !.release = release]
      /\ UNCHANGED <<archiveVars, release, destination>>
  BY DEF StartTransfer
<1>2. ArchInv' /\ archive \in SUBSET [bundle : Bundles, names : SUBSET Names] /\ UNCHANGED archive
  BY <1>1, StutterStep, RowsHaveFiles DEF MoveInv, archiveVars
<1>3. CopyStuff'
  BY <1>1 DEF CopyStuff, CopyTypeOK, CopyInv, NoScript, Nothing
<1>4. /\ transfer'.step = "copying" /\ transfer'.source = archive /\ transfer'.release = release
      /\ TransferTypeOK'
  BY <1>1, <1>2 DEF MoveInv, TransferTypeOK, NoTransfer
<1>5. CutoverInv'
  BY <1>1, <1>2, <1>4 DEF MoveInv, TransferTypeOK, CutoverInv, NoScript, Nothing
<1> QED
  BY <1>2, <1>3, <1>4, <1>5 DEF MoveInv

\* The backup that a transfer makes holds what was there when the transfer began.
LEMMA CopySourceStep == ASSUME MoveInv, CopySource PROVE MoveInv'
<1>1. UNCHANGED <<archiveVars, transferVars>> /\ transfer.step = "copying"
  BY DEF CopySource, Dump, ListFiles, CopyFile, Publish, RestoreDatabase, RestoreFile, FinishRestore
<1>2. ArchInv' /\ CopyStuff'
  BY <1>1, StutterStep, ScriptStep, RestoreStep DEF MoveInv, CopySource
<1>3. /\ script'.step \in {"dumped", "copying"} => transfer.source \subseteq script'.rows
      /\ backup'.step = "whole" => transfer.source \subseteq backup'.rows
  <2> USE <1>1 DEF MoveInv, CopyStuff, CopyTypeOK, CutoverInv
  <2>1. CASE UNCHANGED <<script, backup>>
    BY <2>1
  <2>2. CASE Dump \/ ListFiles
    BY <2>2 DEF Dump, ListFiles
  <2>3. ASSUME NEW name \in Names, CopyFile(name)
        PROVE  /\ script'.step \in {"dumped", "copying"} => transfer.source \subseteq script'.rows
               /\ UNCHANGED backup
    BY <2>3 DEF CopyFile, NoScript
  <2>4. CASE Publish
    BY <2>4 DEF Publish, NoScript
  <2> QED
    BY <2>1, <2>2, <2>3, <2>4 DEF CopySource, RestoreDatabase, RestoreFile, FinishRestore
<1> QED
  BY <1>1, <1>2, <1>3 DEF MoveInv, TransferTypeOK, CutoverInv, archiveVars, transferVars

\* The steps of the move itself leave the source and the copies alone.
LEMMA MoveStep ==
  ASSUME MoveInv, Export \/ CreateSchema \/ LoadRows \/ CheckSource \/ Approve \/ Abandon \/ Deploy
                  \/ \E name \in Names : CopyDocument(name)
  PROVE  MoveInv'
<1>1. UNCHANGED <<archiveVars, backupVars>>
  BY DEF Export, CreateSchema, LoadRows, CheckSource, Approve, Abandon, Deploy, CopyDocument
<1>2. ArchInv' /\ CopyStuff' /\ UNCHANGED archive
  BY <1>1, StutterStep, CopyArchiveStep DEF MoveInv, archiveVars
<1> SUFFICES TransferTypeOK' /\ CutoverInv'
  BY <1>2 DEF MoveInv
<1> USE <1>1, <1>2 DEF MoveInv, TransferTypeOK, CutoverInv, FilesReferenced, backupVars, Abandoned, ReleaseFrozen
<1>3. CASE Export
  BY <1>3 DEF Export
<1>4. CASE CreateSchema
  <2>1. CASE destination.tables = "none"
    <3>1. /\ transfer.step = "exported" /\ transfer' = [transfer EXCEPT !.step = "loading"]
          /\ destination' = [destination EXCEPT !.tables = "empty", !.loaded = release]
          /\ UNCHANGED release
      BY <1>4, <2>1 DEF CreateSchema
    <3>2. TransferTypeOK'
      BY <3>1
    <3>3. /\ transfer'.step = "loading" /\ transfer'.source = transfer.source
          /\ transfer'.release = transfer.release
          /\ destination'.exported = destination.exported /\ destination'.loaded = release
      BY <3>1
    <3> QED
      BY <3>1, <3>2, <3>3
  <2>2. CASE destination.tables # "none"
    BY <1>4, <2>2 DEF CreateSchema
  <2> QED
    BY <2>1, <2>2
<1>5. CASE LoadRows
  BY <1>5 DEF LoadRows, CopyStuff, CopyTypeOK
<1>6. CASE CheckSource
  <2>1. CASE archive = transfer.source /\ release = transfer.release
    <3>1. /\ transfer.step = "loaded" /\ destination.files = backup.files
          /\ transfer' = [transfer EXCEPT !.step = "checked", !.checked = archive]
          /\ UNCHANGED <<release, destination>>
      BY <1>6, <2>1 DEF CheckSource, Copied, CheckedNow
    <3>2. destination.rows = archive
      BY <2>1, <3>1 DEF CopyStuff, CopyInv
    <3>3. destination.loaded = destination.exported
      BY <2>1, <3>1
    <3>4. TransferTypeOK'
      BY <3>1, RowsHaveFiles
    <3>5. transfer'.step = "checked" /\ transfer'.checked = archive /\ transfer'.source = transfer.source
          /\ transfer'.release = transfer.release
      BY <3>1
    <3> QED
      BY <3>1, <3>2, <3>3, <3>4, <3>5
  <2>2. CASE ~(archive = transfer.source /\ release = transfer.release)
    BY <1>6, <2>2 DEF CheckSource
  <2> QED
    BY <2>1, <2>2
<1>7. CASE Approve
  BY <1>7 DEF Approve
<1>8. CASE Abandon
  BY <1>8 DEF Abandon
<1>9. CASE Deploy
  BY <1>9 DEF Deploy
<1>10. ASSUME NEW name \in Names, CopyDocument(name) PROVE TransferTypeOK' /\ CutoverInv'
  BY <1>10 DEF CopyDocument
<1> QED
  BY <1>3, <1>4, <1>5, <1>6, <1>7, <1>8, <1>9, <1>10

\* What the invariant says of a transfer is what the property says of the cutover.
LEMMA MoveImpliesWhole == MoveInv => CopiesAreWhole
<1> SUFFICES ASSUME MoveInv PROVE CutoverLosesNothing
  BY CopiesImplyRestored DEF MoveInv, CopiesAreWhole
<1>1. CASE transfer.step \in {"checked", "approved"}
  BY <1>1 DEF MoveInv, CutoverInv, FilesReferenced, CopyStuff, CopyInv, CutoverLosesNothing
<1> QED
  BY <1>1 DEF CutoverLosesNothing

\* What is approved for the cutover is the source as it was last looked at, with every
\* document, in the schema it was exported from; and so is every copy on the way
\* (scripts/sqlite_to_postgres.py transfer).
THEOREM CopiesAreAlwaysWhole == TransferSpec => []CopiesAreWhole
<1>1. TransferInit => MoveInv
  <2> SUFFICES ASSUME TransferInit PROVE MoveInv
    OBVIOUS
  <2>1. ArchInv /\ CopyStuff
    BY ArchiveStart DEF TransferInit, BackupInit, CopyStuff, CopyTypeOK, CopyInv, NoScript, Nothing
  <2>2. TransferTypeOK /\ CutoverInv
    BY DEF TransferInit, TransferTypeOK, CutoverInv, NoTransfer, EmptyDestination
  <2> QED
    BY <2>1, <2>2 DEF MoveInv
<1>2. MoveInv /\ [TransferNext]_<<archiveVars, backupVars, transferVars>> => MoveInv'
  <2>1. MoveInv /\ UNCHANGED <<archiveVars, backupVars, transferVars>> => MoveInv'
    BY MoveArchiveStep
  <2> QED
    BY <2>1, MoveArchiveStep, StartStep, CopySourceStep, MoveStep DEF TransferNext
<1> QED
  BY <1>1, <1>2, MoveImpliesWhole, PTL DEF TransferSpec
=============================================================================
