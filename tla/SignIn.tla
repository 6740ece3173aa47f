------------------------------- MODULE SignIn -------------------------------
(***************************************************************************)
(* One account: its password, its second factor (core/mfa.py), the reset   *)
(* by an owner or an operator, and the browsers that sign in               *)
(* (webapp/views.py FinanceLoginView, webapp/account_views.py).            *)
(*                                                                         *)
(* Every function of core/mfa.py runs under the lock of the account's      *)
(* AccountSecurity row; a request is let in by the middleware first and    *)
(* takes that lock later. Passwords and secrets are numbered in the order  *)
(* in which they are made, and so are the periods of the codes.            *)
(***************************************************************************)
EXTENDS Integers, FiniteSets

CONSTANTS
  Browsers,
  RecoveryCodes,     \* those handed out by one enrolment
  MaxPassword, MaxSecret, MaxPeriod   \* bounds

ASSUME SignInAssumption ==
  {MaxPassword, MaxSecret, MaxPeriod} \subseteq Nat \ {0}

VARIABLES
  password,                  \* User.password
  version,                   \* session_version
  enabled, secret, last,     \* totp_enabled, totp_secret (0: empty), totp_last_counter
  codes,                     \* recovery_codes
  mustChange,                \* require_password_change
  period,
  browser,                   \* the session of each browser and what its request does
  secrets, resets,           \* counters: secrets made, passwords set by somebody else
  spent                      \* history: how often each code was accepted

security   == <<version, enabled, secret, last, codes, mustChange>>
signInVars == <<password, security, period, browser, secrets, resets, spent>>

\* at: nothing, password accepted, pending login, code submitted, signed in, request let
\* in for any page or for the change of the password only, new password saved.
\* hash, version, mfa: the session's auth hash, auth_security_version and mfa_version.
\* since, proved: history, the resets before the password was accepted and the secret of
\* the second factor the session has shown.
SignedOut == [at |-> "out", hash |-> 0, version |-> 0, mfa |-> 0, since |-> 0, proved |-> 0]
Put(b, session) == browser' = [browser EXCEPT ![b] = session]

\* The sessions the middlewares let through: Django compares the auth hash.
Served(b) ==
  /\ browser[b].at = "in" /\ browser[b].hash = password
  /\ browser[b].version = version
  /\ enabled => browser[b].mfa = version

-----------------------------------------------------------------------------
\* The codes of secret s: those that a phone shows, and those on paper.
TotpCode(s, counter)  == <<"totp", s, counter>>
RecoveryCode(s, code) == <<"recovery", s, code>>
Window == {period - 1, period, period + 1}
Accepted(code) == spent' = [spent EXCEPT ![code] = @ + 1]

\* Faulty Fresh: the counter of the last code is not compared.
FreshAgain(counter) == counter \in Window
\* _accept_totp.
Fresh(counter) == counter \in Window /\ counter > last
AcceptTotp(counter) ==
  /\ Fresh(counter)
  /\ last' = counter /\ Accepted(TotpCode(secret, counter))

AcceptRecovery(code) ==
  /\ code \in codes
  /\ codes' = codes \ {code} /\ Accepted(RecoveryCode(secret, code))

\* verify_challenge, for a code the account can accept.
VerifyChallenge ==
  /\ enabled
  /\ \/ UNCHANGED codes /\ \E counter \in Window : AcceptTotp(counter)
     \/ UNCHANGED last /\ \E code \in codes : AcceptRecovery(code)

-----------------------------------------------------------------------------
\* LoginView: the form checks the password ...
Authenticate(b) ==
  /\ browser[b].at = "out"
  /\ Put(b, [SignedOut EXCEPT !.at = "password", !.hash = password, !.since = resets])
  /\ UNCHANGED <<password, security, period, secrets, resets, spent>>

\* ... and form_valid reads the account's security once.
FormValid(b) ==
  /\ browser[b].at = "password"
  /\ Put(b, IF enabled THEN [browser[b] EXCEPT !.at = "pending"]
                       ELSE [browser[b] EXCEPT !.at = "in", !.version = version])
  /\ UNCHANGED <<password, security, period, secrets, resets, spent>>

\* mfa_challenge: _pending_login compares the hash, then the code is verified.
SubmitCode(b) ==
  /\ browser[b].at = "pending" /\ browser[b].hash = password
  /\ Put(b, [browser[b] EXCEPT !.at = "code"])
  /\ UNCHANGED <<password, security, period, secrets, resets, spent>>

MfaChallenge(b) ==
  /\ browser[b].at = "code"
  /\ VerifyChallenge
  /\ Put(b, [browser[b] EXCEPT !.at = "in", !.version = version, !.mfa = version,
                               !.proved = secret])
  /\ UNCHANGED <<password, version, enabled, secret, mustChange, period, secrets, resets>>

\* A wrong code keeps the pending login; it ends after five minutes or with its cookie,
\* and the middleware ends a session it does not serve.
WrongCode(b) ==
  /\ browser[b].at = "code"
  /\ Put(b, [browser[b] EXCEPT !.at = "pending"])
  /\ UNCHANGED <<password, security, period, secrets, resets, spent>>
SignOut(b) ==
  /\ browser[b].at \in {"pending", "in", "password"}
  /\ Put(b, SignedOut)
  /\ UNCHANGED <<password, security, period, secrets, resets, spent>>

\* While a password that somebody else set is to be changed, other pages lead to the form.
Visit(b) ==
  /\ Served(b)
  /\ Put(b, [browser[b] EXCEPT !.at = IF mustChange THEN "rotate" ELSE "request"])
  /\ UNCHANGED <<password, security, period, secrets, resets, spent>>

Answer(b, session) == browser[b].at = "request" /\ Put(b, [session EXCEPT !.at = "in"])

\* Other pages, or a form that is refused, change nothing.
OtherPage(b) ==
  /\ browser[b].at \in {"request", "rotate"} /\ Put(b, [browser[b] EXCEPT !.at = "in"])
  /\ UNCHANGED <<password, security, period, secrets, resets, spent>>

\* security_settings. Beginning again replaces a secret that was not confirmed.
BeginEnrollment(b) ==
  /\ Answer(b, browser[b]) /\ ~enabled /\ secrets < MaxSecret
  /\ secrets' = secrets + 1 /\ secret' = secrets + 1 /\ last' = -1
  /\ UNCHANGED <<password, version, enabled, codes, mustChange, period, resets, spent>>

\* Faulty ConfirmEnrollment: the sessions of before stay in force.
ConfirmEnrollmentQuietly(b) ==
  /\ ~enabled /\ secret # 0
  /\ \E counter \in Window : AcceptTotp(counter)
  /\ enabled' = TRUE /\ codes' = RecoveryCodes /\ UNCHANGED version
  /\ Answer(b, [browser[b] EXCEPT !.mfa = version, !.proved = secret])
  /\ UNCHANGED <<password, secret, mustChange, period, secrets, resets>>

ConfirmEnrollment(b) ==
  /\ ~enabled /\ secret # 0
  /\ \E counter \in Window : AcceptTotp(counter)
  /\ enabled' = TRUE /\ codes' = RecoveryCodes /\ version' = version + 1
  /\ Answer(b, [browser[b] EXCEPT !.version = version + 1, !.mfa = version + 1,
                                  !.proved = secret])
  /\ UNCHANGED <<password, secret, mustChange, period, secrets, resets>>

\* disable_mfa verifies a code first; what that leaves of the row is cleared.
DisableMfa(b) ==
  /\ enabled
  /\ \/ \E counter \in Window : Fresh(counter) /\ Accepted(TotpCode(secret, counter))
     \/ \E code \in codes : Accepted(RecoveryCode(secret, code))
  /\ enabled' = FALSE /\ secret' = 0 /\ last' = -1 /\ codes' = {} /\ version' = version + 1
  /\ Answer(b, [browser[b] EXCEPT !.version = version + 1, !.mfa = version + 1])
  /\ UNCHANGED <<password, mustChange, period, secrets, resets>>

\* password_change, by a form that knows the password as it was when the request began:
\* the new one is saved with the session's hash, and then the mark is cleared. The two are
\* no transaction; a reset in between loses its mark.
SavePassword(b) ==
  /\ browser[b].at \in {"request", "rotate"}
  /\ password < MaxPassword /\ password' = password + 1
  /\ Put(b, [browser[b] EXCEPT !.at = "saved", !.hash = password + 1])
  /\ UNCHANGED <<security, period, secrets, resets, spent>>

PasswordChanged(b) ==
  /\ browser[b].at = "saved"
  /\ mustChange' = FALSE /\ Put(b, [browser[b] EXCEPT !.at = "in"])
  /\ UNCHANGED <<password, version, enabled, secret, last, codes, period, secrets, resets, spent>>

\* set_password, require_password_change and session_version, in one transaction.
SetByOther ==
  /\ password < MaxPassword /\ password' = password + 1
  /\ mustChange' = TRUE /\ version' = version + 1 /\ resets' = resets + 1
  /\ UNCHANGED <<period, browser, secrets, spent>>

\* reset_member_password: an owner resets a member who is in no other company; the second
\* factor stays.
ResetMemberPassword == SetByOther /\ UNCHANGED <<enabled, secret, last, codes>>

\* recover_account, which an operator may run with --reset-mfa.
RecoverAccount(resetMfa) ==
  /\ SetByOther
  /\ IF resetMfa THEN enabled' = FALSE /\ secret' = 0 /\ last' = -1 /\ codes' = {}
                 ELSE UNCHANGED <<enabled, secret, last, codes>>

NextPeriod ==
  /\ period < MaxPeriod /\ period' = period + 1
  /\ UNCHANGED <<password, security, browser, secrets, resets, spent>>

Codes == {TotpCode(s, c) : s \in 1..MaxSecret, c \in 0..(MaxPeriod + 1)}
           \cup {RecoveryCode(s, c) : s \in 1..MaxSecret, c \in RecoveryCodes}

SignInInit ==
  /\ password = 1 /\ version = 1 /\ mustChange = FALSE /\ enabled = FALSE /\ secret = 0 /\ last = -1 /\ codes = {}
  /\ period = 1 /\ secrets = 0 /\ resets = 0
  /\ browser = [b \in Browsers |-> SignedOut] /\ spent = [code \in Codes |-> 0]

SignInNext ==
  \/ NextPeriod \/ ResetMemberPassword \/ RecoverAccount(TRUE) \/ RecoverAccount(FALSE)
  \/ \E b \in Browsers :
       \/ Authenticate(b) \/ FormValid(b) \/ SubmitCode(b) \/ MfaChallenge(b) \/ WrongCode(b)
       \/ SignOut(b) \/ Visit(b) \/ BeginEnrollment(b) \/ ConfirmEnrollment(b)
       \/ DisableMfa(b) \/ SavePassword(b) \/ PasswordChanged(b) \/ OtherPage(b)

SignInSpec == SignInInit /\ [][SignInNext]_signInVars

-----------------------------------------------------------------------------
Sessions ==
  [at : {"out", "password", "pending", "code", "in", "request", "rotate", "saved"},
   hash : Nat, version : Nat, mfa : Nat, since : Nat, proved : Nat]

SignInTypeOK ==
  /\ {password, version} \subseteq Nat \ {0} /\ resets \in Nat
  /\ enabled \in BOOLEAN /\ mustChange \in BOOLEAN
  /\ period \in 1..MaxPeriod /\ secrets \in 0..MaxSecret /\ secret \in 0..secrets
  /\ last \in -1..(MaxPeriod + 1) /\ codes \subseteq RecoveryCodes
  /\ browser \in [Browsers -> Sessions] /\ spent \in [Codes -> Nat]

\* A code opens the account once, whatever browsers submit it at the same moment and
\* however the enrolment is ended and begun again (_accept_totp, verify_challenge).
CodesWorkOnce == \A code \in Codes : spent[code] <= 1

\* A session that is served is of now: while the second factor is on it has shown the
\* secret in force, also when enrolment and sign-in overlap, and it was not begun with a
\* password that was reset since, be it open, waiting for a code or in a request under way
\* (session_version and mfa_version with the session's auth hash).
ServedSessionsAreCurrent ==
  \A b \in Browsers : Served(b) => /\ browser[b].since = resets
                                   /\ enabled => browser[b].proved = secret
=============================================================================
