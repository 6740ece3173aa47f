------------------------------- MODULE Throttle -------------------------------
(***************************************************************************)
(* Quotas of sign-in attempts (core/throttle.py): a row per address, per   *)
(* account and per pair of them counts the attempts of a fixed window; an  *)
(* attempt is let through if all three have room, and a successful sign-in *)
(* deletes the rows of the account and of the pair.                        *)
(*                                                                         *)
(* An attempt and a reset are one transaction each. Rows are locked one    *)
(* after another and held to its end; what it writes is seen at its        *)
(* commit. PostgreSQL ends a circle of waiting transactions by rolling one *)
(* of them back.                                                           *)
(***************************************************************************)
EXTENDS Integers

CONSTANTS
  Requests,     \* transactions under way at a time
  Logins,       \* pairs of an account and an address: [account, address]
  Limit,        \* attempts allowed in a window, by kind of key
  Seconds,      \* length of a window
  MaxClock      \* bound on time

ASSUME ThrottleAssumption ==
  /\ Limit \in [{"ip", "account", "pair"} -> Nat \ {0}]
  /\ Seconds \in Nat \ {0} /\ MaxClock \in Nat
  /\ "nobody" \notin Requests

Key(kind, login) ==
  [kind |-> kind, of |-> CASE kind = "ip" -> {login.address}
                           [] kind = "account" -> {login.account}
                           [] kind = "pair" -> {login.account, login.address}]
Keys == {Key(kind, l) : kind \in DOMAIN Limit, l \in Logins}

\* The order in which allow_login_attempt asks, and the keys reset_login_attempts deletes.
KeysOf(login) == <<Key("ip", login), Key("account", login), Key("pair", login)>>
ResetKeys(login) == {Key("account", login), Key("pair", login)}

VARIABLES
  rows,      \* committed rows: start of the window and attempts in it
  holder,    \* the transaction that holds the lock of a key
  doing,   \* the transactions
  clock,
  granted    \* history: attempts counted in each window of a key since it was last reset

throttleVars == <<rows, holder, doing, clock, granted>>

Absent == [start |-> -1, attempts |-> 0]
Nobody == "nobody"
Idle == [does |-> "idle"]

Holds(r) == {k \in Keys : holder[k] = r}
Free(k, r) == holder[k] \in {Nobody, r}

\* The end of a transaction: its locks are released.
End(r) ==
  /\ holder' = [k \in Keys |-> IF holder[k] = r THEN Nobody ELSE holder[k]]
  /\ doing' = [doing EXCEPT ![r] = Idle]

-----------------------------------------------------------------------------
BeginAttempt(r, login) ==
  /\ doing[r] = Idle
  /\ doing' = [doing EXCEPT ![r] =
       [does |-> "find", login |-> login, at |-> 1, now |-> 0, row |-> Absent, wrote |-> <<>>]]
  /\ UNCHANGED <<rows, holder, clock, granted>>

Wanted(r) == KeysOf(doing[r].login)[doing[r].at]

\* get_or_create: a row is read without a lock, or created and with that held; while
\* another transaction is creating it, this one waits.
Find(r) ==
  LET k == Wanted(r)
  IN /\ doing[r].does = "find"
     /\ IF rows[k] # Absent
        THEN UNCHANGED holder
        ELSE holder[k] = Nobody /\ holder' = [holder EXCEPT ![k] = r]
     /\ doing' = [doing EXCEPT ![r].does = "lock", ![r].now = clock,
          ![r].row = IF rows[k] # Absent THEN rows[k] ELSE [start |-> clock, attempts |-> 0]]
     /\ UNCHANGED <<rows, clock, granted>>

\* Faulty LockedRow: the row as it was found, before the lock.
RowAsFound(r) == doing[r].row

\* select_for_update: the committed row, or the one this transaction has created.
LockedRow(r) ==
  IF rows[Wanted(r)] # Absent THEN rows[Wanted(r)] ELSE doing[r].row

\* The row after its window is renewed, if it is over.
Renewed(r) ==
  LET row == LockedRow(r)
  IN IF doing[r].now - row.start >= Seconds
     THEN [start |-> doing[r].now, attempts |-> 0] ELSE row

\* The row was deleted since it was found: DoesNotExist, all is rolled back.
Vanished(r) ==
  /\ doing[r].does = "lock" /\ rows[Wanted(r)] = Absent /\ holder[Wanted(r)] # r
  /\ End(r)
  /\ UNCHANGED <<rows, clock, granted>>

\* What a transaction wrote, and the row of one more key.
Also(k, row, wrote) == [x \in DOMAIN wrote \cup {k} |-> IF x = k THEN row ELSE wrote[x]]

\* Room in the window: the attempt is counted and the next key asked.
Count(r) ==
  LET k == Wanted(r)
      row == Renewed(r)
  IN /\ doing[r].does = "lock" /\ Free(k, r) /\ (rows[k] # Absent \/ holder[k] = r)
     /\ row.attempts < Limit[k.kind]
     /\ holder' = [holder EXCEPT ![k] = r]
     /\ doing' = [doing EXCEPT
          ![r].wrote = Also(k, [row EXCEPT !.attempts = @ + 1], doing[r].wrote),
          ![r].does = IF doing[r].at = 3 THEN "commit" ELSE "find",
          ![r].at = IF doing[r].at = 3 THEN 3 ELSE @ + 1, ![r].now = 0, ![r].row = Absent]
     /\ UNCHANGED <<rows, clock, granted>>

\* No room: later keys are not asked, what was counted before stays counted.
Refuse(r) ==
  LET k == Wanted(r)
  IN /\ doing[r].does = "lock" /\ Free(k, r) /\ (rows[k] # Absent \/ holder[k] = r)
     /\ Renewed(r).attempts >= Limit[k.kind]
     /\ doing' = [doing EXCEPT ![r].does = "commit", ![r].now = 0, ![r].row = Absent]
     /\ UNCHANGED <<rows, holder, clock, granted>>

CommitAttempt(r) ==
  /\ doing[r].does = "commit"
  /\ rows' = [k \in Keys |-> IF k \in DOMAIN doing[r].wrote THEN doing[r].wrote[k] ELSE rows[k]]
  /\ granted' = [k \in Keys |->
       IF k \in DOMAIN doing[r].wrote
       THEN [granted[k] EXCEPT ![doing[r].wrote[k].start] = @ + 1] ELSE granted[k]]
  /\ End(r) /\ UNCHANGED clock

-----------------------------------------------------------------------------
\* A successful sign-in; `left` are the rows it found and has not yet locked.
BeginReset(r, login) ==
  /\ doing[r] = Idle
  /\ doing' = [doing EXCEPT ![r] =
       [does |-> "reset", left |-> {k \in ResetKeys(login) : rows[k] # Absent}]]
  /\ UNCHANGED <<rows, holder, clock, granted>>

\* One DELETE locks its rows in the order in which the database comes upon them; a row
\* that is gone by then is passed over.
Delete(r, k) ==
  /\ doing[r].does = "reset" /\ k \in doing[r].left /\ Free(k, r)
  /\ holder' = [holder EXCEPT ![k] = IF rows[k] # Absent THEN r ELSE @]
  /\ doing' = [doing EXCEPT ![r].left = @ \ {k}]
  /\ UNCHANGED <<rows, clock, granted>>

CommitReset(r) ==
  /\ doing[r].does = "reset" /\ doing[r].left = {}
  /\ rows' = [k \in Keys |-> IF k \in Holds(r) THEN Absent ELSE rows[k]]
  /\ granted' = [k \in Keys |-> IF k \in Holds(r) THEN [t \in 0..MaxClock |-> 0] ELSE granted[k]]
  /\ End(r) /\ UNCHANGED clock

-----------------------------------------------------------------------------
\* The keys that keep a transaction waiting, and who waits for whom.
WaitsFor(r) ==
  CASE doing[r].does \in {"find", "lock"} -> {Wanted(r)}
    [] doing[r].does = "reset" -> doing[r].left
    [] OTHER -> {}
Waits(r, s) == r # s /\ \E k \in WaitsFor(r) : holder[k] = s /\ (doing[r].does = "find" => rows[k] = Absent)
Circle(r) == \E s \in Requests : Waits(r, s) /\ Waits(s, r)

\* The database breaks a circle.
Abort(r) == Circle(r) /\ End(r) /\ UNCHANGED <<rows, clock, granted>>

Tick == clock < MaxClock /\ clock' = clock + 1 /\ UNCHANGED <<rows, holder, doing, granted>>

ThrottleInit ==
  /\ rows = [k \in Keys |-> Absent] /\ holder = [k \in Keys |-> Nobody]
  /\ doing = [r \in Requests |-> Idle] /\ clock = 0
  /\ granted = [k \in Keys |-> [t \in 0..MaxClock |-> 0]]

ThrottleNext ==
  \/ \E r \in Requests :
       \/ \E l \in Logins : BeginAttempt(r, l) \/ BeginReset(r, l)
       \/ Find(r) \/ Vanished(r) \/ Count(r) \/ Refuse(r) \/ CommitAttempt(r)
       \/ \E k \in Keys : Delete(r, k)
       \/ CommitReset(r) \/ Abort(r)
  \/ Tick

ThrottleSpec == ThrottleInit /\ [][ThrottleNext]_throttleVars

-----------------------------------------------------------------------------
\* Attempts that arrive together, time out of order or meet a reset count one after
\* another: no window of a key lets more through than its limit, and the windows of a
\* key are at least Seconds apart ("parallel requests cannot exceed the pair quota",
\* config/tests_concurrency.py:13).
QuotasHold ==
  \A k \in Keys :
    /\ \A t \in 0..MaxClock : granted[k][t] <= Limit[k.kind]
    /\ \A t, u \in {t \in 0..MaxClock : granted[k][t] > 0} : t < u => u - t >= Seconds

=============================================================================
