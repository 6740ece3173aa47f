---------------------------- MODULE AIReservation ----------------------------
(***************************************************************************)
(* Paid calls to an external model (director/ai.py _openrouter_priorities, *)
(* marketing/ai.py _external).                                             *)
(*                                                                         *)
(* A call is spread over several transactions with the network between     *)
(* them: reserve the highest cost against shared monthly counters, check   *)
(* the owner's consent, mark the reservation as dispatching, send, settle  *)
(* it with the reported cost, check the consent again, deliver. Owners     *)
(* change the consent and the team's access at any moment, several calls   *)
(* share the counters, the worker may die, the month may turn.             *)
(*                                                                         *)
(* Money is a natural number of the smallest unit. A request that is       *)
(* refused before it reserved anything changes nothing and is no step.     *)
(***************************************************************************)
EXTENDS Amounts

CONSTANTS
  Services,       \* the modules with a policy of their own that make calls
  Orgs, Users,
  Team,           \* the roles at the start: [Orgs -> [Users -> Roles]]
  RolesOffered,   \* the roles an owner may give in this instance
  Terms,          \* the budgets and caps an owner may type
  Ceiling,        \* DIRECTOR_AI_MAX_REQUEST_COST_USD
  Budget,         \* DIRECTOR_AI_MONTHLY_BUDGET_USD
  UserBudget,     \* DIRECTOR_AI_USER_MONTHLY_BUDGET_USD
  Costs,          \* the costs a provider may report
  NoCost,         \* no cost reported (None)
  NoOne,          \* no approver
  MidnightInside, \* may the month turn inside the reserving transaction
  MaxCalls, MaxMonth, MaxVersion    \* bounds

Calls    == 1..MaxCalls
Months   == 1..MaxMonth
Roles    == {"owner", "finance", "marketing", "none"}

\* The roles that _membership accepts in each service.
RolesOf == [director |-> {"owner", "finance"}, marketing |-> {"owner", "finance", "marketing"}]

ASSUME AIAssumption ==
  /\ Services \subseteq {"director", "marketing"}
  /\ Team \in [Orgs -> [Users -> Roles]] /\ RolesOffered \subseteq Roles
  /\ Terms \subseteq [budget : Nat, cap : Nat]
  /\ Ceiling \in Nat \ {0} /\ Budget \in Nat /\ UserBudget \in Nat
  /\ Ceiling <= Budget /\ Ceiling <= UserBudget
  /\ Costs \subseteq Nat /\ NoCost \notin Nat /\ NoOne \notin Users
  /\ MidnightInside \in BOOLEAN
  /\ MaxCalls \in Nat /\ MaxMonth \in Nat \ {0} /\ MaxVersion \in Nat

VARIABLES
  month,          \* the calendar month of timezone.now()
  role,           \* Membership rows; "none" for no active membership
  policy,         \* DirectorAIPolicy and MarketingAIPolicy rows
  counter,        \* AIUsageCounter rows: reserved_usd by key
  request,        \* what each call reserved: the fixed columns of AIUsageReservation
  status,         \* AIUsageReservation.status
  cost,           \* AIUsageReservation.actual_cost
  thread,         \* where the worker that runs the call is
  disturbed,      \* history: calls whose policy changed while they were under way
  stopped         \* history: the policy versions an overage has disabled

money  == <<counter, request, status, cost>>
rules  == <<role, policy, disturbed, stopped>>
aiVars == <<month, role, policy, counter, request, status, cost, thread,
            disturbed, stopped>>

PolicyRow == [enabled : BOOLEAN, version : Nat, approver : Users \cup {NoOne},
              budget : Nat, cap : Nat]

RequestRow == [service : Services \cup {"none"}, org : Orgs \cup {NoOne},
               actor : Users \cup {NoOne}, month : Months, created : Months, version : Nat]

\* The place of a reservation that was not made yet.
Unused == [service |-> "none", org |-> NoOne, actor |-> NoOne,
           month |-> 1, created |-> 1, version |-> 0]

-----------------------------------------------------------------------------
\* The counter keys "global:M", "org:O:M" or "marketing:org:O:M", and "user:U:M".
GlobalKey(m)   == <<"global", "all", m>>
TeamKey(s, o, m) == <<s, o, m>>
UserKey(u, m)  == <<"user", u, m>>
KeysOf(s, o, u, m) == {GlobalKey(m), TeamKey(s, o, m), UserKey(u, m)}

Spent(k) == IF k \in DOMAIN counter THEN counter[k] ELSE 0

\* _membership, and the policy part of _check_policy and _policy.
Member(s, o, u) == role[o][u] \in RolesOf[s]
Approved(s, o)  == policy[s][o].enabled /\ role[o][policy[s][o].approver] = "owner"

\* Faulty Consent: the version the call was admitted under is not compared.
ConsentOfAnyVersion(c) == Approved(request[c].service, request[c].org)

\* _check_policy(organization, actor, version): still the consent of the reservation.
Consent(c) ==
  /\ Approved(request[c].service, request[c].org)
  /\ policy[request[c].service][request[c].org].version = request[c].version

Actor(c)  == Member(request[c].service, request[c].org, request[c].actor)
Active    == {c \in Calls : thread[c] \in {"reserved", "checked", "sent", "completed",
                                           "failed", "ranked", "local"}}
CallsOf(s, o) == {c \in Active : request[c].service = s /\ request[c].org = o}

\* Faulty WithinLimits: the limit is compared before the ceiling is added.
WithinLimitsBefore(s, o, u) ==
  /\ Spent(GlobalKey(month)) <= Budget
  /\ Spent(TeamKey(s, o, month)) <= Budget
  /\ Spent(TeamKey(s, o, month)) <= policy[s][o].budget
  /\ Spent(UserKey(u, month)) <= UserBudget

\* The three conditional updates reserved_usd__lte = limit - ceiling.
WithinLimits(s, o, u) ==
  /\ Spent(GlobalKey(month)) + Ceiling <= Budget
  /\ Spent(TeamKey(s, o, month)) + Ceiling <= Budget
  /\ Spent(TeamKey(s, o, month)) + Ceiling <= policy[s][o].budget
  /\ Spent(UserKey(u, month)) + Ceiling <= UserBudget

-----------------------------------------------------------------------------
\* An owner gives another member of the company a role, or takes the access away.
UpdateMemberAccess(o, owner, user, new) ==
  /\ role[o][owner] = "owner" /\ owner # user
  /\ role[o][user] # new
  /\ role' = [role EXCEPT ![o][user] = new]
  /\ UNCHANGED <<month, policy, money, thread, disturbed, stopped>>

\* configure_ai_policy and configure_marketing_ai_policy.
Configure(s, o, owner, enabled, terms) ==
  /\ role[o][owner] = "owner" /\ policy[s][o].version < MaxVersion
  /\ enabled => 0 < terms.cap /\ terms.cap <= terms.budget
  /\ policy' = [policy EXCEPT ![s][o] =
       [enabled |-> enabled, version |-> @.version + 1, approver |-> owner,
        budget |-> terms.budget, cap |-> terms.cap]]
  /\ disturbed' = disturbed \cup CallsOf(s, o)
  /\ UNCHANGED <<month, role, money, thread, stopped>>

NextMonth ==
  /\ month < MaxMonth
  /\ month' = month + 1
  /\ UNCHANGED <<money, rules, thread>>

\* _reserve_external and _reserve. The counters are those of the month read first;
\* created_at is read when the row is inserted.
Reserve(c, s, o, u, created) ==
  /\ thread[c] = "none" /\ \A d \in 1..(c - 1) : thread[d] # "none"
  /\ Member(s, o, u) /\ Approved(s, o)
  /\ Ceiling <= policy[s][o].cap /\ WithinLimits(s, o, u)
  /\ counter' = [k \in DOMAIN counter \cup KeysOf(s, o, u, month) |->
       Spent(k) + IF k \in KeysOf(s, o, u, month) THEN Ceiling ELSE 0]
  /\ request' = [request EXCEPT ![c] =
       [service |-> s, org |-> o, actor |-> u, month |-> month, created |-> created,
        version |-> policy[s][o].version]]
  /\ status' = [status EXCEPT ![c] = "reserved"]
  /\ thread' = [thread EXCEPT ![c] = "reserved"]
  /\ month' = created
  /\ UNCHANGED <<cost, rules>>

-----------------------------------------------------------------------------
\* The worker of call c goes from one place to the next.
Moves(c, from, to) == thread[c] = from /\ thread' = [thread EXCEPT ![c] = to]

\* The first _check_policy of the director's call, a transaction of its own.
CheckPolicy(c) ==
  /\ Moves(c, "reserved", "checked") /\ request[c].service = "director"
  /\ Actor(c) /\ Consent(c)
  /\ UNCHANGED <<month, money, rules>>

\* _usage_state(dispatching, require_status=reserved); _dispatch checks the consent in
\* the same transaction.
Dispatch(c) ==
  /\ \/ Moves(c, "checked", "sent")
     \/ Moves(c, "reserved", "sent") /\ request[c].service = "marketing"
        /\ Actor(c) /\ Consent(c)
  /\ status[c] = "reserved"
  /\ status' = [status EXCEPT ![c] = "dispatching"]
  /\ UNCHANGED <<month, counter, request, cost, rules>>

\* Faulty Timeout: urlopen without a timeout.
TimeoutNever(c) == thread[c] = "sent" /\ FALSE /\ UNCHANGED aiVars

\* urlopen raises (timeout, connection, HTTP status), or the answer is too long.
Timeout(c) ==
  /\ Moves(c, "sent", "failed")
  /\ UNCHANGED <<month, money, rules>>

\* The answer is no valid choice: validate_completion raises before the cost is read.
RejectAnswer(c) ==
  /\ Moves(c, "sent", "failed")
  /\ UNCHANGED <<month, counter, request, status, cost, rules>>

\* A valid answer within the ceiling, or without a cost.
Complete(c, reported) ==
  /\ reported # NoCost => reported <= Ceiling
  /\ Moves(c, "sent", "completed")
  /\ status' = [status EXCEPT ![c] = "completed"]
  /\ cost' = [cost EXCEPT ![c] = reported]
  /\ UNCHANGED <<month, counter, request, rules>>

\* The existing rows among some keys take the difference to the reported cost.
Adjusted(keys, reported) ==
  [k \in DOMAIN counter |->
     IF k \in keys THEN counter[k] + (reported - Ceiling) ELSE counter[k]]

\* Faulty Corrected: the counters keep the ceiling.
CorrectedNot(c, reported) == counter

\* The counters after an overage: the director takes the month of created_at, marketing
\* the keys it reserved.
Corrected(c, reported) ==
  LET r == request[c]
      m == IF r.service = "director" THEN r.created ELSE r.month
  IN  Adjusted(KeysOf(r.service, r.org, r.actor, m), reported)

Disabled(s, o)    == [policy EXCEPT ![s][o].enabled = FALSE]

\* _record_overage, and the same part of _usage: the reported cost is above the ceiling.
RecordOverage(c, reported) ==
  LET s == request[c].service
      o == request[c].org
  IN  /\ reported # NoCost /\ reported > Ceiling
      /\ Moves(c, "sent", "failed")
      /\ counter' = Corrected(c, reported)
      /\ policy' = Disabled(s, o)
      /\ status' = [status EXCEPT ![c] = "outcome_unknown"]
      /\ cost' = [cost EXCEPT ![c] = reported]
      /\ disturbed' = disturbed \cup CallsOf(s, o)
      /\ stopped' = stopped \cup {<<s, o, policy[s][o].version>>}
      /\ UNCHANGED <<month, role, request>>

\* The second _check_policy: the answer may be delivered.
FinalCheck(c) ==
  /\ Moves(c, "completed", "ranked")
  /\ Actor(c) /\ Consent(c)
  /\ UNCHANGED <<month, money, rules>>

\* _check_policy raises DirectorAIUnavailable, _policy MarketingAIUnavailable.
Refuse(c) ==
  /\ \E place \in {"reserved", "completed"} : Moves(c, place, "failed")
  /\ Actor(c) /\ ~Consent(c)
  /\ UNCHANGED <<month, money, rules>>

\* _membership raises PermissionDenied, which no handler of the call catches.
Deny(c) ==
  /\ \E place \in {"reserved", "completed", "ranked", "local"} : Moves(c, place, "denied")
  /\ ~Actor(c)
  /\ UNCHANGED <<month, money, rules>>

\* The except clause: the outcome is unknown unless the call was completed.
HandleFailure(c) ==
  /\ Moves(c, "failed", "local")
  /\ status' = [status EXCEPT ![c] = IF @ = "completed" THEN @ ELSE "outcome_unknown"]
  /\ UNCHANGED <<month, counter, request, cost, rules>>

\* ask_director and marketing_advice store and return the answer.
Deliver(c) ==
  /\ Moves(c, "ranked", "delivered") \/ Moves(c, "local", "fallback")
  /\ Actor(c)
  /\ UNCHANGED <<month, money, rules>>

\* The worker dies, or an exception outside the except clause ends the request.
Crash(c) ==
  /\ c \in Active
  /\ thread' = [thread EXCEPT ![c] = "dead"]
  /\ UNCHANGED <<month, money, rules>>

-----------------------------------------------------------------------------
AIInit ==
  /\ month = 1 /\ role = Team
  /\ policy = [s \in Services |-> [o \in Orgs |->
       [enabled |-> FALSE, version |-> 0, approver |-> NoOne, budget |-> 0, cap |-> 0]]]
  /\ counter = [k \in {} |-> 0]
  /\ request = [c \in Calls |-> Unused]
  /\ status = [c \in Calls |-> "none"] /\ thread = [c \in Calls |-> "none"]
  /\ cost = [c \in Calls |-> NoCost]
  /\ disturbed = {} /\ stopped = {}

\* What the worker does by itself; the timeout of 20 seconds is part of it.
Advance(c) ==
  \/ CheckPolicy(c) \/ Dispatch(c) \/ Timeout(c) \/ FinalCheck(c)
  \/ Refuse(c) \/ Deny(c) \/ HandleFailure(c) \/ Deliver(c)

\* The moments at which the row of a reservation made now may be stamped.
Stamps == {month} \cup {m \in Months : MidnightInside /\ m = month + 1}

AINext ==
  \/ NextMonth
  \/ \E o \in Orgs, owner, user \in Users, new \in RolesOffered :
       UpdateMemberAccess(o, owner, user, new)
  \/ \E s \in Services, o \in Orgs, owner \in Users, enabled \in BOOLEAN, terms \in Terms :
       Configure(s, o, owner, enabled, terms)
  \/ \E c \in Calls, s \in Services, o \in Orgs, u \in Users, created \in Stamps :
       Reserve(c, s, o, u, created)
  \/ \E c \in Calls : Advance(c) \/ Crash(c)
  \/ \E c \in Calls, reported \in Costs \cup {NoCost} :
       RejectAnswer(c) \/ Complete(c, reported) \/ RecordOverage(c, reported)

\* The provider need not answer, owners need not act and the month need not turn.
AIFairness == \A c \in Calls : WF_aiVars(Advance(c))
AISpec == AIInit /\ [][AINext]_aiVars /\ AIFairness

-----------------------------------------------------------------------------
\* The tables hold rows of their models, and a call exists when its row does.
AITypeOK ==
  /\ month \in Months /\ role \in [Orgs -> [Users -> Roles]]
  /\ policy \in [Services -> [Orgs -> PolicyRow]]
  /\ \A k \in DOMAIN counter : counter[k] \in Nat
  /\ request \in [Calls -> RequestRow]
  /\ status \in [Calls -> {"none", "reserved", "dispatching", "completed", "outcome_unknown"}]
  /\ cost \in [Calls -> Nat \cup {NoCost}]
  /\ thread \in [Calls -> {"none", "reserved", "checked", "sent", "completed", "failed",
                           "ranked", "local", "delivered", "fallback", "denied", "dead"}]
  /\ \A c \in Calls : status[c] = "none" <=> thread[c] = "none"
  /\ disturbed \subseteq Calls /\ stopped \subseteq Services \X Orgs \X Nat

\* What each call counts for: its ceiling, or the reported cost when that was more.
Charges == [c \in Calls |->
  IF cost[c] # NoCost /\ cost[c] > Ceiling THEN cost[c] ELSE Ceiling]

\* The calls that reserved against a key, and what they count for together.
KeysOfCall(c) == KeysOf(request[c].service, request[c].org, request[c].actor, request[c].month)
ChargedTo(k) == {c \in Calls : thread[c] # "none" /\ k \in KeysOfCall(c)}
RowsOf(calls, charges) == {[call |-> c, amount |-> charges[c]] : c \in calls}
Charged(k) == Total(RowsOf(ChargedTo(k), Charges))

\* Every counter, shared by two services, several companies and all calls of a user, is
\* the sum of what the calls of its month count for, whatever became of them: failed,
\* refused, abandoned or more expensive than reserved (_reserve_external, _reserve,
\* _record_overage, _usage).
CountersMatch ==
  /\ \A k \in DOMAIN counter : counter[k] = Charged(k)
  /\ \A c \in Calls : thread[c] # "none" => KeysOfCall(c) \subseteq DOMAIN counter

\* What is charged to the three keys of call c is within the limits of the moment.
ChargedWithinLimits(c) ==
  LET r == request[c]
  IN  /\ Charged(GlobalKey(r.month)) <= Budget
      /\ Charged(TeamKey(r.service, r.org, r.month)) <= policy[r.service][r.org].budget
      /\ Charged(UserKey(r.actor, r.month)) <= UserBudget

\* An admitted call finds its money: what has been charged to the deployment, to the
\* company's service and to the user in the month, overages included, is within the
\* limits after it (the conditional updates, in one transaction).
AdmissionWithinLimits ==
  [][\A c \in Calls : thread[c] = "none" /\ thread'[c] # "none" => ChargedWithinLimits(c)']_aiVars

\* A call that failed, timed out or was abandoned costs its ceiling: no counter ever
\* goes down and no counter row disappears (no release in either module).
NothingIsRefunded ==
  [][\A k \in DOMAIN counter : k \in DOMAIN counter' /\ counter'[k] >= counter[k]]_aiVars

\* A completed reservation stays completed with its cost, also when the check that
\* follows refuses the answer and the except clause runs (_usage_state, _usage).
CompletedIsFinal ==
  [][\A c \in Calls : status[c] = "completed" =>
       status'[c] = "completed" /\ cost'[c] = cost[c]]_aiVars

\* An answer ranked by the external model passes only if no owner touched the policy and
\* no overage disabled it at any moment since the reservation, not even to restore it
\* (policy_version of _check_policy and _policy).
OneConsentThroughout ==
  [][\A c \in Calls : thread[c] # "ranked" /\ thread'[c] = "ranked" => c \notin disturbed]_aiVars

\* After an overage nothing is admitted under the policy version it stopped: only an
\* owner's new version opens the service again (_record_overage, _usage).
StoppedVersionsAdmitNothing ==
  [][\A c \in Calls : thread[c] = "none" /\ thread'[c] # "none" =>
       <<request'[c].service, request'[c].org, request'[c].version>> \notin stopped]_aiVars

\* Every admitted call ends although the provider may never answer: with an answer, with
\* a refusal of the caller, or with the worker (the timeout and the except clause).
EveryCallEnds ==
  \A c \in Calls : thread[c] = "reserved" ~>
    thread[c] \in {"delivered", "fallback", "denied", "dead"}
=============================================================================
