----------------------------- MODULE TeamAccess -----------------------------
(***************************************************************************)
(* Who belongs to the company and in which role: the first owner           *)
(* (webapp/views.py setup), the members an owner adds, and the changes of  *)
(* access (core/account_services.py update_member_access).                 *)
(*                                                                         *)
(* Every view reads the membership when the request arrives                *)
(* (organization_required) and works with that copy; update_member_access  *)
(* asks again under the organization's lock.                               *)
(***************************************************************************)
EXTENDS FiniteSets

CONSTANTS Users, Roles      \* people, and the roles a form offers

ASSUME TeamAssumption == "owner" \in Roles /\ "none" \notin Roles

VARIABLES
  role, active,    \* Membership rows; role is "none" where there is no row
  request          \* the role a request under way was let in with, or "none"

teamVars == <<role, active, request>>

SetUp  == \E u \in Users : role[u] # "none"

\* Faulty Owners: all_objects in place of the manager of active members.
OwnersOfAnyStatus == {u \in Users : role[u] = "owner"}
Owners == {u \in Users : role[u] = "owner" /\ active[u]}

-----------------------------------------------------------------------------
\* setup looks for an owner of any company; then it makes a new company, or locks the
\* imported one and refuses it when it has a member.
Setup(u) ==
  /\ ~SetUp
  /\ role' = [role EXCEPT ![u] = "owner"] /\ active' = [active EXCEPT ![u] = TRUE]
  /\ UNCHANGED request

Arrive(u) ==
  /\ role[u] # "none" /\ active[u]
  /\ request' = [request EXCEPT ![u] = role[u]]
  /\ UNCHANGED <<role, active>>

Finish(u) == request' = [request EXCEPT ![u] = "none"]

\* The request ends without a change: a page is shown, or a refusal.
Leave(u) == request[u] # "none" /\ Finish(u) /\ UNCHANGED <<role, active>>

\* member_create does not look at the actor's row again.
MemberCreate(u, target, r) ==
  /\ request[u] = "owner" /\ role[target] = "none"
  /\ role' = [role EXCEPT ![target] = r] /\ active' = [active EXCEPT ![target] = TRUE]
  /\ Finish(u)

Authorized(u) == u \in Owners

\* The form offers the team roles or keeps the role as it is.
UpdateMemberAccess(u, target, r, keep) ==
  /\ request[u] = "owner" /\ Authorized(u)
  /\ role[target] # "none" /\ r \in Roles \cup {role[target]}
  /\ target = u => keep /\ r = "owner"
  /\ target \in Owners /\ ~(keep /\ r = "owner") => Owners \ {target} # {}
  /\ role' = [role EXCEPT ![target] = r] /\ active' = [active EXCEPT ![target] = keep]
  /\ Finish(u)

TeamInit ==
  /\ role = [u \in Users |-> "none"] /\ active = [u \in Users |-> FALSE]
  /\ request = [u \in Users |-> "none"]

TeamNext ==
  \E u \in Users :
    \/ Setup(u) \/ Arrive(u) \/ Leave(u)
    \/ \E target \in Users, r \in Roles :
         MemberCreate(u, target, r) \/ \E keep \in BOOLEAN : UpdateMemberAccess(u, target, r, keep)

TeamSpec == TeamInit /\ [][TeamNext]_teamVars

-----------------------------------------------------------------------------
TeamTypeOK ==
  /\ role \in [Users -> Roles \cup {"none"}]
  /\ active \in [Users -> BOOLEAN]
  /\ request \in [Users -> Roles \cup {"none"}]

\* A company that has been set up always has an active owner, though owners demote and
\* suspend each other with requests that arrived while both still were owners
\* (update_member_access).
AnOwnerRemains == SetUp => \E u \in Users : role[u] = "owner" /\ active[u]
=============================================================================
