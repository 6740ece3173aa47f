--------------------------- MODULE MCAIReservation ---------------------------
(* Small instances of AIReservation for TLC. *)
EXTENDS AIReservation, TLC

CONSTANTS A, B,      \* two companies
          Uma, Vic   \* two users

\* One company with an owner and a member of the marketing team.
OwnerAndMarketer == [o \in Orgs |-> [u \in Users |-> IF u = Uma THEN "owner" ELSE "marketing"]]
\* Two companies with the same two owners.
TwoOwners == [o \in Orgs |-> [u \in Users |-> "owner"]]

\* Terms under which a company may make two calls a month.
TwoCalls == {[budget |-> 4, cap |-> 2]}

\* Where all roles are alike and stay so, companies and users are interchangeable.
Interchangeable == Permutations(Orgs) \cup Permutations(Users)
=============================================================================
