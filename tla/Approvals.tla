------------------------------ MODULE Approvals ------------------------------
(***************************************************************************)
(* Objectives, decisions and budgets of the director's workspace           *)
(* (director/services.py, director/views.py): drafts that several people   *)
(* edit in browser pages, and a proposal that is submitted, reviewed,      *)
(* approved and carried out.                                               *)
(*                                                                         *)
(* A page carries the version it will post; the service compares it with   *)
(* the row under the organization's lock. An objective has no workflow: it *)
(* can be edited at any time, and its own status is part of its content.   *)
(***************************************************************************)
EXTENDS Integers

CONSTANTS
  Users, RoleOf,      \* active members of one company and their roles
  Contents,           \* what a form may say
  Kinds,              \* which of "objective", "decision", "budget" this instance has
  NoOne, NoContent,
  MaxVersion          \* bound on the edits

ASSUME ApprovalsAssumption ==
  /\ RoleOf \in [Users -> {"owner", "director", "finance"}]
  /\ Kinds \subseteq {"objective", "decision", "budget"}
  /\ NoOne \notin Users /\ NoContent \notin Contents /\ MaxVersion \in Nat

VARIABLES
  kind, status, version, content, creator, reviewer, approver,   \* the row
  excepted,     \* self_approval_reason of the approval is not empty
  page,         \* the form each user has open
  basis         \* history: the content on which the last edit was made

row     == <<kind, status, version, content, creator, reviewer, approver, excepted>>
approvalVars == <<row, page, basis>>

NoPage == [form |-> "none", version |-> 0, shown |-> NoContent, status |-> "none"]

\* The status after each step of transition_decision and transition_budget, and who may
\* take it (a budget is not reviewed and nothing follows its approval).
Steps ==
  [decision |-> {<<"submit", "draft", "submitted">>, <<"review", "submitted", "reviewed">>,
                 <<"approve", "reviewed", "approved">>, <<"activate", "approved", "active">>,
                 <<"complete", "active", "completed">>, <<"reject", "submitted", "rejected">>,
                 <<"reject", "reviewed", "rejected">>},
   budget   |-> {<<"submit", "draft", "submitted">>, <<"approve", "submitted", "approved">>},
   objective |-> {}]

Mandate(action) ==
  CASE action = "submit" -> {"owner", "director", "finance"}
    [] action = "review" -> {"owner", "finance"}
    [] OTHER             -> {"owner", "director"}

-----------------------------------------------------------------------------
Create(u, k, c) ==
  /\ status = "none"
  /\ kind' = k /\ status' = "draft" /\ version' = 1 /\ content' = c /\ creator' = u
  /\ basis' = NoContent
  /\ UNCHANGED <<reviewer, approver, excepted, page>>

\* A GET of the edit form, or of the detail page, which offers the steps of its status.
OpenPage(u, form) ==
  /\ status # "none"
  /\ page' = [page EXCEPT ![u] =
       [form |-> form, version |-> version, shown |-> content, status |-> status]]
  /\ UNCHANGED <<row, basis>>

Editable == kind = "objective" \/ status = "draft"

\* Faulty Current: _version is not called.
CurrentAlways(v) == TRUE
Current(v) == v = version

\* update_objective, update_decision, update_budget: the view redirects after the save.
Update(u, c) ==
  /\ page[u].form = "edit" /\ Current(page[u].version) /\ Editable /\ version < MaxVersion
  /\ content' = c /\ version' = version + 1
  /\ page' = [page EXCEPT ![u] = NoPage]
  /\ basis' = page[u].shown
  /\ UNCHANGED <<kind, status, creator, reviewer, approver, excepted>>

\* The service refuses the save; the view renders the user's input again, with the
\* version of the row it has just read.
Refused(u) ==
  /\ page[u].form = "edit" /\ (~Current(page[u].version) \/ ~Editable)
  /\ page' = [page EXCEPT ![u].version = version]
  /\ UNCHANGED <<row, basis>>

\* Faulty Conflict: the reviewer of a decision is not compared.
ConflictWithCreator(u) == u = creator

\* actor.pk in {created_by, reviewed_by}; a budget has no reviewer.
Conflict(u) == u \in {creator, reviewer}

\* transition_decision and transition_budget; a refusal redirects to the fresh page.
Transition(u, action, reason) ==
  /\ page[u].form = "detail"
  /\ \E step \in Steps[kind] : step[1] = action /\ step[2] = page[u].status  \* offered
  /\ RoleOf[u] \in Mandate(action) /\ Current(page[u].version)
  /\ \E step \in Steps[kind] : step[1] = action /\ step[2] = status /\ status' = step[3]
  /\ action = "approve" /\ Conflict(u) => reason /\ RoleOf[u] = "owner"
  /\ version' = version + 1
  /\ reviewer' = IF action = "review" THEN u ELSE reviewer
  /\ approver' = IF action = "approve" THEN u ELSE approver
  /\ excepted' = IF action = "approve" THEN reason ELSE excepted
  /\ page' = [page EXCEPT ![u] = NoPage]
  /\ UNCHANGED <<kind, content, creator, basis>>

ApprovalsInit ==
  /\ kind \in Kinds /\ status = "none" /\ version = 0 /\ content = NoContent
  /\ creator = NoOne /\ reviewer = NoOne /\ approver = NoOne /\ excepted = FALSE
  /\ page = [u \in Users |-> NoPage] /\ basis = NoContent

ApprovalsNext ==
  \E u \in Users :
    \/ Refused(u) \/ OpenPage(u, "edit") \/ OpenPage(u, "detail")
    \/ \E c \in Contents : Create(u, kind, c) \/ Update(u, c)
    \/ \E action \in {"submit", "review", "approve", "activate", "complete", "reject"},
          reason \in BOOLEAN : Transition(u, action, reason)

ApprovalsSpec == ApprovalsInit /\ [][ApprovalsNext]_approvalVars

-----------------------------------------------------------------------------
ApprovalsTypeOK ==
  /\ kind \in Kinds /\ version \in Nat /\ content \in Contents \cup {NoContent}
  /\ status \in {"none", "draft", "submitted", "reviewed", "approved", "active",
                 "completed", "rejected"}
  /\ {creator, reviewer, approver} \subseteq Users \cup {NoOne}
  /\ excepted \in BOOLEAN /\ basis \in Contents \cup {NoContent}
  /\ \A u \in Users : /\ page[u].version \in Nat
                      /\ page[u].shown \in Contents \cup {NoContent}

\* Whoever submits, reviews, approves or carries out a proposal does so for the text and
\* the amount that their page showed, whatever the others edited meanwhile (_version in
\* transition_decision and transition_budget, the frozen fields of Decision and Budget).
SignedAsShown ==
  [][status' # status /\ status # "none" =>
       \E u \in Users : page[u] # NoPage /\ page'[u] = NoPage /\ page[u].shown = content]_approvalVars

\* An approved proposal has passed a second pair of eyes: neither its creator nor its
\* reviewer approved it, unless an owner recorded the exception (_self_approval).
ApprovedByAnother ==
  status \in {"approved", "active", "completed"} =>
    approver \notin {creator, reviewer} \/ (excepted /\ RoleOf[approver] = "owner")

\* A save is refused when the record has changed, until it is loaded again (the
\* docs of the workspace; the version in the form).
NoEditIsLost ==
  [][content' # content /\ content # NoContent => basis' = content]_approvalVars
=============================================================================
