-------------------------- MODULE DirectorTheorems --------------------------
(***************************************************************************)
(* The director's workspace, for any members, budgets, entries and lines:  *)
(* an approval has passed two people, and every step of a proposal is      *)
(* taken on the text it was shown with; a budget is never exceeded and a   *)
(* chain of replacements counts once; the cash forecast tells the plan;    *)
(* marketing's figures compare like with like, for any leads and reports;  *)
(* answers to questions tell one moment and bear out what they say.        *)
(***************************************************************************)
EXTENDS Approvals, BudgetEntries, CashPlans, MarketingAdvice, Briefing, AmountTheorems,
        SequenceTheorems

-----------------------------------------------------------------------------
(* Proposals and their approval: the first theorem is inductive once the steps of the
   workflow are enumerated; the second needs that a detail page is never newer than the
   row, and shows the row's text if it is as new. *)

Actions == {"submit", "review", "approve", "activate", "complete", "reject"}
Approved == {"approved", "active", "completed"}
Statuses == {"none", "draft", "submitted", "reviewed", "approved", "active", "completed", "rejected"}

\* The steps that matter for the approval: only approve leads to approved, only what was
\* approved is carried out, and no review follows an approval.
LEMMA StepsKnown ==
  ASSUME kind \in {"objective", "decision", "budget"}, NEW step \in Steps[kind]
  PROVE  /\ step[2] # "none" /\ step[3] \in Statuses \ {"none"}
         /\ step[1] = "approve" => step[2] \notin Approved
         /\ step[1] = "review" => step[3] \notin Approved
         /\ step[3] \in Approved => step[1] = "approve" \/ step[2] \in Approved
<1>1. CASE kind = "objective"
  BY <1>1 DEF Steps
<1>2. CASE kind = "decision"
  BY <1>2 DEF Steps, Approved, Statuses
<1>3. CASE kind = "budget"
  BY <1>3 DEF Steps, Approved, Statuses
<1> QED
  BY <1>1, <1>2, <1>3

\* What both theorems need of the types.
PagesOK ==
  /\ kind \in {"objective", "decision", "budget"} /\ version \in Nat
  /\ page \in [Users -> [form : {"none", "edit", "detail"}, version : Nat,
                         shown : Contents \cup {NoContent}, status : Statuses]]
  /\ content \in Contents \cup {NoContent} /\ status \in Statuses

\* A detail page is not newer than the row, and shows its text if it is as new.
Shown ==
  \A u \in Users : page[u].form = "detail" =>
    /\ status # "none" /\ page[u].version <= version
    /\ page[u].version = version => page[u].shown = content

ApprovalsInv == PagesOK /\ Shown /\ ApprovedByAnother

\* A draft that is saved has been shown to nobody.
LEMMA CreateStep ==
  ASSUME ApprovalsInv, NEW u \in Users, NEW c \in Contents, Create(u, kind, c)
  PROVE  ApprovalsInv'
<1> USE DEF ApprovalsInv, Create
<1>1. PagesOK'
  BY DEF PagesOK, Statuses
<1>2. Shown'
  BY DEF Shown
<1>3. ApprovedByAnother'
  BY DEF ApprovedByAnother
<1> QED
  BY <1>1, <1>2, <1>3

\* A page that is opened shows the row as it is.
LEMMA OpenPageStep ==
  ASSUME ApprovalsInv, NEW u \in Users, NEW form \in {"edit", "detail"}, OpenPage(u, form)
  PROVE  ApprovalsInv'
<1> USE DEF ApprovalsInv, OpenPage, row
<1>1. PagesOK'
  BY DEF PagesOK, Statuses
<1>2. Shown'
  BY DEF Shown, PagesOK
<1>3. ApprovedByAnother'
  BY DEF ApprovedByAnother
<1> QED
  BY <1>1, <1>2, <1>3

\* The version grows with the text, so that every page open before is older.
LEMMA UpdateStep ==
  ASSUME ApprovalsInv, NEW u \in Users, NEW c \in Contents, Update(u, c)
  PROVE  ApprovalsInv'
<1> USE DEF ApprovalsInv, Update
<1>1. PagesOK'
  BY DEF PagesOK, Statuses, NoPage
<1>2. Shown'
  BY DEF Shown, PagesOK, NoPage
<1>3. ApprovedByAnother'
  BY DEF ApprovedByAnother
<1> QED
  BY <1>1, <1>2, <1>3

\* Only forms of the edit page take over a version without the text.
LEMMA RefusedStep ==
  ASSUME ApprovalsInv, NEW u \in Users, Refused(u)
  PROVE  ApprovalsInv'
<1> USE DEF ApprovalsInv, Refused, row
<1>1. PagesOK'
  BY DEF PagesOK
<1>2. Shown'
  BY DEF Shown, PagesOK
<1>3. ApprovedByAnother'
  BY DEF ApprovedByAnother
<1> QED
  BY <1>1, <1>2, <1>3

\* A step is taken on the page that shows the row, and an approval by somebody else.
LEMMA TransitionStep ==
  ASSUME ApprovalsInv, NEW u \in Users, NEW action \in Actions, NEW reason \in BOOLEAN,
         Transition(u, action, reason)
  PROVE  ApprovalsInv'
<1>1. PICK step \in Steps[kind] : step[1] = action /\ step[2] = status /\ status' = step[3]
  BY DEF Transition
<1>2. /\ step[3] \in Statuses \ {"none"}
      /\ step[1] = "approve" => step[2] \notin Approved
      /\ step[1] = "review" => step[3] \notin Approved
      /\ step[3] \in Approved => step[1] = "approve" \/ step[2] \in Approved
  BY <1>1, StepsKnown DEF ApprovalsInv, PagesOK
<1>4. PagesOK'
  BY <1>1, <1>2 DEF ApprovalsInv, PagesOK, Transition, NoPage, Statuses
<1>5. Shown'
  BY <1>1, <1>2 DEF ApprovalsInv, PagesOK, Shown, Transition, NoPage
<1>6. ApprovedByAnother'
  <2> SUFFICES ASSUME status' \in Approved
               PROVE  approver' \notin {creator', reviewer'} \/ (excepted' /\ RoleOf[approver'] = "owner")
    BY DEF ApprovedByAnother, Approved
  <2>1. CASE action = "approve"
    BY <2>1 DEF Transition, Conflict
  <2>2. CASE action # "approve"
    <3>1. status \in Approved /\ action # "review"
      BY <1>1, <1>2, <2>2
    <3>2. UNCHANGED <<creator, reviewer, approver, excepted>>
      BY <2>2, <3>1 DEF Transition
    <3> QED
      BY <3>1, <3>2 DEF ApprovalsInv, ApprovedByAnother, Approved
  <2> QED
    BY <2>1, <2>2
<1> QED
  BY <1>4, <1>5, <1>6 DEF ApprovalsInv

\* A step of another component.
LEMMA StutterStep == ApprovalsInv /\ UNCHANGED approvalVars => ApprovalsInv'
  BY DEF ApprovalsInv, PagesOK, Shown, ApprovedByAnother, approvalVars, row

\* The invariant of the approvals.
LEMMA ApprovalsInvHolds == ApprovalsSpec => []ApprovalsInv
<1>1. ApprovalsInit => ApprovalsInv
  BY ApprovalsAssumption
     DEF ApprovalsInit, ApprovalsInv, PagesOK, Shown, ApprovedByAnother, NoPage, Statuses
<1>2. ApprovalsInv /\ [ApprovalsNext]_approvalVars => ApprovalsInv'
  BY CreateStep, OpenPageStep, UpdateStep, RefusedStep, TransitionStep, StutterStep
     DEF ApprovalsNext, Actions
<1> QED
  BY <1>1, <1>2, PTL DEF ApprovalsSpec

\* No approval without a second person, or an owner's recorded exception
\* (transition_decision, transition_budget, _self_approval).
THEOREM ApprovalsPassTwoPeople == ApprovalsSpec => []ApprovedByAnother
<1>1. ApprovalsInv => ApprovedByAnother
  BY DEF ApprovalsInv
<1> QED
  BY <1>1, ApprovalsInvHolds, PTL

\* Only a transition changes the status of a proposal that exists.
LEMMA SignedStep ==
  ASSUME ApprovalsInv, [ApprovalsNext]_approvalVars, status' # status, status # "none"
  PROVE  \E u \in Users : page[u] # NoPage /\ page'[u] = NoPage /\ page[u].shown = content
<1>1. PICK u \in Users, action \in Actions, reason \in BOOLEAN : Transition(u, action, reason)
  BY DEF ApprovalsNext, Actions, Create, OpenPage, Update, Refused, row, approvalVars
<1>2. page[u].form = "detail" /\ page[u].version = version /\ page'[u] = NoPage
  BY <1>1 DEF Transition, Current, ApprovalsInv, PagesOK
<1>3. page[u].shown = content /\ page[u] # NoPage
  BY <1>2 DEF ApprovalsInv, Shown, NoPage
<1> QED
  BY <1>2, <1>3

\* A proposal moves on only by a page that shows its text (_version in
\* transition_decision and transition_budget).
THEOREM StepsAreSignedAsShown == ApprovalsSpec => SignedAsShown
<1>1. ApprovalsInv /\ [ApprovalsNext]_approvalVars =>
        [status' # status /\ status # "none" =>
           \E u \in Users : page[u] # NoPage /\ page'[u] = NoPage /\ page[u].shown = content]_approvalVars
  BY SignedStep
<1> QED
  BY <1>1, ApprovalsInvHolds, PTL DEF ApprovalsSpec, SignedAsShown

-----------------------------------------------------------------------------
(* Budgets and what is entered against them. *)

\* The function First is one with this equation, and the only one.
ChainOf(f, es) ==
  f = [e \in 1..Len(es) |-> IF es[e].replaces = NoEntry THEN e ELSE f[es[e].replaces]]
FirstOK ==
  /\ First \in [Entries -> Entries]
  /\ ChainOf(First, entries)
  /\ \A f : ChainOf(f, entries) => f = First

\* The inductive invariant of the entries.
BudgetRowsOK ==
  /\ Len(entries) \in Nat /\ entries \in Seq(EntryRow) /\ voided \subseteq Entries
  /\ \A e \in Entries : entries[e] \in EntryRow /\ entries[e].replaces < e
ChainsKept ==
  \A e, f \in Entries : First[e] = First[f] =>
    /\ entries[e].budget = entries[f].budget
    /\ e # f => e \in voided \/ f \in voided
LimitsKept == \A b \in Budgets : Consumed(b, voided) <= Authorized[b]
BudgetInv == BudgetRowsOK /\ FirstOK /\ ChainsKept /\ LimitsKept

\* An entry more leaves the beginnings of the others; its own is that of the one it
\* replaces.
LEMMA FirstGrows ==
  ASSUME BudgetRowsOK, FirstOK, NEW made \in EntryRow, made.replaces \in 0..Len(entries),
         entries' = Append(entries, made)
  PROVE  /\ FirstOK'
         /\ Len(entries') = Len(entries) + 1
         /\ \A e \in Entries : entries'[e] = entries[e] /\ First'[e] = First[e]
         /\ entries'[Len(entries) + 1] = made
         /\ First'[Len(entries) + 1] = IF made.replaces = NoEntry THEN Len(entries) + 1
                                       ELSE First[made.replaces]
<1> DEFINE n == Len(entries) + 1
           f == [e \in 1..n |-> IF e = n THEN IF made.replaces = NoEntry THEN n
                                              ELSE First[made.replaces]
                                ELSE First[e]]
<1>1. /\ Len(entries) \in Nat /\ Len(entries') = n
      /\ Entries = 1..Len(entries) /\ Entries' = 1..n
      /\ \A e \in Entries : entries'[e] = entries[e]
      /\ entries'[n] = made
  BY DEF BudgetRowsOK, Entries
<1>2. \A e \in Entries : entries[e].replaces \in 0..Len(entries) /\ entries[e].replaces < e
  BY <1>1 DEF BudgetRowsOK, EntryRow
<1>3. /\ First \in [Entries -> Entries]
      /\ \A e \in Entries : First[e] = IF entries[e].replaces = NoEntry THEN e
                                       ELSE First[entries[e].replaces]
  BY <1>1 DEF FirstOK, ChainOf
<1>4. f \in [1..n -> 1..n]
  BY <1>1, <1>3 DEF NoEntry
<1>5. /\ \A e \in Entries : f[e] = First[e]
      /\ f[n] = IF made.replaces = NoEntry THEN n ELSE First[made.replaces]
  BY <1>1
<1>6. ChainOf(f, entries')
  <2>1. \A e \in 1..n : f[e] = IF entries'[e].replaces = NoEntry THEN e
                               ELSE f[entries'[e].replaces]
    <3> SUFFICES ASSUME NEW e \in 1..n
                 PROVE  f[e] = IF entries'[e].replaces = NoEntry THEN e
                               ELSE f[entries'[e].replaces]
      OBVIOUS
    <3>1. CASE e = n
      <4>1. made.replaces # NoEntry => made.replaces \in Entries
        BY <1>1 DEF NoEntry
      <4> HIDE DEF f
      <4>2. QED
        BY <1>1, <1>5, <3>1, <4>1
    <3>2. CASE e # n
      <4>1. e \in Entries
        BY <1>1, <3>2
      <4>2. entries[e].replaces # NoEntry => entries[e].replaces \in Entries
        BY <1>1, <1>2, <4>1 DEF NoEntry
      <4> HIDE DEF f
      <4>3. QED
        BY <1>1, <1>3, <1>5, <4>1, <4>2
    <3>3. QED
      BY <3>1, <3>2
  <2>2. f = [e \in 1..n |-> f[e]]
    OBVIOUS
  <2> HIDE DEF f
  <2>3. QED
    BY <1>1, <2>1, <2>2 DEF ChainOf
<1>7. ASSUME NEW g, ChainOf(g, entries')
      PROVE  g = f
  <2>1. /\ g = [e \in 1..n |-> g[e]]
        /\ \A e \in 1..n : g[e] = IF entries'[e].replaces = NoEntry THEN e
                                  ELSE g[entries'[e].replaces]
    BY <1>1, <1>7 DEF ChainOf
  <2> DEFINE h == [e \in Entries |-> g[e]]
  <2>2. ChainOf(h, entries)
    <3>1. \A e \in Entries : h[e] = IF entries[e].replaces = NoEntry THEN e
                                    ELSE h[entries[e].replaces]
      <4> SUFFICES ASSUME NEW e \in Entries
                   PROVE  h[e] = IF entries[e].replaces = NoEntry THEN e
                                 ELSE h[entries[e].replaces]
        OBVIOUS
      <4>1. entries[e].replaces # NoEntry => entries[e].replaces \in Entries
        BY <1>1, <1>2 DEF NoEntry
      <4>2. e \in 1..n
        BY <1>1
      <4>3. QED
        BY <1>1, <2>1, <4>1, <4>2
    <3>2. h = [e \in Entries |-> h[e]]
      OBVIOUS
    <3> HIDE DEF h
    <3>3. QED
      BY <1>1, <3>1, <3>2 DEF ChainOf
  <2>3. h = First
    BY <2>2 DEF FirstOK
  <2>4. \A e \in Entries : g[e] = First[e]
    BY <2>3
  <2>5. g[n] = f[n]
    <3>1. made.replaces # NoEntry => made.replaces \in Entries
      BY <1>1 DEF NoEntry
    <3>2. n \in 1..n
      BY <1>1
    <3> HIDE DEF f, h, n
    <3>3. g[n] = IF entries'[n].replaces = NoEntry THEN n ELSE g[entries'[n].replaces]
      BY <2>1, <3>2
    <3>4. entries'[n].replaces = made.replaces
      BY <1>1
    <3>5. QED
      BY <1>5, <2>4, <3>1, <3>3, <3>4
  <2>6. \A e \in 1..n : g[e] = f[e]
    BY <1>1, <1>5, <2>4, <2>5
  <2>7. f = [e \in 1..n |-> f[e]]
    OBVIOUS
  <2> HIDE DEF f
  <2>8. QED
    BY <2>1, <2>6, <2>7
<1> HIDE DEF f
<1>8. First' = CHOOSE g : ChainOf(g, entries')
  BY DEF First, ChainOf, Entries
<1>9. First' = f
  BY <1>6, <1>7, <1>8
<1>10. FirstOK'
  BY <1>1, <1>4, <1>6, <1>7, <1>9 DEF FirstOK
<1>11. QED
  BY <1>1, <1>5, <1>9, <1>10

\* The live rows of a budget among some entries, and that they can be summed.
Consuming == EntryKinds \ {"payment"}
LiveRows(es, b, kinds, gone) ==
  {[entry |-> e, amount |-> es[e].amount] :
     e \in {x \in (1..Len(es)) \ gone : es[x].budget = b /\ es[x].kind \in kinds}}

\* What the budget adds up are the amounts of its live rows.
LEMMA SumsAreOfLiveRows ==
  ASSUME NEW b, NEW kinds, NEW gone
  PROVE  /\ Rows(Live(b, kinds, gone)) = LiveRows(entries, b, kinds, gone)
         /\ Consumed(b, gone) = Total(LiveRows(entries, b, Consuming, gone))
BY DEF Rows, Live, LiveRows, Entries, Consumed, Consuming

\* The live rows of a budget are finitely many, with natural amounts.
LEMMA LiveRowsFinite ==
  ASSUME NEW es \in Seq(EntryRow), NEW b, NEW kinds, NEW gone
  PROVE  /\ IsFiniteSet(LiveRows(es, b, kinds, gone))
         /\ \A r \in LiveRows(es, b, kinds, gone) : r.amount \in Nat
         /\ Total(LiveRows(es, b, kinds, gone)) \in Nat
<1> DEFINE ids == {x \in (1..Len(es)) \ gone : es[x].budget = b /\ es[x].kind \in kinds}
           f == [e \in ids |-> [entry |-> e, amount |-> es[e].amount]]
<1>1. IsFiniteSet(ids)
  <2>1. IsFiniteSet(1..Len(es))
    BY FS_Interval
  <2>2. QED
    BY <2>1, FS_Subset
<1>2. f \in Surjection(ids, LiveRows(es, b, kinds, gone))
  BY DEF Surjection, LiveRows
<1>3. IsFiniteSet(LiveRows(es, b, kinds, gone))
  <2> HIDE DEF f, ids
  <2> QED BY <1>1, <1>2, FS_Surjection
<1>4. \A r \in LiveRows(es, b, kinds, gone) : r.amount \in Nat
  <2>1. \A x \in 1..Len(es) : es[x].amount \in Nat
    <3>1. \A x \in 1..Len(es) : es[x] \in EntryRow
      OBVIOUS
    <3>2. QED
      BY <3>1 DEF EntryRow
  <2>2. QED
    BY <2>1 DEF LiveRows
<1>5. QED
  BY <1>3, <1>4, TotalType

\* A table with one row more, and rows of it that are void.
OneMore(more, es, made, gone) ==
  /\ es \in Seq(EntryRow) /\ made \in EntryRow /\ gone \subseteq 1..Len(es)
  /\ Len(more) = Len(es) + 1 /\ more[Len(es) + 1] = made
  /\ \A e \in 1..Len(es) : more[e] = es[e]

\* What a new row adds to the sum of its budget, and to that of no other.
LEMMA RowConsumes ==
  ASSUME NEW more, NEW es, NEW made, NEW gone, OneMore(more, es, made, gone),
         NEW b, NEW kinds, made.budget = b, made.kind \in kinds
  PROVE  Total(LiveRows(more, b, kinds, gone)) = Total(LiveRows(es, b, kinds, gone)) + made.amount
<1> DEFINE n == Len(es) + 1
           old == LiveRows(es, b, kinds, gone)
           new == [entry |-> n, amount |-> made.amount]
<1>1. es \in Seq(EntryRow) /\ Len(es) \in Nat /\ made \in EntryRow
  BY DEF OneMore
<1>2. n \notin gone /\ \A r \in old : r.entry \in 1..Len(es)
  BY <1>1 DEF LiveRows, OneMore
<1>3. LiveRows(more, b, kinds, gone) = old \cup {new}
  BY <1>1, <1>2 DEF LiveRows, OneMore
<1>4. new \notin old
  BY <1>1, <1>2
<1>5. new.amount \in Nat /\ new.amount = made.amount
  BY <1>1 DEF EntryRow
<1>6. IsFiniteSet(Units(old))
  BY <1>1, LiveRowsFinite, UnitsFinite
<1> HIDE DEF old, new
<1>7. Total(old \cup {new}) = Total(old) + new.amount
  BY <1>4, <1>5, <1>6, TotalAdd
<1>8. QED
  BY <1>3, <1>5, <1>7 DEF old

\* A row of another budget, or of another kind, is none of these.
LEMMA RowSpares ==
  ASSUME NEW more, NEW es, NEW made, NEW gone, OneMore(more, es, made, gone),
         NEW b, NEW kinds, made.budget # b \/ made.kind \notin kinds
  PROVE  LiveRows(more, b, kinds, gone) = LiveRows(es, b, kinds, gone)
<1>1. Len(es) \in Nat
  BY DEF OneMore
<1>2. QED
  BY <1>1 DEF LiveRows, OneMore

\* Voiding frees, and never consumes.
LEMMA VoidingFrees ==
  ASSUME NEW es \in Seq(EntryRow), NEW gone, NEW more, gone \subseteq more, NEW b, NEW kinds
  PROVE  Total(LiveRows(es, b, kinds, more)) <= Total(LiveRows(es, b, kinds, gone))
<1>1. LiveRows(es, b, kinds, more) \in SUBSET LiveRows(es, b, kinds, gone)
  BY DEF LiveRows
<1>2. QED
  BY <1>1, LiveRowsFinite, TotalMonotone

\* The kinds of a position add up to what is consumed.
LEMMA KindsAddUp ==
  ASSUME NEW es \in Seq(EntryRow), NEW gone, NEW b, NEW some, NEW others, some \cap others = {}
  PROVE  Total(LiveRows(es, b, some \cup others, gone))
           = Total(LiveRows(es, b, some, gone)) + Total(LiveRows(es, b, others, gone))
<1>1. /\ LiveRows(es, b, some \cup others, gone)
           = LiveRows(es, b, some, gone) \cup LiveRows(es, b, others, gone)
      /\ LiveRows(es, b, some, gone) \cap LiveRows(es, b, others, gone) = {}
  BY DEF LiveRows
<1>2. /\ IsFiniteSet(LiveRows(es, b, some, gone)) /\ IsFiniteSet(LiveRows(es, b, others, gone))
      /\ \A r \in LiveRows(es, b, some, gone) \cup LiveRows(es, b, others, gone) : r.amount \in Nat
  BY LiveRowsFinite
<1>3. QED
  BY <1>1, <1>2, TotalUnion

-----------------------------------------------------------------------------
\* What _entry does, for a new entry and for a replacement that voids the old one.
LEMMA RecordedStep ==
  ASSUME BudgetInv, NEW b \in Budgets, NEW key \in Keys, NEW k \in EntryKinds,
         NEW amount \in Sums, NEW inMonth \in BOOLEAN, NEW replaces, NEW gone,
         Recorded(b, key, k, amount, inMonth, replaces, gone),
         \/ replaces = NoEntry /\ gone = voided
         \/ /\ replaces \in Entries \ voided /\ entries[replaces].budget = b
            /\ gone = voided \cup {replaces}
  PROVE  BudgetInv'
<1>1. PICK made : made = [budget |-> b, key |-> key, kind |-> k, amount |-> amount,
                        replaces |-> replaces]
  OBVIOUS
<1>2. /\ Len(entries) \in Nat /\ entries \in Seq(EntryRow) /\ voided \subseteq Entries
      /\ Entries = 1..Len(entries)
  BY DEF BudgetInv, BudgetRowsOK, Entries
<1>3. /\ entries' = Append(entries, made) /\ voided' = gone
      /\ k # "payment" => amount <= Available(b, gone)
      /\ replaces \in 0..Len(entries) /\ gone \subseteq Entries /\ voided \subseteq gone
      /\ made.replaces = replaces /\ made.budget = b /\ made.kind = k /\ made.amount = amount
  <2>1. /\ entries' = Append(entries, made) /\ voided' = gone
        /\ k # "payment" => amount <= Available(b, gone)
    BY <1>1 DEF Recorded
  <2>2. replaces \in 0..Len(entries) /\ gone \subseteq Entries /\ voided \subseteq gone
    <3>1. CASE replaces = NoEntry /\ gone = voided
      BY <1>2, <3>1 DEF NoEntry
    <3>2. CASE replaces \in Entries \ voided /\ gone = voided \cup {replaces}
      BY <1>2, <3>2
    <3>3. QED
      BY <3>1, <3>2
  <2>3. QED
    BY <1>1, <2>1, <2>2
<1>4. made \in EntryRow /\ made.amount \in Nat
  BY <1>1, <1>3, BudgetAssumption DEF EntryRow
<1> DEFINE n == Len(entries) + 1
<1>5. /\ FirstOK' /\ Len(entries') = n /\ Entries' = 1..n
      /\ \A e \in Entries : entries'[e] = entries[e] /\ First'[e] = First[e]
      /\ entries'[n] = made
      /\ First'[n] = IF replaces = NoEntry THEN n ELSE First[replaces]
  BY <1>3, <1>4, FirstGrows DEF BudgetInv, Entries
<1>6. BudgetRowsOK'
  <2>1. entries' \in Seq(EntryRow) /\ Len(entries') \in Nat
    BY <1>2, <1>3, <1>4, <1>5
  <2>2. \A e \in Entries' : entries'[e] \in EntryRow /\ entries'[e].replaces < e
    <3> SUFFICES ASSUME NEW e \in Entries'
                 PROVE  entries'[e] \in EntryRow /\ entries'[e].replaces < e
      OBVIOUS
    <3>1. CASE e = n
      BY <1>2, <1>3, <1>4, <1>5, <3>1
    <3>2. CASE e # n
      <4>1. e \in Entries
        BY <1>2, <1>5, <3>2
      <4>2. QED
        BY <1>5, <4>1 DEF BudgetInv, BudgetRowsOK
    <3>3. QED
      BY <3>1, <3>2
  <2>3. voided' \subseteq Entries'
    BY <1>2, <1>3, <1>5
  <2>4. QED
    BY <2>1, <2>2, <2>3 DEF BudgetRowsOK
<1>7. \A e \in Entries : First[e] \in Entries
  BY DEF BudgetInv, FirstOK
<1>8. ASSUME NEW e \in Entries, First'[e] = First'[n]
      PROVE  entries'[e].budget = made.budget /\ e \in voided'
  <2>1. replaces \in Entries \ voided /\ First[e] = First[replaces]
    BY <1>2, <1>3, <1>5, <1>7, <1>8 DEF NoEntry
  <2>2. /\ entries[e].budget = entries[replaces].budget
        /\ e # replaces => e \in voided
    BY <2>1 DEF BudgetInv, ChainsKept
  <2>3. gone = voided \cup {replaces} /\ entries[replaces].budget = b
    BY <1>2, <2>1 DEF NoEntry
  <2>4. QED
    BY <1>3, <1>5, <2>1, <2>2, <2>3
<1>9. ChainsKept'
  <2> SUFFICES ASSUME NEW e \in Entries', NEW f \in Entries', First'[e] = First'[f]
               PROVE  /\ entries'[e].budget = entries'[f].budget
                      /\ e # f => e \in voided' \/ f \in voided'
    BY DEF ChainsKept
  <2>1. CASE e \in Entries /\ f \in Entries
    BY <1>3, <1>5, <2>1 DEF BudgetInv, ChainsKept
  <2>2. CASE e = n \/ f = n
    BY <1>2, <1>5, <1>8, <2>2
  <2>3. QED
    BY <1>2, <1>5, <2>1, <2>2
<1>10. LimitsKept'
  <2> SUFFICES ASSUME NEW c \in Budgets PROVE Consumed(c, voided)' <= Authorized[c]
    BY DEF LimitsKept
  <2>1. PICK more, vs : more = entries' /\ vs = voided'
    OBVIOUS
  <2> DEFINE before == Total(LiveRows(entries, c, Consuming, voided))
             freed == Total(LiveRows(entries, c, Consuming, gone))
             after == Total(LiveRows(more, c, Consuming, vs))
  <2>2. Consumed(c, voided)' = after
    BY <2>1 DEF Consumed, Rows, Live, Entries, LiveRows, Consuming
  <2>3. before <= Authorized[c] /\ Consumed(c, gone) = freed
    BY SumsAreOfLiveRows DEF BudgetInv, LimitsKept
  <2>4. /\ made.budget = c /\ made.kind \in Consuming => after = freed + made.amount
        /\ made.budget # c \/ made.kind \notin Consuming => after = freed
    <3>1. vs = gone /\ gone \subseteq 1..Len(entries)
      BY <1>2, <1>3, <2>1
    <3>2. OneMore(more, entries, made, gone)
      BY <1>2, <1>4, <1>5, <2>1, <3>1 DEF OneMore
    <3>3. CASE made.budget = c /\ made.kind \in Consuming
      BY <3>1, <3>2, <3>3, RowConsumes
    <3>4. CASE ~(made.budget = c /\ made.kind \in Consuming)
      BY <3>1, <3>2, <3>4, RowSpares
    <3>5. QED
      BY <3>3, <3>4
  <2>5. freed <= before
    BY <1>2, <1>3, VoidingFrees
  <2>6. before \in Nat /\ freed \in Nat /\ Authorized[c] \in Nat
    BY <1>2, LiveRowsFinite, BudgetAssumption
  <2>7. c = b /\ k # "payment" => amount <= Authorized[c] - freed
    BY <1>3, <2>3 DEF Available
  <2> HIDE DEF before, freed, after
  <2>8. QED
    BY <1>3, <1>4, <2>2, <2>3, <2>4, <2>5, <2>6, <2>7 DEF Consuming
<1>11. QED
  BY <1>5, <1>6, <1>9, <1>10 DEF BudgetInv

\* Voiding an entry.
LEMMA VoidStep ==
  ASSUME BudgetInv, NEW e \in Entries, VoidBudgetEntry(e)
  PROVE  BudgetInv'
<1>1. voided' = voided \cup {e} /\ entries' = entries
  BY DEF VoidBudgetEntry
<1>2. Entries' = Entries /\ First' = First
  BY <1>1 DEF Entries, First
<1>3. BudgetRowsOK' /\ FirstOK' /\ ChainsKept'
  BY <1>1, <1>2 DEF BudgetInv, BudgetRowsOK, FirstOK, ChainsKept
<1>4. LimitsKept'
  <2> SUFFICES ASSUME NEW c \in Budgets PROVE Consumed(c, voided)' <= Authorized[c]
    BY DEF LimitsKept
  <2>1. Consumed(c, voided)' = Total(LiveRows(entries, c, Consuming, voided'))
    BY <1>1 DEF Consumed, Rows, Live, Entries, LiveRows, Consuming
  <2>2. Consumed(c, voided) = Total(LiveRows(entries, c, Consuming, voided))
    BY SumsAreOfLiveRows
  <2>3. entries \in Seq(EntryRow)
    BY DEF BudgetInv, BudgetRowsOK
  <2>4. /\ Total(LiveRows(entries, c, Consuming, voided')) <= Total(LiveRows(entries, c, Consuming, voided))
        /\ Total(LiveRows(entries, c, Consuming, voided')) \in Nat
        /\ Total(LiveRows(entries, c, Consuming, voided)) \in Nat
    BY <1>1, <2>3, VoidingFrees, LiveRowsFinite
  <2>5. Consumed(c, voided) <= Authorized[c] /\ Authorized[c] \in Nat
    BY BudgetAssumption DEF BudgetInv, LimitsKept
  <2>6. QED
    BY <2>1, <2>2, <2>4, <2>5
<1>5. QED
  BY <1>3, <1>4 DEF BudgetInv

\* The invariant of the budgets.
LEMMA BudgetInvHolds == BudgetSpec => []BudgetInv
<1>1. BudgetInit => BudgetInv
  <2> SUFFICES ASSUME BudgetInit PROVE BudgetInv
    OBVIOUS
  <2>1. entries = <<>> /\ voided = {} /\ Len(entries) = 0 /\ Entries = {}
    BY DEF BudgetInit, Entries
  <2>2. FirstOK
    <3>1. PICK f : f = [e \in Entries |-> e]
      OBVIOUS
    <3>2. \A g : ChainOf(g, entries) <=> g = f
      <4>1. 1..Len(entries) = {}
        BY <2>1
      <4>2. \A g : [e \in {} |-> IF entries[e].replaces = NoEntry THEN e
                                ELSE g[entries[e].replaces]] = [e \in {} |-> e]
        OBVIOUS
      <4>3. QED
        BY <2>1, <3>1, <4>1, <4>2 DEF ChainOf
    <3>3. First = CHOOSE g : ChainOf(g, entries)
      BY DEF First, ChainOf, Entries
    <3>4. First = f
      BY <3>2, <3>3
    <3>5. QED
      BY <2>1, <3>1, <3>2, <3>4 DEF FirstOK
  <2>3. LimitsKept
    <3> SUFFICES ASSUME NEW c \in Budgets PROVE Consumed(c, voided) <= Authorized[c]
      BY DEF LimitsKept
    <3>1. LiveRows(entries, c, Consuming, voided) = {}
      BY <2>1 DEF LiveRows
    <3>2. Consumed(c, voided) = 0
      BY <3>1, SumsAreOfLiveRows, TotalEmpty
    <3>3. QED
      BY <3>2, BudgetAssumption
  <2>4. QED
    BY <2>1, <2>2, <2>3 DEF BudgetInv, BudgetRowsOK, ChainsKept
<1>2. BudgetInv /\ [BudgetNext]_budgetVars => BudgetInv'
  <2> SUFFICES ASSUME BudgetInv, [BudgetNext]_budgetVars PROVE BudgetInv'
    OBVIOUS
  <2>1. CASE UNCHANGED budgetVars
    <3>1. entries' = entries /\ voided' = voided
      BY <2>1 DEF budgetVars
    <3>2. /\ Entries' = Entries /\ First' = First
          /\ \A b : Consumed(b, voided)' = Consumed(b, voided)
      BY <3>1 DEF Entries, First, Consumed, Rows, Live
    <3>3. QED
      BY <3>1, <3>2 DEF BudgetInv, BudgetRowsOK, FirstOK, ChainsKept, LimitsKept
  <2>2. ASSUME NEW e \in Entries, VoidBudgetEntry(e)
        PROVE  BudgetInv'
    BY <2>2, VoidStep
  <2>3. ASSUME NEW key \in Keys, NEW k \in EntryKinds, NEW amount \in Sums,
               NEW inMonth \in BOOLEAN, NEW b \in Budgets,
               AddBudgetEntry(b, key, k, amount, inMonth)
        PROVE  BudgetInv'
    <3>1. Recorded(b, key, k, amount, inMonth, NoEntry, voided)
      BY <2>3 DEF AddBudgetEntry
    <3>2. QED
      BY <3>1, RecordedStep
  <2>4. ASSUME NEW key \in Keys, NEW k \in EntryKinds, NEW amount \in Sums,
               NEW inMonth \in BOOLEAN, NEW e \in Entries,
               ReplaceBudgetEntry(e, key, k, amount, inMonth)
        PROVE  BudgetInv'
    <3>1. PICK b, gone : b = entries[e].budget /\ gone = voided \cup {e}
      OBVIOUS
    <3>2. Recorded(b, key, k, amount, inMonth, e, gone) /\ e \notin voided
      BY <2>4, <3>1 DEF ReplaceBudgetEntry
    <3>3. b \in Budgets
      BY <3>1 DEF BudgetInv, BudgetRowsOK, EntryRow
    <3>4. QED
      BY <3>1, <3>2, <3>3, RecordedStep
  <2>5. QED
    BY <2>1, <2>2, <2>3, <2>4 DEF BudgetNext
<1>3. QED
  BY <1>1, <1>2, PTL DEF BudgetSpec

\* What a budget authorizes is never exceeded, a chain of replacements counts once, and the
\* position shown to the director says the same (_entry, replace_budget_entry,
\* budget_position).
THEOREM BudgetsAlwaysKept == BudgetSpec => []BudgetsKept
<1>1. BudgetInv => BudgetsKept
  <2> SUFFICES ASSUME BudgetInv, NEW b \in Budgets
               PROVE  Position(b) =
                        [consumed |-> Consumed(b, voided), available |-> Available(b, voided),
                         over |-> FALSE, paid |-> Total(Rows(Live(b, {"payment"}, voided)))]
    BY DEF BudgetInv, LimitsKept, ChainsKept, BudgetsKept
  <2>1. entries \in Seq(EntryRow)
    BY DEF BudgetInv, BudgetRowsOK
  <2> DEFINE Sum(kinds) == Total(LiveRows(entries, b, kinds, voided))
  <2>2. /\ Sum({"incurred"} \cup {"open_commitment"}) = Sum({"incurred"}) + Sum({"open_commitment"})
        /\ Sum(({"incurred"} \cup {"open_commitment"}) \cup {"reservation"})
             = Sum({"incurred"} \cup {"open_commitment"}) + Sum({"reservation"})
    BY <2>1, KindsAddUp
  <2>3. ({"incurred"} \cup {"open_commitment"}) \cup {"reservation"} = Consuming
    BY DEF Consuming, EntryKinds
  <2>4. \A kinds : Sum(kinds) \in Nat /\ Sum(kinds) = Total(Rows(Live(b, kinds, voided)))
    BY <2>1, LiveRowsFinite, SumsAreOfLiveRows
  <2>5. Consumed(b, voided) = Sum(Consuming) /\ Consumed(b, voided) <= Authorized[b]
    BY SumsAreOfLiveRows DEF BudgetInv, LimitsKept
  <2> HIDE DEF Sum
  <2>6. Consumed(b, voided) = Sum({"incurred"}) + Sum({"open_commitment"}) + Sum({"reservation"})
    BY <2>2, <2>3, <2>4, <2>5
  <2>7. ~(Consumed(b, voided) > Authorized[b])
    BY <2>4, <2>5, BudgetAssumption
  <2>8. PICK totals : totals = [k \in EntryKinds |-> Total(Rows(Live(b, {k}, voided)))]
    OBVIOUS
  <2>9. totals["incurred"] + totals["open_commitment"] + totals["reservation"] = Consumed(b, voided)
    BY <2>4, <2>6, <2>8 DEF EntryKinds
  <2>10. totals["payment"] = Total(Rows(Live(b, {"payment"}, voided)))
    BY <2>8 DEF EntryKinds
  <2>11. PICK sum : sum = Consumed(b, voided)
    OBVIOUS
  <2>12. Position(b) = [consumed |-> sum, available |-> Authorized[b] - sum,
                        over |-> sum > Authorized[b], paid |-> totals["payment"]]
    BY <2>8, <2>9, <2>11 DEF Position
  <2>13. (sum > Authorized[b]) = FALSE
    BY <2>7, <2>11
  <2>14. QED
    BY <2>10, <2>11, <2>12, <2>13 DEF Available
<1>2. QED
  BY <1>1, BudgetInvHolds, PTL

-----------------------------------------------------------------------------
(* Least elements: the way in which proofs here go by induction. *)

\* Integers that are bounded below have a least one, and Min finds it.
LEMMA MinIsLeast ==
  ASSUME NEW S, S \subseteq Int, S # {}, NEW low \in Int, \A x \in S : low <= x
  PROVE  /\ Min(S) \in S
         /\ \A x \in S : Min(S) <= x
<1> DEFINE T == {x - low : x \in S}
<1>1. T \subseteq Nat /\ T # {}
  <2>1. \A x \in S : x - low \in Nat
    <3> SUFFICES ASSUME NEW x \in S PROVE x - low \in Nat
      OBVIOUS
    <3>1. x \in Int /\ low <= x
      OBVIOUS
    <3>2. QED
      BY <3>1
  <2>2. QED
    BY <2>1
<1>2. PICK t \in T : \A u \in T : t <= u
  <2> HIDE DEF T
  <2> QED BY <1>1, LeastNat
<1>3. PICK x \in S : t = x - low
  OBVIOUS
<1>4. \A y \in S : x <= y
  <2> SUFFICES ASSUME NEW y \in S PROVE x <= y
    OBVIOUS
  <2>1. y - low \in T
    OBVIOUS
  <2>2. x - low <= y - low
    BY <1>2, <1>3, <2>1
  <2>3. x \in Int /\ y \in Int
    OBVIOUS
  <2>4. QED
    BY <2>2, <2>3
<1>5. Min(S) = CHOOSE m \in S : \A y \in S : m <= y
  BY DEF Min
<1>6. QED
  BY <1>4, <1>5

-----------------------------------------------------------------------------
(* The cash plan. *)

\* The rows of the plan, and that the cut-off has left none behind.
CashInv ==
  /\ asOf \in 1..MaxDay /\ opening \in Int
  /\ Len(lines) \in Nat /\ lines \in Seq(LineRow) /\ void \subseteq Lines
  /\ \A l \in Planned : lines[l].date >= asOf

\* The invariant of the cash plans.
LEMMA CashInvHolds == CashSpec => []CashInv
<1>1. CashInit => CashInv
  BY CashAssumption DEF CashInit, CashInv, Lines, Planned
<1>2. CashInv /\ [CashNext]_cashVars => CashInv'
  <2> SUFFICES ASSUME CashInv, [CashNext]_cashVars PROVE CashInv'
    OBVIOUS
  <2>1. CASE UNCHANGED cashVars
    BY <2>1 DEF cashVars, CashInv, Lines, Planned
  <2>2. ASSUME NEW day \in 1..MaxDay, NEW balance \in Openings, UpdateCashPlan(day, balance)
        PROVE  CashInv'
    BY <2>2, CashAssumption DEF UpdateCashPlan, NothingHiddenBy, CashInv, Lines, Planned
  <2>3. ASSUME NEW l \in Lines, VoidCashLine(l)
        PROVE  CashInv'
    BY <2>3 DEF VoidCashLine, CashInv, Lines, Planned
  <2>4. ASSUME NEW day \in 1..MaxDay, NEW direction \in {"inflow", "outflow"},
               NEW amount \in LineSums, NEW replaces \in Nat,
               LineAdded(day, direction, amount, replaces), void' \subseteq Lines, void \subseteq void'
        PROVE  CashInv'
    <3>1. PICK made : made = [date |-> day, direction |-> direction, amount |-> amount,
                            replaces |-> replaces]
      OBVIOUS
    <3>2. made \in LineRow /\ made.date = day
      BY <2>4, <3>1, CashAssumption DEF LineRow
    <3>3. lines' = Append(lines, made) /\ day >= asOf /\ asOf' = asOf /\ opening' = opening
      BY <2>4, <3>1 DEF LineAdded
    <3>4. lines \in Seq(LineRow) /\ Len(lines) \in Nat
      BY DEF CashInv
    <3>5. /\ lines' \in Seq(LineRow) /\ Len(lines') = Len(lines) + 1
          /\ lines'[Len(lines) + 1] = made
          /\ \A l \in 1..Len(lines) : lines'[l] = lines[l]
      BY <3>2, <3>3, <3>4
    <3>6. \A l \in Planned' : l = Len(lines) + 1 \/ l \in Planned
      BY <2>4, <3>4, <3>5 DEF Planned, Lines
    <3>7. \A l \in Planned' : lines'[l].date >= asOf'
      BY <3>2, <3>3, <3>5, <3>6 DEF CashInv, Planned, Lines
    <3>8. void' \subseteq Lines'
      BY <2>4, <3>4, <3>5 DEF Lines
    <3>9. Len(lines') \in Nat /\ asOf' \in 1..MaxDay /\ opening' \in Int
      BY <3>3, <3>4, <3>5 DEF CashInv
    <3>10. QED
      BY <3>5, <3>7, <3>8, <3>9 DEF CashInv
  <2>5. ASSUME NEW day \in 1..MaxDay, NEW direction \in {"inflow", "outflow"},
               NEW amount \in LineSums, AddCashLine(day, direction, amount)
        PROVE  CashInv'
    BY <2>4, <2>5 DEF AddCashLine, CashInv
  <2>6. ASSUME NEW day \in 1..MaxDay, NEW direction \in {"inflow", "outflow"},
               NEW amount \in LineSums, NEW l \in Lines,
               ReplaceCashLine(l, day, direction, amount)
        PROVE  CashInv'
    <3>1. l \in Nat
      BY DEF CashInv, Lines
    <3>2. void' = void \cup {l} /\ void \subseteq Lines
      BY <2>6 DEF ReplaceCashLine, CashInv
    <3>3. void' \subseteq Lines /\ void \subseteq void'
      BY <3>2
    <3>4. QED
      BY <2>4, <2>6, <3>1, <3>3 DEF ReplaceCashLine
  <2>7. QED
    BY <2>1, <2>2, <2>3, <2>5, <2>6 DEF CashNext
<1>3. QED
  BY <1>1, <1>2, PTL DEF CashSpec

-----------------------------------------------------------------------------
(* The forecast: its running balance has a closed form. *)

\* Sums of lines.
PlanRows(ls) == {[line |-> l, amount |-> lines[l].amount] : l \in ls}

\* The rows that a sum over lines adds up are finitely many, with natural amounts.
LEMMA PlanRowsFinite ==
  ASSUME CashInv, NEW ls \in SUBSET Lines
  PROVE  /\ Amount(ls) = Total(PlanRows(ls)) /\ IsFiniteSet(PlanRows(ls))
         /\ \A r \in PlanRows(ls) : r.amount \in Nat
         /\ Amount(ls) \in Nat
<1> DEFINE f == [l \in ls |-> [line |-> l, amount |-> lines[l].amount]]
<1>1. IsFiniteSet(ls)
  <2>1. IsFiniteSet(Lines)
    BY FS_Interval DEF CashInv, Lines
  <2>2. QED
    BY <2>1, FS_Subset
<1>2. f \in Surjection(ls, PlanRows(ls))
  BY DEF Surjection, PlanRows
<1>3. IsFiniteSet(PlanRows(ls))
  <2> HIDE DEF f
  <2> QED BY <1>1, <1>2, FS_Surjection
<1>4. \A r \in PlanRows(ls) : r.amount \in Nat
  <2>1. \A l \in Lines : lines[l] \in LineRow
    BY DEF CashInv, Lines
  <2>2. \A l \in Lines : lines[l].amount \in Nat
    BY <2>1 DEF LineRow
  <2>3. QED
    BY <2>2 DEF PlanRows
<1>5. Amount(ls) = Total(PlanRows(ls))
  BY DEF Amount, PlanRows
<1>6. QED
  BY <1>3, <1>4, <1>5, TotalType

\* Two sets without a common line add up.
LEMMA AmountUnion ==
  ASSUME CashInv, NEW A \in SUBSET Lines, NEW B \in SUBSET Lines, A \cap B = {}
  PROVE  Amount(A \cup B) = Amount(A) + Amount(B)
<1>1. /\ PlanRows(A \cup B) = PlanRows(A) \cup PlanRows(B)
      /\ PlanRows(A) \cap PlanRows(B) = {}
  BY DEF PlanRows
<1>2. /\ IsFiniteSet(PlanRows(A)) /\ IsFiniteSet(PlanRows(B))
      /\ \A r \in PlanRows(A) \cup PlanRows(B) : r.amount \in Nat
  BY PlanRowsFinite
<1>3. Total(PlanRows(A) \cup PlanRows(B)) = Total(PlanRows(A)) + Total(PlanRows(B))
  BY <1>1, <1>2, TotalUnion
<1>4. A \cup B \in SUBSET Lines
  OBVIOUS
<1>5. QED
  BY <1>1, <1>3, <1>4, PlanRowsFinite

\* Fewer lines have no larger sum.
LEMMA AmountMonotone ==
  ASSUME CashInv, NEW A \in SUBSET Lines, NEW B \in SUBSET A
  PROVE  Amount(B) <= Amount(A)
<1>1. PlanRows(B) \in SUBSET PlanRows(A) /\ B \in SUBSET Lines
  BY DEF PlanRows
<1>2. /\ IsFiniteSet(PlanRows(A)) /\ \A r \in PlanRows(A) : r.amount \in Nat
      /\ Amount(A) = Total(PlanRows(A)) /\ Amount(B) = Total(PlanRows(B))
  BY <1>1, PlanRowsFinite
<1>3. QED
  BY <1>1, <1>2, TotalMonotone

\* The planned lines of a direction up to a day, and the balance of that day.
Flow(direction, day) ==
  {l \in Planned : lines[l].date <= day /\ lines[l].direction = direction}
PlanBalance(day) == opening + Amount(Flow("inflow", day)) - Amount(Flow("outflow", day))
PlanBalances == [offset \in -1..(Span - 1) |-> PlanBalance(asOf + offset)]

\* The span of the forecast and its weeks are whole numbers of days.
LEMMA SpanType ==
  /\ Span \in Nat \ {0} /\ Weeks \in Nat \ {0} /\ WeekDays \in Nat \ {0} /\ MaxDay \in Nat \ {0}
  /\ Span = Weeks * WeekDays
<1>1. /\ Weeks \in Nat \ {0} /\ WeekDays \in Nat \ {0} /\ MaxDay \in Nat \ {0}
      /\ Span = Weeks * WeekDays
  BY CashAssumption DEF Span
<1>2. 1 * WeekDays <= Weeks * WeekDays /\ Weeks * WeekDays \in Nat
  BY <1>1, TimesMonotone
<1>3. QED
  BY <1>1, <1>2

\* What every day of the plan has.
LEMMA FlowTypes ==
  ASSUME CashInv, NEW direction, NEW day
  PROVE  /\ Flow(direction, day) \in SUBSET Lines
         /\ Amount(Flow(direction, day)) \in Nat
         /\ Amount(Flow(direction, day)) <= Amount(Lines) /\ Amount(Lines) \in Nat
         /\ PlanBalance(day) \in Int
         /\ opening - Amount(Lines) \in Int /\ opening - Amount(Lines) <= PlanBalance(day)
<1>1. \A dir : Flow(dir, day) \in SUBSET Lines
  BY DEF Flow, Planned
<1>2. \A dir : Amount(Flow(dir, day)) \in Nat
  BY <1>1, PlanRowsFinite
<1>3. Lines \in SUBSET Lines
  OBVIOUS
<1>4. /\ \A dir : Amount(Flow(dir, day)) <= Amount(Lines)
      /\ Amount(Lines) \in Nat
  BY <1>1, <1>3, PlanRowsFinite, AmountMonotone
<1>5. opening \in Int
  BY DEF CashInv
<1>6. QED
  BY <1>1, <1>2, <1>4, <1>5 DEF PlanBalance

\* The balance before the first day is the assumed one, and each day adds its buckets.
LEMMA PlanBalanceStarts ==
  ASSUME CashInv
  PROVE  PlanBalance(asOf - 1) = opening
<1>1. \A l \in Planned : lines[l].date \in Nat /\ ~(lines[l].date <= asOf - 1)
  <2>1. \A l \in Planned : lines[l] \in LineRow /\ lines[l].date >= asOf /\ asOf \in Nat
    BY SpanType DEF CashInv, Planned, Lines
  <2>2. \A l \in Planned : lines[l].date \in Nat
    BY <2>1, SpanType DEF LineRow
  <2>3. QED
    BY <2>1, <2>2
<1>2. \A dir : Flow(dir, asOf - 1) = {}
  BY <1>1 DEF Flow
<1>3. PlanRows({}) = {} /\ {} \in SUBSET Lines
  BY DEF PlanRows
<1>4. Amount({}) = 0
  BY <1>3, PlanRowsFinite, TotalEmpty
<1>5. Amount(Flow("inflow", asOf - 1)) = 0 /\ Amount(Flow("outflow", asOf - 1)) = 0
  BY <1>2, <1>4
<1>6. opening \in Int
  BY DEF CashInv
<1>7. QED
  BY <1>5, <1>6 DEF PlanBalance

\* The flow up to a day is that up to the day before and the bucket of the day.
LEMMA FlowGrows ==
  ASSUME CashInv, NEW offset \in Nat, NEW direction
  PROVE  Amount(Flow(direction, asOf + offset))
           = Amount(Flow(direction, asOf + (offset - 1))) + Bucket(offset, direction)
<1> DEFINE before == Flow(direction, asOf + (offset - 1))
           new == {l \in Planned : lines[l].date = asOf + offset /\ lines[l].direction = direction}
<1>1. asOf \in Nat /\ \A l \in Planned : lines[l].date \in Nat
  <2>1. \A l \in Planned : lines[l] \in LineRow /\ asOf \in Nat
    BY SpanType DEF CashInv, Planned, Lines
  <2>2. asOf \in Nat
    BY SpanType DEF CashInv
  <2>3. QED
    BY <2>1, <2>2, SpanType DEF LineRow
<1>2. \A l \in Planned : lines[l].date <= asOf + offset
                           <=> lines[l].date <= asOf + (offset - 1) \/ lines[l].date = asOf + offset
  BY <1>1
<1>3. \A l \in Planned : ~(lines[l].date <= asOf + (offset - 1) /\ lines[l].date = asOf + offset)
  BY <1>1
<1>4. Flow(direction, asOf + offset) = before \cup new
  BY <1>2 DEF Flow
<1>5. before \cap new = {}
  BY <1>3 DEF Flow
<1>6. before \in SUBSET Lines /\ new \in SUBSET Lines
  BY DEF Flow, Planned
<1>7. Bucket(offset, direction) = Amount(new)
  BY DEF Bucket
<1> HIDE DEF before, new
<1>8. QED
  BY <1>4, <1>5, <1>6, <1>7, AmountUnion DEF before

\* The running balance of the code is the balance of the plan: of all days the first to
\* differ would follow one that does not.
LEMMA ClosingIsPlan ==
  ASSUME CashInv
  PROVE  Closing = PlanBalances
<1> DEFINE Days == -1..(Span - 1)
           RunsFrom(g) ==
             g = [offset \in Days |->
                    IF offset = -1 THEN opening
                    ELSE g[offset - 1] + Bucket(offset, "inflow") - Bucket(offset, "outflow")]
<1>1. Closing = CHOOSE g : RunsFrom(g)
  BY DEF Closing
<1>2. \A offset \in Days : PlanBalances[offset] = PlanBalance(asOf + offset)
  BY DEF PlanBalances
<1>3. PlanBalances[-1] = opening
  <2>1. -1 \in Days /\ asOf + (-1) = asOf - 1
    BY SpanType DEF CashInv
  <2>2. QED
    BY <1>2, <2>1, PlanBalanceStarts
<1>4. ASSUME NEW offset \in Days, offset # -1
      PROVE  /\ offset \in Nat /\ offset - 1 \in Days
             /\ PlanBalances[offset]
                  = PlanBalances[offset - 1] + Bucket(offset, "inflow") - Bucket(offset, "outflow")
  <2>1. offset \in Nat /\ offset - 1 \in Days
    BY <1>4, SpanType
  <2>2. \A dir : /\ Amount(Flow(dir, asOf + offset))
                      = Amount(Flow(dir, asOf + (offset - 1))) + Bucket(offset, dir)
                 /\ Amount(Flow(dir, asOf + (offset - 1))) \in Nat
    BY <2>1, FlowGrows, FlowTypes
  <2>3. \A dir : Bucket(offset, dir) \in Nat
    <3>1. \A dir : {l \in Planned : lines[l].date = asOf + offset /\ lines[l].direction = dir}
                     \in SUBSET Lines
      BY DEF Planned
    <3>2. QED
      BY <3>1, PlanRowsFinite DEF Bucket
  <2>4. opening \in Int
    BY DEF CashInv
  <2>5. PlanBalance(asOf + offset)
          = PlanBalance(asOf + (offset - 1)) + Bucket(offset, "inflow") - Bucket(offset, "outflow")
    BY <2>2, <2>3, <2>4 DEF PlanBalance
  <2>6. QED
    BY <1>2, <2>1, <2>5
<1>5. RunsFrom(PlanBalances)
  <2>1. \A offset \in Days :
          PlanBalances[offset] =
            IF offset = -1 THEN opening
            ELSE PlanBalances[offset - 1] + Bucket(offset, "inflow") - Bucket(offset, "outflow")
    BY <1>3, <1>4
  <2>2. PlanBalances = [offset \in Days |-> PlanBalances[offset]]
    BY DEF PlanBalances
  <2>3. QED
    BY <2>1, <2>2
<1>6. ASSUME NEW g, RunsFrom(g)
      PROVE  g = PlanBalances
  <2> DEFINE T == {n \in 0..Span : g[n - 1] # PlanBalances[n - 1]}
  <2>1. \A offset \in Days : g[offset] =
            IF offset = -1 THEN opening
            ELSE g[offset - 1] + Bucket(offset, "inflow") - Bucket(offset, "outflow")
    BY <1>6
  <2>2. T = {}
    <3> SUFFICES ASSUME T # {} PROVE FALSE
      OBVIOUS
    <3>1. T \subseteq Nat
      OBVIOUS
    <3>2. PICK n \in T : \A m \in T : n <= m
      <4> HIDE DEF T
      <4> QED BY <3>1, LeastNat
    <3>3. n \in 0..Span /\ n - 1 \in Days /\ g[n - 1] # PlanBalances[n - 1]
      BY SpanType
    <3>4. n # 0
      <4> SUFFICES ASSUME n = 0 PROVE FALSE
        OBVIOUS
      <4>1. n - 1 = -1 /\ -1 \in Days
        BY <3>3
      <4>2. g[-1] = opening
        BY <2>1, <4>1
      <4>3. QED
        BY <1>3, <3>3, <4>1, <4>2
    <3>5. /\ n - 1 \in Days /\ n - 1 # -1 /\ n - 1 \in 0..Span /\ n - 1 < n
          /\ (n - 1) - 1 \in Days
      BY <3>3, <3>4, SpanType
    <3>6. n - 1 \notin T
      BY <3>2, <3>5
    <3>7. g[(n - 1) - 1] = PlanBalances[(n - 1) - 1]
      BY <3>5, <3>6
    <3>8. QED
      BY <1>4, <2>1, <3>3, <3>5, <3>7
  <2>3. \A offset \in Days : g[offset] = PlanBalances[offset]
    <3> SUFFICES ASSUME NEW offset \in Days PROVE g[offset] = PlanBalances[offset]
      OBVIOUS
    <3>1. offset + 1 \in 0..Span /\ (offset + 1) - 1 = offset
      BY SpanType
    <3>2. QED
      BY <2>2, <3>1
  <2>4. g = [offset \in Days |-> g[offset]]
    BY <1>6
  <2>5. PlanBalances = [offset \in Days |-> PlanBalances[offset]]
    BY DEF PlanBalances
  <2>6. QED
    BY <2>3, <2>4, <2>5
<1> HIDE DEF RunsFrom
<1>7. QED
  BY <1>1, <1>5, <1>6

-----------------------------------------------------------------------------
(* What the director reads from it. *)

\* Every running balance is a number above what all lines together could take.
LEMMA ClosingTypes ==
  ASSUME CashInv
  PROVE  /\ opening - Amount(Lines) \in Int
         /\ \A offset \in -1..(Span - 1) :
              /\ Closing[offset] = PlanBalance(asOf + offset)
              /\ Closing[offset] \in Int
              /\ opening - Amount(Lines) <= Closing[offset]
         /\ -1 \in -1..(Span - 1) /\ Closing[-1] = opening
<1>1. \A offset \in -1..(Span - 1) : Closing[offset] = PlanBalance(asOf + offset)
  BY ClosingIsPlan DEF PlanBalances
<1>2. -1 \in -1..(Span - 1) /\ asOf + (-1) = asOf - 1
  BY SpanType DEF CashInv
<1>3. Closing[-1] = opening
  BY <1>1, <1>2, PlanBalanceStarts
<1>4. QED
  BY <1>1, <1>2, <1>3, FlowTypes

\* The balances looked at for a week, and its minimum.
WeekBalances(w) ==
  {Closing[(w - 1) * WeekDays - 1]} \cup {Closing[offset] : offset \in WeekOffsets(w)}

\* The days of a week lie within the span.
LEMMA WeekWithinSpan ==
  ASSUME NEW w \in 1..Weeks
  PROVE  /\ (w - 1) * WeekDays \in Nat /\ w * WeekDays \in Nat
         /\ (w - 1) * WeekDays < w * WeekDays /\ w * WeekDays <= Span
         /\ (w - 1) * WeekDays - 1 \in -1..(Span - 1)
         /\ WeekOffsets(w) \subseteq 0..(Span - 1)
<1>1. w \in Nat /\ w - 1 \in Nat /\ w <= Weeks /\ Weeks \in Nat /\ WeekDays \in Nat \ {0}
  BY SpanType
<1>2. /\ w * WeekDays <= Weeks * WeekDays
      /\ w * WeekDays \in Nat /\ (w - 1) * WeekDays \in Nat
  BY <1>1, TimesMonotone
<1>3. w * WeekDays = (w - 1) * WeekDays + WeekDays
  BY <1>1
<1>4. QED
  BY <1>1, <1>2, <1>3, SpanType DEF WeekOffsets

\* The minimum of a week is the balance of one of its days, and none is lower.
LEMMA WeekMinimumIs ==
  ASSUME CashInv, NEW w \in 1..Weeks
  PROVE  /\ WeekMinimum(w) \in WeekBalances(w)
         /\ \A x \in WeekBalances(w) : WeekMinimum(w) <= x
         /\ \A x \in WeekBalances(w) :
              /\ x \in Int /\ opening - Amount(Lines) <= x
              /\ \E offset \in -1..(Span - 1) : x = Closing[offset]
<1>1. \A x \in WeekBalances(w) : \E offset \in -1..(Span - 1) : x = Closing[offset]
  BY WeekWithinSpan, SpanType DEF WeekBalances
<1>2. \A x \in WeekBalances(w) : x \in Int /\ opening - Amount(Lines) <= x
  BY <1>1, ClosingTypes
<1>3. WeekBalances(w) \subseteq Int /\ WeekBalances(w) # {}
  BY <1>2 DEF WeekBalances
<1>4. opening - Amount(Lines) \in Int
  BY ClosingTypes
<1>5. WeekMinimum(w) = Min(WeekBalances(w))
  BY DEF WeekMinimum, WeekBalances
<1>6. QED
  BY <1>1, <1>2, <1>3, <1>4, <1>5, MinIsLeast

\* Every day of the horizon lies in one of its weeks, after all days of the weeks before.
LEMMA WeekOfDay ==
  ASSUME NEW offset \in 0..(Span - 1)
  PROVE  \E w \in 1..Weeks :
           /\ offset \in WeekOffsets(w)
           /\ \A v \in 1..(w - 1) : v * WeekDays <= offset
<1> DEFINE T == {w \in Nat : offset < w * WeekDays}
<1>1. Weeks \in T /\ T \subseteq Nat
  BY SpanType
<1>2. PICK w \in T : \A v \in T : w <= v
  <2> HIDE DEF T
  <2> QED BY <1>1, LeastNat
<1>3. w \in Nat /\ offset < w * WeekDays /\ w <= Weeks /\ offset \in Nat /\ WeekDays \in Nat \ {0}
  BY <1>1, <1>2, SpanType
<1>4. w # 0
  BY <1>3
<1>5. w \in 1..Weeks /\ w - 1 \in Nat
  BY <1>3, <1>4, SpanType
<1>6. \A v \in 0..(w - 1) : v * WeekDays <= offset
  <2> SUFFICES ASSUME NEW v \in 0..(w - 1) PROVE v * WeekDays <= offset
    OBVIOUS
  <2>1. v \in Nat /\ ~(w <= v) /\ v * WeekDays \in Nat
    BY <1>3, <1>5, TimesMonotone
  <2>2. v \notin T
    BY <1>2, <2>1
  <2>3. QED
    BY <1>3, <2>1, <2>2
<1>7. (w - 1) * WeekDays <= offset
  BY <1>5, <1>6
<1>8. offset \in WeekOffsets(w)
  BY <1>3, <1>5, <1>7, WeekWithinSpan DEF WeekOffsets
<1>9. QED
  BY <1>5, <1>6, <1>8

\* The least balance of the plan is the least of its weeks.
LEMMA MinimumOfWeeks ==
  ASSUME CashInv
  PROVE  MinimumBalance = Min({WeekMinimum(w) : w \in 1..Weeks})
<1> DEFINE All == {Closing[offset] : offset \in -1..(Span - 1)}
           Minima == {WeekMinimum(w) : w \in 1..Weeks}
           low == opening - Amount(Lines)
<1>1. low \in Int /\ \A x \in All : x \in Int /\ low <= x
  BY ClosingTypes
<1>2. All # {}
  BY ClosingTypes
<1>3. \A x \in Minima : x \in All
  BY WeekMinimumIs
<1>4. 1 \in 1..Weeks
  BY SpanType
<1>5. \A x \in All : \E m \in Minima : m <= x
  <2> SUFFICES ASSUME NEW offset \in -1..(Span - 1)
               PROVE  \E m \in Minima : m <= Closing[offset]
    OBVIOUS
  <2>1. CASE offset = -1
    <3>1. (1 - 1) * WeekDays - 1 = -1
      BY SpanType
    <3>2. Closing[offset] \in WeekBalances(1)
      BY <2>1, <3>1 DEF WeekBalances
    <3>3. QED
      BY <1>4, <3>2, WeekMinimumIs
  <2>2. CASE offset # -1
    <3>1. offset \in 0..(Span - 1)
      BY <2>2, SpanType
    <3>2. PICK w \in 1..Weeks : offset \in WeekOffsets(w)
      BY <3>1, WeekOfDay
    <3>3. Closing[offset] \in WeekBalances(w)
      BY <3>2 DEF WeekBalances
    <3>4. QED
      BY <3>3, WeekMinimumIs
  <2>3. QED
    BY <2>1, <2>2
<1>6. Minima # {}
  BY <1>4
<1>7. MinimumBalance = Min(All)
  BY DEF MinimumBalance
<1>8. /\ Min(All) \in All /\ \A x \in All : Min(All) <= x
      /\ Min(Minima) \in Minima /\ \A x \in Minima : Min(Minima) <= x
  <2> HIDE DEF All, Minima, low
  <2>1. All \subseteq Int /\ Minima \subseteq Int /\ \A x \in Minima : low <= x
    BY <1>1, <1>3
  <2>2. Min(All) \in All /\ \A x \in All : Min(All) <= x
    BY <1>1, <1>2, <2>1, MinIsLeast
  <2>3. Min(Minima) \in Minima /\ \A x \in Minima : Min(Minima) <= x
    BY <1>1, <1>6, <2>1, MinIsLeast
  <2>4. QED
    BY <2>2, <2>3
<1> HIDE DEF All, Minima, low
<1>9. Min(All) <= Min(Minima) /\ Min(Minima) <= Min(All)
  <2>1. PICK m \in Minima : m <= Min(All)
    BY <1>5, <1>8
  <2>2. m \in Int /\ Min(All) \in Int /\ Min(Minima) \in Int /\ Min(Minima) <= m
    BY <1>1, <1>3, <1>8
  <2>3. QED
    BY <1>3, <1>8, <2>1, <2>2
<1>10. QED
  BY <1>1, <1>3, <1>7, <1>8, <1>9 DEF Minima

\* A week is marked if one of its balances is below the reserve.
Marked == {w \in 1..Weeks : WeekMinimum(w) < Reserve}

\* A week is marked when one of its balances is below the reserve.
LEMMA MarkedWeeks ==
  ASSUME CashInv, NEW w \in 1..Weeks
  PROVE  w \in Marked <=> \E x \in WeekBalances(w) : x < Reserve
<1>1. /\ WeekMinimum(w) \in WeekBalances(w) /\ Reserve \in Int
      /\ \A x \in WeekBalances(w) : WeekMinimum(w) <= x /\ x \in Int
  BY WeekMinimumIs, CashAssumption
<1>2. ASSUME NEW x \in WeekBalances(w), x < Reserve
      PROVE  WeekMinimum(w) < Reserve
  BY <1>1, <1>2
<1>3. QED
  BY <1>1, <1>2 DEF Marked

\* The first shortfall lies in the first week that is marked; without one no week is.
LEMMA ShortfallInFirstMarked ==
  ASSUME CashInv
  PROVE  /\ FirstShortfall = 0 <=> Marked = {}
         /\ Marked # {} => FirstShortfall - asOf \in WeekOffsets(Min(Marked))
<1>1. /\ asOf \in Nat \ {0} /\ opening \in Int /\ Reserve \in Int
      /\ WeekDays \in Nat \ {0} /\ Weeks \in Nat \ {0}
  BY SpanType, CashAssumption DEF CashInv
<1>2. Marked \subseteq Int /\ \A w \in Marked : 1 <= w
  BY <1>1 DEF Marked
<1>3. ASSUME NEW w \in Marked, \A v \in 1..(w - 1) : v \notin Marked
      PROVE  Min(Marked) = w
  <2>1. w \in Int /\ \A v \in Marked : w <= v
    BY <1>1, <1>3 DEF Marked
  <2>2. PICK one : one = 1
    OBVIOUS
  <2>3. one \in Int /\ Marked # {} /\ \A v \in Marked : one <= v
    BY <1>2, <1>3, <2>2
  <2>4. Min(Marked) \in Marked /\ \A v \in Marked : Min(Marked) <= v
    BY <1>2, <2>3, MinIsLeast
  <2>5. PICK m : m = Min(Marked)
    OBVIOUS
  <2>6. m \in Int /\ w <= m /\ m <= w
    BY <1>2, <1>3, <2>1, <2>4, <2>5
  <2>7. QED
    BY <2>1, <2>5, <2>6
<1>4. CASE opening < Reserve
  <2>1. FirstShortfall = asOf
    BY <1>4 DEF FirstShortfall
  <2>2. 1 \in Marked
    <3>1. 1 \in 1..Weeks /\ (1 - 1) * WeekDays - 1 = -1
      BY <1>1
    <3>2. opening \in WeekBalances(1)
      BY <3>1, ClosingTypes DEF WeekBalances
    <3>3. QED
      BY <1>4, <3>1, <3>2, MarkedWeeks
  <2>3. Min(Marked) = 1
    BY <1>3, <2>2
  <2>4. 0 \in WeekOffsets(1)
    BY <1>1 DEF WeekOffsets
  <2>5. QED
    BY <1>1, <2>1, <2>2, <2>3, <2>4
<1>5. CASE ~(opening < Reserve)
  <2> DEFINE below == {offset \in 0..(Span - 1) : Closing[offset] < Reserve}
  <2>1. FirstShortfall = IF below = {} THEN 0 ELSE asOf + Min(below)
    BY <1>5 DEF FirstShortfall
  <2>2. ASSUME NEW w \in 1..Weeks, \A offset \in WeekOffsets(w) : offset \notin below,
               (w - 1) * WeekDays - 1 \notin below
        PROVE  w \notin Marked
    <3>1. \A offset \in -1..(Span - 1) : offset \notin below => ~(Closing[offset] < Reserve)
      <4>1. \A offset \in -1..(Span - 1) : offset = -1 \/ offset \in 0..(Span - 1)
        BY SpanType
      <4>2. QED
        BY <1>5, <4>1, ClosingTypes
    <3>2. /\ (w - 1) * WeekDays - 1 \in -1..(Span - 1)
          /\ \A offset \in WeekOffsets(w) : offset \in -1..(Span - 1)
      BY WeekWithinSpan, SpanType
    <3>3. \A x \in WeekBalances(w) : ~(x < Reserve)
      BY <2>2, <3>1, <3>2 DEF WeekBalances
    <3>4. QED
      BY <3>3, MarkedWeeks
  <2>3. CASE below = {}
    <3>1. Marked = {}
      BY <2>2, <2>3 DEF Marked
    <3>2. QED
      BY <2>1, <2>3, <3>1
  <2>4. CASE below # {}
    <3>1. PICK m : m = Min(below)
      OBVIOUS
    <3>2. m \in below /\ \A offset \in below : m <= offset
      <4>1. PICK zero : zero = 0
        OBVIOUS
      <4>2. below \subseteq Int /\ zero \in Int /\ \A x \in below : zero <= x
        BY <4>1, SpanType
      <4> HIDE DEF below
      <4>3. QED
        BY <2>4, <3>1, <4>2, MinIsLeast
    <3>3. m \in 0..(Span - 1) /\ m \in Nat /\ Closing[m] < Reserve
      BY <3>2, SpanType
    <3>4. PICK w \in 1..Weeks : m \in WeekOffsets(w) /\ \A v \in 1..(w - 1) : v * WeekDays <= m
      BY <3>3, WeekOfDay
    <3>5. w \in Marked
      <4>1. Closing[m] \in WeekBalances(w)
        BY <3>4 DEF WeekBalances
      <4>2. QED
        BY <3>3, <4>1, MarkedWeeks
    <3>6. \A v \in 1..(w - 1) : v \notin Marked
      <4> SUFFICES ASSUME NEW v \in 1..(w - 1) PROVE v \notin Marked
        OBVIOUS
      <4>1. v \in 1..Weeks /\ v * WeekDays <= m
        BY <1>1, <3>4
      <4>2. /\ \A offset \in WeekOffsets(v) : offset \in Int /\ offset < v * WeekDays
            /\ (v - 1) * WeekDays - 1 < v * WeekDays
            /\ (v - 1) * WeekDays \in Nat /\ v * WeekDays \in Nat
        BY <4>1, WeekWithinSpan, SpanType DEF WeekOffsets
      <4>3. \A offset \in below : v * WeekDays <= offset /\ offset \in Int
        BY <3>2, <3>3, <4>1, <4>2, SpanType
      <4>4. /\ \A offset \in WeekOffsets(v) : offset \notin below
            /\ (v - 1) * WeekDays - 1 \notin below
        <5> HIDE DEF below
        <5> QED BY <4>2, <4>3
      <4>5. QED
        BY <2>2, <4>1, <4>4
    <3>7. Min(Marked) = w
      BY <1>3, <3>5, <3>6
    <3>8. FirstShortfall = asOf + m
      BY <2>1, <2>4, <3>1
    <3>9. FirstShortfall # 0 /\ FirstShortfall - asOf = m
      BY <1>1, <3>3, <3>8
    <3>10. QED
      BY <3>4, <3>5, <3>7, <3>9
  <2>5. QED
    BY <2>3, <2>4
<1>6. QED
  BY <1>4, <1>5

\* The forecast tells the whole plan: its balances are the assumed one and every planned
\* line up to their day, nothing is left before the cut-off, and its three views of a
\* shortage agree (update_cash_plan, _cash_line, cash_forecast).
THEOREM ForecastAlwaysTellsThePlan == CashSpec => []ForecastTellsThePlan
<1>1. CashInv => ForecastTellsThePlan
  <2> SUFFICES ASSUME CashInv PROVE ForecastTellsThePlan
    OBVIOUS
  <2>1. asOf \in Nat /\ \A l \in Planned : lines[l].date \in Nat /\ asOf <= lines[l].date
    <3>1. \A l \in Planned : lines[l] \in LineRow /\ lines[l].date >= asOf
      BY DEF CashInv, Planned, Lines
    <3>2. asOf \in Nat
      BY SpanType DEF CashInv
    <3>3. QED
      BY <3>1, <3>2, SpanType DEF LineRow
  <2>2. BeforeStart = {}
    BY <2>1 DEF BeforeStart
  <2>3. ASSUME NEW offset \in 0..(Span - 1)
        PROVE  Closing[offset] = opening + Net({l \in Planned : lines[l].date <= asOf + offset})
    <3>1. offset \in -1..(Span - 1)
      BY SpanType
    <3>2. Closing[offset] = PlanBalance(asOf + offset)
      BY <3>1, ClosingTypes
    <3> DEFINE upto == {l \in Planned : lines[l].date <= asOf + offset}
    <3>3. \A dir : {l \in upto : lines[l].direction = dir} = Flow(dir, asOf + offset)
      BY DEF Flow
    <3>4. Net(upto) = Amount(Flow("inflow", asOf + offset)) - Amount(Flow("outflow", asOf + offset))
      BY <3>3 DEF Net
    <3>5. opening \in Int /\ \A dir : Amount(Flow(dir, asOf + offset)) \in Nat
      BY FlowTypes DEF CashInv
    <3>6. QED
      BY <3>2, <3>4, <3>5 DEF PlanBalance
  <2>4. Closing[Span - 1] = opening + Net(Planned) - Net(AfterHorizon)
    <3> DEFINE day == asOf + (Span - 1)
               Dir(dir) == {l \in Planned : lines[l].direction = dir}
               After(dir) == {l \in AfterHorizon : lines[l].direction = dir}
    <3>1. Closing[Span - 1] = PlanBalance(day)
      BY SpanType, ClosingTypes
    <3>2. \A l \in Planned : (lines[l].date <= day <=> ~(lines[l].date > asOf + Span - 1))
      BY <2>1, SpanType
    <3>3. \A dir : /\ Dir(dir) = Flow(dir, day) \cup After(dir)
                   /\ Flow(dir, day) \cap After(dir) = {}
      BY <3>2 DEF Flow, AfterHorizon
    <3>4. \A dir : Flow(dir, day) \in SUBSET Lines /\ After(dir) \in SUBSET Lines
      BY DEF Flow, AfterHorizon, Planned
    <3>5. Net(Planned) = Amount(Dir("inflow")) - Amount(Dir("outflow"))
      BY DEF Net
    <3>6. Net(AfterHorizon) = Amount(After("inflow")) - Amount(After("outflow"))
      BY DEF Net
    <3>7. opening \in Int
      BY DEF CashInv
    <3> HIDE DEF day, Dir, After
    <3>8. \A dir : /\ Amount(Dir(dir)) = Amount(Flow(dir, day)) + Amount(After(dir))
                   /\ Amount(Flow(dir, day)) \in Nat /\ Amount(After(dir)) \in Nat
      BY <3>3, <3>4, AmountUnion, PlanRowsFinite
    <3>9. QED
      BY <3>1, <3>5, <3>6, <3>7, <3>8 DEF PlanBalance
  <2>5. QED
    BY <2>2, <2>3, <2>4, MinimumOfWeeks, ShortfallInFirstMarked DEF ForecastTellsThePlan, Marked
<1>2. QED
  BY <1>1, CashInvHolds, PTL

-----------------------------------------------------------------------------
(* Marketing figures and advice. *)

\* A lead has the channel of its campaign, and names that are no row's.
LeadKept(l) ==
  /\ l = [reference |-> l.reference, received |-> l.received, campaign |-> l.campaign,
          channel |-> l.channel, product |-> l.product, member |-> l.member, stage |-> l.stage,
          followUp |-> l.followUp, order |-> l.order]
  /\ l.campaign \in Campaigns \cup {Unknown} /\ l.channel \in Channels
  /\ l.product \in Products \cup {Unknown} /\ l.member \in Members /\ l.order \in Orders \cup {Unknown}
  /\ l.campaign # Unknown => l.channel = ChannelOf[l.campaign]

\* What is told of work that is open was told on a day of its period.
OfItsDay(x) ==
  /\ x = [finding |-> x.finding, scope |-> x.scope, day |-> x.day, status |-> x.status]
  /\ x.finding \in {"follow_up", "collect_agreed"} => x.scope.from <= x.day /\ x.day <= x.scope.to

ReceiptKept(r) == r.order \in Orders /\ r.amount \in Nat

ReportKept(a) ==
  a = [campaign |-> a.campaign, day |-> a.day, ad |-> a.ad, spend |-> a.spend] /\ a.campaign \in Campaigns

RecordsKept ==
  /\ today \in AdviceDays
  /\ IsFiniteSet(prospects) /\ IsFiniteSet(adReports) /\ IsFiniteSet(receipts)
  /\ \A l \in prospects : LeadKept(l)
  /\ \A l, m \in prospects : l.order # Unknown /\ l.order = m.order => l = m
  /\ \A a \in adReports : ReportKept(a)
  /\ \A r \in receipts : ReceiptKept(r)

TasksKept ==
  /\ verified = NoTask \/ OfItsDay(verified)
  /\ (\E S : tasks \in Seq(S)) /\ \A t \in DOMAIN tasks : OfItsDay(tasks[t])

AdviceInv == RecordsKept /\ TasksKept

\* A lead that is entered, changed or linked keeps what the figures read of leads.
LEMMA LeadsReplaced ==
  ASSUME RecordsKept, NEW l \in prospects, NEW new, LeadKept(new),
         new.order # Unknown => \A m \in prospects \ {l} : m.order # new.order,
         prospects' = (prospects \ {l}) \cup {new}, UNCHANGED <<today, adReports, receipts>>
  PROVE  RecordsKept'
<1>1. IsFiniteSet(prospects \ {l}) /\ IsFiniteSet({new})
  BY FS_Subset, FS_Singleton, prospects \ {l} \in SUBSET prospects DEF RecordsKept
<1>2. IsFiniteSet((prospects \ {l}) \cup {new})
  BY <1>1, FS_Union
<1>3. IsFiniteSet(prospects')
  BY <1>2
<1>4. \A m \in prospects' : LeadKept(m)'
  BY DEF RecordsKept, LeadKept
<1>5. \A m, n \in prospects' : m.order # Unknown /\ m.order = n.order => m = n
  BY DEF RecordsKept
<1> QED
  BY <1>3, <1>4, <1>5 DEF RecordsKept, ReportKept, ReceiptKept

\* So do reports and receipts, and the days.
LEMMA RecordsStep ==
  ASSUME RecordsKept, RecordStep \/ NextAdDay
  PROVE  RecordsKept'
<1>1. ASSUME NEW name, NEW received, NEW campaign \in Campaigns \cup {Unknown}, NEW channel \in Channels,
             NEW product \in Products \cup {Unknown}, NEW member \in Members, NEW stage, NEW followUp,
             CreateLead(name, received, campaign, channel, product, member, stage, followUp)
      PROVE  RecordsKept'
  <2> DEFINE own == IF campaign # Unknown /\ product = Unknown THEN ProductOf[campaign] ELSE product
             new == [reference |-> name, received |-> received, campaign |-> campaign, channel |-> channel,
                     product |-> own, member |-> member, stage |-> stage, followUp |-> followUp,
                     order |-> Unknown]
  <2>1. prospects' = prospects \cup {new} /\ UNCHANGED <<today, adReports, receipts>>
    BY <1>1 DEF CreateLead
  <2>2. campaign # Unknown => channel = ChannelOf[campaign]
    BY <1>1 DEF CreateLead
  <2>3. own \in Products \cup {Unknown}
    BY AdviceAssumption
  <2> HIDE DEF own
  <2>4. LeadKept(new) /\ new.order = Unknown
    BY <2>2, <2>3 DEF LeadKept
  <2> HIDE DEF new
  <2>5. IsFiniteSet(prospects) /\ IsFiniteSet({new})
    BY FS_Singleton DEF RecordsKept
  <2>6. IsFiniteSet(prospects \cup {new})
    BY <2>5, FS_Union
  <2>7. IsFiniteSet(prospects')
    BY <2>1, <2>6
  <2>8. \A l \in prospects' : LeadKept(l)'
    BY <2>1, <2>4 DEF RecordsKept, LeadKept
  <2>9. \A l, m \in prospects' : l.order # Unknown /\ l.order = m.order => l = m
    BY <2>1, <2>4 DEF RecordsKept
  <2> QED
    BY <2>1, <2>7, <2>8, <2>9 DEF RecordsKept, ReportKept, ReceiptKept
<1>2. ASSUME NEW l \in prospects, NEW stage, NEW followUp, UpdateLead(l, stage, followUp)
      PROVE  RecordsKept'
  <2>1. PICK new : new = [l EXCEPT !.stage = stage, !.followUp = followUp]
    OBVIOUS
  <2>2. prospects' = (prospects \ {l}) \cup {new} /\ UNCHANGED <<today, adReports, receipts>>
    BY <1>2, <2>1 DEF UpdateLead, Revised
  <2>3. LeadKept(l)
    BY DEF RecordsKept
  <2>4. LeadKept(new) /\ new.order = l.order
    BY <2>1, <2>3 DEF LeadKept
  <2>5. new.order # Unknown => \A m \in prospects \ {l} : m.order # new.order
    BY <2>4 DEF RecordsKept
  <2> QED
    BY <2>2, <2>4, <2>5, LeadsReplaced
<1>3. ASSUME NEW l \in prospects, NEW v \in Orders, LinkInvoice(l, v)
      PROVE  RecordsKept'
  <2>1. PICK new : new = [l EXCEPT !.order = v, !.product = OrderProduct[v]]
    OBVIOUS
  <2>2. /\ prospects' = (prospects \ {l}) \cup {new} /\ UNCHANGED <<today, adReports, receipts>>
        /\ \A m \in prospects : m.order # v
    BY <1>3, <2>1 DEF LinkInvoice, Revised
  <2>3. LeadKept(l)
    BY DEF RecordsKept
  <2>4. LeadKept(new) /\ new.order = v
    BY <2>1, <2>3, AdviceAssumption DEF LeadKept
  <2>5. new.order # Unknown => \A m \in prospects \ {l} : m.order # new.order
    BY <2>2, <2>4
  <2> QED
    BY <2>2, <2>4, <2>5, LeadsReplaced
<1>4. ASSUME NEW campaign \in Campaigns, NEW day, NEW ad, NEW spend, SaveAdObservation(campaign, day, ad, spend)
      PROVE  RecordsKept'
  <2>1. PICK new : new = [campaign |-> campaign, day |-> day, ad |-> ad, spend |-> spend]
    OBVIOUS
  <2>2. adReports' = adReports \cup {new} /\ UNCHANGED <<today, prospects, receipts>>
    BY <1>4, <2>1 DEF SaveAdObservation
  <2>3. IsFiniteSet(adReports) /\ IsFiniteSet({new}) /\ ReportKept(new)
    BY <2>1, FS_Singleton DEF RecordsKept, ReportKept
  <2>4. IsFiniteSet(adReports \cup {new})
    BY <2>3, FS_Union
  <2>5. IsFiniteSet(adReports')
    BY <2>2, <2>4
  <2> QED
    BY <2>2, <2>3, <2>5 DEF RecordsKept, LeadKept, ReportKept, ReceiptKept
<1>5. ASSUME NEW a \in adReports, NEW spend, CorrectAdObservation(a, spend)
      PROVE  RecordsKept'
  <2>1. PICK new : new = [a EXCEPT !.spend = spend]
    OBVIOUS
  <2>2. adReports' = (adReports \ {a}) \cup {new} /\ UNCHANGED <<today, prospects, receipts>>
    BY <1>5, <2>1 DEF CorrectAdObservation
  <2>3. ReportKept(new)
    BY <2>1 DEF RecordsKept, ReportKept
  <2>4. IsFiniteSet(adReports \ {a}) /\ IsFiniteSet({new})
    BY FS_Subset, FS_Singleton, adReports \ {a} \in SUBSET adReports DEF RecordsKept
  <2>5. IsFiniteSet((adReports \ {a}) \cup {new})
    BY <2>4, FS_Union
  <2>6. IsFiniteSet(adReports')
    BY <2>2, <2>5
  <2> QED
    BY <2>2, <2>3, <2>6 DEF RecordsKept, LeadKept, ReportKept, ReceiptKept
<1>6. ASSUME NEW v \in Orders, NEW day, NEW amount \in 1..2, Receive(v, day, amount)
      PROVE  RecordsKept'
  <2>1. PICK new : new = [id |-> Cardinality(receipts), order |-> v, day |-> day, amount |-> amount]
    OBVIOUS
  <2>2. receipts' = receipts \cup {new} /\ UNCHANGED <<today, prospects, adReports>>
    BY <1>6, <2>1 DEF Receive
  <2>3. ReceiptKept(new)
    BY <2>1 DEF ReceiptKept
  <2>4. IsFiniteSet(receipts \cup {new})
    BY FS_Singleton, FS_Union DEF RecordsKept
  <2>5. IsFiniteSet(receipts')
    BY <2>2, <2>4
  <2> QED
    BY <2>2, <2>3, <2>5 DEF RecordsKept, LeadKept, ReportKept, ReceiptKept
<1>7. CASE NextAdDay
  BY <1>7, AdviceAssumption DEF NextAdDay, recordVars, RecordsKept, AdviceDays, LeadKept, ReportKept, ReceiptKept
<1> QED
  BY <1>1, <1>2, <1>3, <1>4, <1>5, <1>6, <1>7 DEF RecordStep

\* A finding about open work is found on a day of the scope's period.
LEMMA FoundOnItsDay ==
  ASSUME NEW s, NEW finding \in Findings(s), finding \in {"follow_up", "collect_agreed"}
  PROVE  s.from <= today /\ today <= s.to
<1>1. finding = "follow_up" => Overdue(s) # {}
  BY DEF Findings
<1>2. finding = "collect_agreed" => UnpaidWon(s) # {}
  BY DEF Findings
<1>3. OpenWork(s) # {}
  BY <1>1, <1>2 DEF Overdue, UnpaidWon
<1> QED
  BY <1>3 DEF OpenWork, InProgress

\* Verification looks again, and a task is stored as verified; closing one leaves its finding.
LEMMA TasksStep ==
  ASSUME TasksKept, [AdviceNext]_adviceVars
  PROVE  TasksKept'
<1>1. CASE UNCHANGED taskVars
  BY <1>1 DEF taskVars, TasksKept, OfItsDay, NoTask
<1>2. ASSUME NEW finding, Verify(finding) PROVE TasksKept'
  <2>1. PICK new : new = [finding |-> finding, scope |-> advised.scope, day |-> today, status |-> "open"]
    OBVIOUS
  <2>2. verified' = new /\ tasks' = tasks /\ finding \in Findings(advised.scope)
    BY <1>2, <2>1 DEF Verify
  <2>3. OfItsDay(new)
    BY <2>1, <2>2, FoundOnItsDay DEF OfItsDay
  <2> QED
    BY <2>2, <2>3 DEF TasksKept, OfItsDay
<1>3. CASE CreateAction
  <2>1. OfItsDay(verified) /\ verified' = NoTask /\ tasks' = Append(tasks, verified)
    BY <1>3 DEF CreateAction, TasksKept
  <2>2. PICK S : tasks \in Seq(S)
    BY DEF TasksKept
  <2>3. PICK U : U = S \cup {verified}
    OBVIOUS
  <2>4. tasks \in Seq(U) /\ verified \in U
    BY <2>2, <2>3
  <2>5. /\ tasks' \in Seq(U) /\ DOMAIN tasks' = 1..(Len(tasks) + 1) /\ DOMAIN tasks = 1..Len(tasks)
        /\ tasks'[Len(tasks) + 1] = verified /\ Len(tasks) \in Nat
        /\ \A t \in 1..Len(tasks) : tasks'[t] = tasks[t]
    BY <2>1, <2>4
  <2>6. \A t \in DOMAIN tasks' : OfItsDay(tasks'[t])
    BY <2>1, <2>5 DEF TasksKept
  <2> QED
    BY <2>1, <2>5, <2>6 DEF TasksKept, OfItsDay
<1>4. CASE Abandon
  BY <1>4 DEF Abandon, TasksKept, OfItsDay
<1>5. ASSUME NEW t \in DOMAIN tasks, NEW given, NEW outcome, UpdateAction(t, given, outcome)
      PROVE  TasksKept'
  <2>1. tasks' = [tasks EXCEPT ![t].status = given] /\ verified' = verified
    BY <1>5 DEF UpdateAction
  <2>2. PICK S : tasks \in Seq(S)
    BY DEF TasksKept
  <2>3. PICK new : new = [tasks[t] EXCEPT !.status = given]
    OBVIOUS
  <2>4. OfItsDay(new)
    BY <2>3 DEF TasksKept, OfItsDay
  <2>5. PICK U : U = S \cup {new}
    OBVIOUS
  <2>6. tasks \in Seq(U) /\ new \in U
    BY <2>2, <2>5
  <2>7. tasks' = [tasks EXCEPT ![t] = new]
    BY <2>1, <2>3
  <2>8. tasks' \in Seq(U) /\ DOMAIN tasks' = DOMAIN tasks
    BY <2>6, <2>7
  <2>9. \A u \in DOMAIN tasks' : OfItsDay(tasks'[u])
    BY <2>4, <2>7, <2>8 DEF TasksKept
  <2> QED
    BY <2>1, <2>8, <2>9 DEF TasksKept, OfItsDay, NoTask
<1>6. ASSUME NEW s, Advise(s) PROVE TasksKept'
  BY <1>6 DEF Advise, TasksKept, OfItsDay, NoTask
<1>7. CASE RecordStep
  <2>1. UNCHANGED taskVars
    <3>1. ASSUME NEW name, NEW received, NEW campaign, NEW channel, NEW product, NEW member, NEW stage,
                 NEW followUp, CreateLead(name, received, campaign, channel, product, member, stage, followUp)
          PROVE  UNCHANGED taskVars
      BY <3>1 DEF CreateLead, taskVars
    <3>2. ASSUME NEW l, NEW stage, NEW followUp, UpdateLead(l, stage, followUp) PROVE UNCHANGED taskVars
      BY <3>2 DEF UpdateLead, Revised, taskVars
    <3>3. ASSUME NEW l, NEW v, LinkInvoice(l, v) PROVE UNCHANGED taskVars
      BY <3>3 DEF LinkInvoice, Revised, taskVars
    <3>4. ASSUME NEW campaign, NEW day, NEW ad, NEW spend, SaveAdObservation(campaign, day, ad, spend)
          PROVE  UNCHANGED taskVars
      BY <3>4 DEF SaveAdObservation, taskVars
    <3>5. ASSUME NEW a, NEW spend, CorrectAdObservation(a, spend) PROVE UNCHANGED taskVars
      BY <3>5 DEF CorrectAdObservation, taskVars
    <3>6. ASSUME NEW v, NEW day, NEW amount, Receive(v, day, amount) PROVE UNCHANGED taskVars
      BY <3>6 DEF Receive, taskVars
    <3> QED
      BY <1>7, <3>1, <3>2, <3>3, <3>4, <3>5, <3>6 DEF RecordStep
  <2> QED
    BY <1>1, <2>1
<1>8. CASE NextAdDay \/ UNCHANGED adviceVars
  BY <1>1, <1>8 DEF NextAdDay, adviceVars, taskVars
<1> QED
  BY <1>2, <1>3, <1>4, <1>5, <1>6, <1>7, <1>8 DEF AdviceNext, TaskStep

-----------------------------------------------------------------------------
(* The figures of a scope. *)

IsScope(s) ==
  /\ s \in [from : Int, to : Int, group : Dimensions, filters : {s.filters}]
  /\ \A f \in s.filters : f[1] \in Dimensions

\* The cash of a ratio is of campaigns whose spending in the observed days is all there.
LEMMA RatioOfSame ==
  ASSUME RecordsKept, NEW s, IsScope(s), NEW key, RatioGiven(s, key), NEW l \in PayingLeads(s, key)
  PROVE  /\ l.campaign # Unknown
         /\ \A a \in adReports : a.campaign = l.campaign /\ Observed(s, a.day) => a \in KnownSpend(s, key)
<1>1. /\ CashAvailable(s) /\ AdsOf(s, key) # {} /\ AdsOf(s, key) = KnownSpend(s, key)
      /\ CoverageComplete(s, key) /\ ProductMappingComplete(s, key)
  BY DEF RatioGiven, SpendComplete
<1>2. SpendAvailable(s)
  BY <1>1 DEF AdsOf
<1>3. /\ s.group \in {"channel", "campaign", "product"}
      /\ \A f \in s.filters : f[1] \in {"channel", "campaign", "product"}
  <2>1. s.group \in Dimensions /\ s.group # "ad" /\ s.group # "member"
    BY <1>1, <1>2 DEF IsScope, CashAvailable, SpendAvailable
  <2>2. \A f \in s.filters : f[1] \in Dimensions /\ f[1] # "ad" /\ f[1] # "member"
    BY <1>1, <1>2 DEF IsScope, CashAvailable, SpendAvailable, FilterKeys
  <2> QED
    BY <2>1, <2>2 DEF Dimensions
<1>4. PICK b \in KnownSpend(s, key) : b.campaign = l.campaign
  BY <1>1 DEF CoverageComplete
<1>5. b \in adReports
  BY <1>4 DEF KnownSpend, AdsOf, SelectedAds
<1>6. l.campaign \in Campaigns /\ l.campaign # Unknown
  BY <1>4, <1>5, AdviceAssumption DEF RecordsKept, ReportKept
<1>7. l \in LeadsOf(s, key)
  BY DEF PayingLeads
<1>8. l \in SelectedLeads(s) /\ (key = AllRows \/ LeadValue(l, s.group) = key)
  BY <1>7 DEF LeadsOf
<1>9. l \in prospects /\ \A f \in s.filters : LeadValue(l, f[1]) = f[2]
  BY <1>3, <1>8 DEF SelectedLeads
<1>10. l.channel = ChannelOf[l.campaign]
  BY <1>6, <1>9 DEF RecordsKept, LeadKept
<1>11. "product" \in FilterKeys(s) \/ (s.group = "product" /\ key # AllRows) => ProductOf[l.campaign] = l.product
  BY <1>1 DEF ProductMappingComplete
<1>12. ASSUME NEW a \in adReports, a.campaign = l.campaign, Observed(s, a.day)
       PROVE  a \in KnownSpend(s, key)
  <2>1. \A f \in s.filters : AdValue(a, f[1]) = f[2]
    <3> TAKE f \in s.filters
    <3>1. LeadValue(l, f[1]) = f[2]
      BY <1>9
    <3>2. CASE f[1] = "channel"
      BY <1>10, <1>12, <3>1, <3>2 DEF AdValue, LeadValue
    <3>3. CASE f[1] = "campaign"
      BY <1>12, <3>1, <3>3 DEF AdValue, LeadValue
    <3>4. CASE f[1] = "product"
      <4>1. "product" \in FilterKeys(s)
        BY <3>4 DEF FilterKeys
      <4> QED
        BY <1>11, <1>12, <3>1, <3>4, <4>1 DEF AdValue, LeadValue
    <3> QED
      BY <1>3, <3>2, <3>3, <3>4
  <2>2. a \in SelectedAds(s)
    BY <1>12, <2>1 DEF SelectedAds
  <2>3. key = AllRows \/ AdGroup(a, s.group) = key
    <3> SUFFICES ASSUME key # AllRows PROVE AdGroup(a, s.group) = key
      OBVIOUS
    <3>1. LeadValue(l, s.group) = key
      BY <1>8
    <3>2. CASE s.group = "channel"
      BY <1>10, <1>12, <3>1, <3>2 DEF AdGroup, AdValue, LeadValue
    <3>3. CASE s.group = "campaign"
      BY <1>12, <3>1, <3>3 DEF AdGroup, AdValue, LeadValue
    <3>4. CASE s.group = "product"
      BY <1>11, <1>12, <3>1, <3>4 DEF AdGroup, AdValue, LeadValue
    <3> QED
      BY <1>3, <3>2, <3>3, <3>4
  <2>4. a \in AdsOf(s, key)
    BY <1>2, <2>2, <2>3 DEF AdsOf
  <2> QED
    BY <1>1, <2>4
<1> QED
  BY <1>6, <1>12

\* A row is named by what leads and reports are grouped by, and rows are finitely many.
LEMMA RowsAreNames ==
  ASSUME RecordsKept, NEW s, IsScope(s), CashAvailable(s)
  PROVE  AllRows \notin RowsOf(s) /\ IsFiniteSet(RowsOf(s))
<1> DEFINE ls == LeadsOf(s, AllRows)
           as == AdsOf(s, AllRows)
           A == {LeadValue(l, s.group) : l \in ls}
           B == {AdGroup(a, s.group) : a \in as}
           f == [l \in ls |-> LeadValue(l, s.group)]
           h == [a \in as |-> AdGroup(a, s.group)]
<1>1. ls \in SUBSET prospects /\ as \in SUBSET adReports
  BY DEF LeadsOf, SelectedLeads, AdsOf, SelectedAds
<1>2. s.group \in {"channel", "campaign", "product", "member"}
  BY DEF IsScope, CashAvailable, Dimensions
<1>3. \A l \in ls : LeadValue(l, s.group) # AllRows
  <2> SUFFICES ASSUME NEW l \in ls PROVE LeadValue(l, s.group) # AllRows
    OBVIOUS
  <2>1. LeadKept(l)
    BY <1>1 DEF RecordsKept
  <2>2. {l.channel, l.campaign, l.product, l.member} \subseteq Channels \cup Campaigns \cup Products \cup Members \cup {Unknown}
    BY <2>1 DEF LeadKept
  <2> QED
    BY <1>2, <2>2, AdviceAssumption DEF LeadValue
<1>4. \A a \in as : AdGroup(a, s.group) # AllRows
  <2> SUFFICES ASSUME NEW a \in as PROVE AdGroup(a, s.group) # AllRows
    OBVIOUS
  <2>1. a.campaign \in Campaigns
    BY <1>1 DEF RecordsKept, ReportKept
  <2>2. SpendAvailable(s)
    BY DEF AdsOf
  <2>3. s.group \in {"channel", "campaign", "product"}
    BY <1>2, <2>2 DEF SpendAvailable
  <2>4. /\ ChannelOf[a.campaign] \in Channels /\ ProductOf[a.campaign] \in Products \cup {Unknown}
    BY <2>1, AdviceAssumption
  <2> QED
    BY <2>1, <2>3, <2>4, AdviceAssumption DEF AdGroup, AdValue
<1>5. AllRows \notin A \cup B
  BY <1>3, <1>4
<1>6. f \in Surjection(ls, A) /\ h \in Surjection(as, B)
  BY DEF Surjection
<1>7. IsFiniteSet(ls) /\ IsFiniteSet(as)
  BY <1>1, FS_Subset DEF RecordsKept
<1>8. RowsOf(s) = A \cup B
  BY DEF RowsOf
<1> HIDE DEF A, B, f, h, ls, as
<1>9. IsFiniteSet(A) /\ IsFiniteSet(B)
  BY <1>6, <1>7, FS_Surjection
<1>10. IsFiniteSet(A \cup B)
  BY <1>9, FS_Union
<1> QED
  BY <1>5, <1>8, <1>10

\* What a lead's order received in the period is in the row of the lead, and in no other.
LEMMA RowsShareCash ==
  ASSUME RecordsKept, NEW s, IsScope(s), CashAvailable(s)
  PROVE  /\ Total({[row |-> key, amount |-> CashIn(s, key)] : key \in RowsOf(s)}) = CashIn(s, AllRows)
         /\ CashIn(s, AllRows) + Total(Unattributed(s)) <= Total(PeriodReceipts(s))
<1> DEFINE I == ReceiptsOf(s, LeadsOf(s, AllRows))
           w == [r \in receipts |-> r.amount]
           self == [r \in receipts |-> r]
           G == RowsOf(s)
           lead(r) == CHOOSE l \in LeadsOf(s, AllRows) : l.order = r.order
           g == [r \in I |-> LeadValue(lead(r), s.group)]
           v == [key \in G |-> CashIn(s, key)]
           R == {[row |-> key, amount |-> CashIn(s, key)] : key \in G}
           k == [key \in G |-> [row |-> key, amount |-> v[key]]]
<1>1. \A r \in receipts : w[r] = r.amount /\ w[r] \in Nat /\ self[r] = r
  BY DEF RecordsKept, ReceiptKept
<1>2. \A J \in SUBSET receipts : IsFiniteSet(J) /\ Weighing(J, w) /\ Total(J) = Total(Weights(J, w)) /\ Total(J) \in Nat
  <2> TAKE J \in SUBSET receipts
  <2> HIDE DEF w, self
  <2>1. IsFiniteSet(J)
    BY FS_Subset DEF RecordsKept
  <2>2. Weighing(J, w)
    BY <1>1, <2>1 DEF Weighing
  <2>3. Indexes(J, w, J, self)
    BY <1>1, <2>2 DEF Indexes
  <2>4. Total(J) = Total(Weights(J, w)) /\ Total(Weights(J, w)) \in Nat
    BY <2>2, <2>3, TotalOfIndexed, WeightsTyped
  <2> QED
    BY <2>1, <2>2, <2>4
<1>3. I \in SUBSET receipts /\ \A ls : ReceiptsOf(s, ls) \in SUBSET receipts
  BY DEF ReceiptsOf, PeriodReceipts
<1>4. \A l \in LeadsOf(s, AllRows) : l \in prospects /\ LeadValue(l, s.group) \in G
  BY DEF LeadsOf, SelectedLeads, RowsOf
<1>5. \A r \in I : lead(r) \in LeadsOf(s, AllRows) /\ lead(r).order = r.order
  BY DEF ReceiptsOf
<1>6. \A r \in I : \A l \in LeadsOf(s, AllRows) : l.order = r.order => l = lead(r)
  <2> SUFFICES ASSUME NEW r \in I, NEW l \in LeadsOf(s, AllRows), l.order = r.order PROVE l = lead(r)
    OBVIOUS
  <2>1. r \in receipts /\ r.order \in Orders
    BY <1>3 DEF RecordsKept, ReceiptKept
  <2>2. l.order # Unknown
    BY <2>1, AdviceAssumption
  <2> HIDE DEF lead
  <2> QED
    BY <1>4, <1>5, <2>2 DEF RecordsKept
<1> HIDE DEF lead
<1>7. \A r \in I : g[r] \in G /\ g[r] = LeadValue(lead(r), s.group)
  BY <1>4, <1>5
<1>8. AllRows \notin G
  BY RowsAreNames
<1>9. \A key \in G : CashIn(s, key) = Total(Weights({r \in I : g[r] = key}, w))
  <2> TAKE key \in G
  <2> DEFINE J == {r \in I : g[r] = key}
  <2>1. \A l : l \in LeadsOf(s, key) <=> l \in LeadsOf(s, AllRows) /\ LeadValue(l, s.group) = key
    BY <1>8 DEF LeadsOf
  <2>2. \A r : r \in ReceiptsOf(s, LeadsOf(s, key)) <=> r \in J
    <3>1. ASSUME NEW r \in ReceiptsOf(s, LeadsOf(s, key)) PROVE r \in J
      <4>1. PICK l \in LeadsOf(s, key) : l.order = r.order
        BY DEF ReceiptsOf
      <4>2. r \in I
        BY <2>1, <4>1 DEF ReceiptsOf
      <4>3. l = lead(r)
        BY <1>6, <2>1, <4>1, <4>2
      <4> QED
        BY <1>7, <2>1, <4>2, <4>3
    <3>2. ASSUME NEW r \in J PROVE r \in ReceiptsOf(s, LeadsOf(s, key))
      <4>1. lead(r) \in LeadsOf(s, key) /\ lead(r).order = r.order
        BY <1>5, <1>7, <2>1
      <4> QED
        BY <4>1 DEF ReceiptsOf
    <3> QED
      BY <3>1, <3>2
  <2>3. ReceiptsOf(s, LeadsOf(s, key)) = J
    BY <2>2
  <2>4. J \in SUBSET receipts
    BY <1>3
  <2> HIDE DEF J
  <2> QED
    BY <1>2, <2>3, <2>4 DEF CashIn, J
<1>10. IsFiniteSet(G)
  BY RowsAreNames
<1>11. \A key \in G : k[key] \in R /\ k[key].amount = v[key] /\ k[key].row = key /\ v[key] = CashIn(s, key)
  OBVIOUS
<1>12. \A r \in R : \E key \in G : r = k[key]
  OBVIOUS
<1>13. Weighing(I, w) /\ Total(I) = Total(Weights(I, w))
  BY <1>2, <1>3
<1>14. CashIn(s, AllRows) = Total(I)
  BY DEF CashIn
<1> HIDE DEF I, w, self, G, g, v, R, k
<1>15. SumsByGroup(I, w, G, g, v)
  BY <1>7, <1>9, <1>10, <1>11, <1>13 DEF SumsByGroup
<1>16. Total(Weights(G, v)) = Total(Weights(I, w)) /\ Weighing(G, v)
  BY <1>15, TotalOfGroups
<1>17. Indexes(G, v, R, k)
  BY <1>11, <1>12, <1>16 DEF Indexes
<1>18. Total(R) = CashIn(s, AllRows)
  BY <1>13, <1>14, <1>16, <1>17, TotalOfIndexed
<1>19. CashIn(s, AllRows) + Total(Unattributed(s)) <= Total(PeriodReceipts(s))
  <2> DEFINE B == Unattributed(s)
             P == PeriodReceipts(s)
  <2>1. I \in SUBSET P /\ B \in SUBSET P /\ P \in SUBSET receipts
    BY DEF I, ReceiptsOf, Unattributed, PeriodReceipts
  <2>2. I \cap B = {}
    BY <1>4 DEF I, ReceiptsOf, Unattributed
  <2> HIDE DEF B, P
  <2>3. IsFiniteSet(P) /\ IsFiniteSet(I) /\ IsFiniteSet(B) /\ \A r \in P : r.amount \in Nat
    BY <1>1, <1>2, <2>1
  <2>4. Total(I \cup B) = Total(I) + Total(B)
    <3>1. \A r \in I \cup B : r.amount \in Nat
      BY <2>1, <2>3
    <3> QED
      BY <2>2, <2>3, <3>1, TotalUnion
  <2>5. Total(I \cup B) <= Total(P)
    <3>1. I \cup B \in SUBSET P
      BY <2>1
    <3> QED
      BY <2>3, <3>1, TotalMonotone
  <2> QED
    BY <1>14, <2>4, <2>5 DEF B, P
<1> QED
  BY <1>18, <1>19 DEF R, G

\* A fall of receipts is found between as many days.
LEMMA FallOverEqualDays ==
  ASSUME RecordsKept, NEW s, IsScope(s), CashFell(s)
  PROVE  LET before == PreviousOf(s)
         IN  before.to - before.from = ObservationEnd(s) - s.from /\ before.to < today
<1>1. s.from \in Int /\ s.to \in Int /\ today \in Int /\ s.from <= today
  BY AdviceAssumption DEF IsScope, RecordsKept, AdviceDays, CashFell
<1>2. PICK end \in Int : end = ObservationEnd(s)
  BY <1>1 DEF ObservationEnd
<1>3. PICK before : before = PreviousOf(s)
  OBVIOUS
<1>4. before = [s EXCEPT !.to = s.from - 1, !.from = s.from - 1 - (end - s.from)]
  BY <1>1, <1>2, <1>3 DEF PreviousOf
<1>5. before.to = s.from - 1 /\ before.from = s.from - 1 - (end - s.from)
  BY <1>4 DEF IsScope
<1>6. before.to - before.from = end - s.from /\ before.to < today
  BY <1>1, <1>5
<1> QED
  BY <1>2, <1>3, <1>6

\* What the records keep makes the figures comparable.
LEMMA FiguresCompare == AdviceInv => FiguresCompareLikeWithLike
<1> SUFFICES ASSUME AdviceInv PROVE FiguresCompareLikeWithLike
  OBVIOUS
<1>1. RecordsKept /\ TasksKept /\ \A s \in Scopes : IsScope(s)
  BY AdviceAssumption DEF AdviceInv, IsScope
<1>2. RatiosCompareTheSame
  BY <1>1, RatioOfSame DEF RatiosCompareTheSame
<1>3. RowsAddUp
  BY <1>1, RowsShareCash DEF RowsAddUp
<1>4. FallsAreOverEqualDays
  BY <1>1, FallOverEqualDays DEF FallsAreOverEqualDays
<1>5. TasksAreOfTheirDay
  BY <1>1 DEF TasksKept, OfItsDay, TasksAreOfTheirDay
<1> QED
  BY <1>2, <1>3, <1>4, <1>5 DEF FiguresCompareLikeWithLike

\* In every scope, whatever order leads, reports, receipts, midnights and tasks come in, a
\* ratio sets cash against all spending on the same campaigns, rows share out the summary,
\* periods compared are equally long, and a task was found on its day (marketing/analytics.py
\* _period, marketing_snapshot; marketing/ai.py build_recommendations).
THEOREM FiguresAlwaysCompare == AdviceSpec => []FiguresCompareLikeWithLike
<1>1. AdviceInit => AdviceInv
  <2> SUFFICES ASSUME AdviceInit PROVE AdviceInv
    OBVIOUS
  <2>1. tasks \in Seq({}) /\ DOMAIN tasks = {}
    BY DEF AdviceInit
  <2> QED
    BY <2>1, FS_EmptySet, AdviceAssumption
       DEF AdviceInit, AdviceInv, RecordsKept, TasksKept, AdviceDays
<1>2. AdviceInv /\ [AdviceNext]_adviceVars => AdviceInv'
  <2> SUFFICES ASSUME AdviceInv, [AdviceNext]_adviceVars PROVE AdviceInv'
    OBVIOUS
  <2>1. TasksKept'
    BY TasksStep DEF AdviceInv
  <2>2. CASE RecordStep \/ NextAdDay
    BY <2>1, <2>2, RecordsStep DEF AdviceInv
  <2>3. CASE TaskStep
    <3>1. UNCHANGED <<today, prospects, adReports, receipts>>
      BY <2>3 DEF TaskStep, Advise, Verify, CreateAction, Abandon, UpdateAction, recordVars
    <3> QED
      BY <2>1, <3>1 DEF AdviceInv, RecordsKept, LeadKept, ReportKept, ReceiptKept
  <2>4. CASE UNCHANGED adviceVars
    BY <2>1, <2>4 DEF adviceVars, recordVars, AdviceInv, RecordsKept, LeadKept, ReportKept, ReceiptKept
  <2> QED
    BY <2>2, <2>3, <2>4 DEF AdviceNext
<1> QED
  BY <1>1, <1>2, FiguresCompare, PTL DEF AdviceSpec

-----------------------------------------------------------------------------
(* Saved simulations. *)

\* Whole numbers times whole numbers.
LEMMA Scaled ==
  ASSUME NEW a \in Int, NEW b \in Int, NEW c \in Int, a <= b, 0 <= c
  PROVE  a * c <= b * c /\ a * c \in Int /\ b * c \in Int
<1>1. PICK d \in Nat : b = a + d
  BY b - a \in Nat /\ b = a + (b - a)
<1>2. b * c = a * c + d * c
  BY <1>1
<1>3. c \in Nat
  OBVIOUS
<1>4. d * c \in Nat /\ a * c \in Int /\ b * c \in Int
  BY <1>3
<1> QED
  BY <1>2, <1>4

\* The least volume that earns a target, by the unit.
LEMMA CeilingIsLeast ==
  ASSUME NEW n \in Int, NEW p \in Nat \ {0}
  PROVE  /\ Ceiling(n, p) \in Int
         /\ n <= Ceiling(n, p) * p
         /\ (Ceiling(n, p) - 1) * p < n
<1>1. PICK m \in Int : m = -n
  OBVIOUS
<1>2. /\ m \div p \in Int /\ m % p \in 0..(p - 1)
      /\ m = p * (m \div p) + (m % p)
  OBVIOUS
<1>3. PICK q \in Int, r \in 0..(p - 1) : q = m \div p /\ m = p * q + r
  BY <1>2
<1>4. Ceiling(n, p) = -q
  BY <1>1, <1>3 DEF Ceiling
<1>5. (-q) * p = n + r /\ ((-q) - 1) * p = n + r - p
  BY <1>1, <1>3
<1> QED
  BY <1>3, <1>4, <1>5

\* A fifth less, as much and a fifth more, rounded to whole numbers.
LEMMA VolumesRounded ==
  ASSUME NEW q \in Nat
  PROVE  /\ HalfUp(q * 10, 10) = q
         /\ HalfUp(q * 8, 10) \in 0..q
         /\ HalfUp(q * 12, 10) \in Nat /\ q <= HalfUp(q * 12, 10)
BY DEF HalfUp

\* Integers that are bounded above have a greatest one, and Max finds it.
LEMMA MaxIsGreatest ==
  ASSUME NEW S, S \subseteq Int, S # {}, NEW high \in Int, \A x \in S : x <= high
  PROVE  /\ Max(S) \in S /\ \A x \in S : x <= Max(S)
<1> DEFINE T == {high - x : x \in S}
<1>1. T \subseteq Nat /\ T # {}
  <2>1. \A x \in S : high - x \in Nat
    <3> SUFFICES ASSUME NEW x \in S PROVE high - x \in Nat
      OBVIOUS
    <3>1. x \in Int /\ x <= high
      OBVIOUS
    <3> QED
      BY <3>1
  <2> QED
    BY <2>1
<1>2. PICK t \in T : \A u \in T : t <= u
  <2> HIDE DEF T
  <2> QED BY <1>1, LeastNat
<1>3. PICK x \in S : t = high - x
  OBVIOUS
<1>4. \A y \in S : x >= y
  <2> SUFFICES ASSUME NEW y \in S PROVE x >= y
    OBVIOUS
  <2>1. high - y \in T
    OBVIOUS
  <2>2. high - x <= high - y
    BY <1>2, <1>3, <2>1
  <2>3. x \in Int /\ y \in Int
    OBVIOUS
  <2> QED
    BY <2>2, <2>3
<1>5. Max(S) = CHOOSE m \in S : \A y \in S : m >= y
  BY DEF Max
<1>6. Max(S) \in S /\ \A y \in S : Max(S) >= y
  BY <1>4, <1>5
<1>7. \A y \in S : y \in Int
  OBVIOUS
<1> QED
  BY <1>6, <1>7

\* Every simulation that can be saved holds, whatever calculator is in use.
LEMMA CalculationsHold ==
  ASSUME NEW in \in Simulated, NEW r \in 1..Len(Formulas)
  PROVE  ResultsHold(Calculated(in, r), in.marketing)
<1>1. PICK f : f = [in EXCEPT !.cost = @ + Formulas[r].addedCost]
  OBVIOUS
<1>2. PICK res : res = PriceCostScenario(f) /\ Calculated(in, r) = res
  BY <1>1 DEF Calculated
<1>3. /\ f \in [quantity : Nat, price : Nat, cost : Nat, variable : Nat, newPrice : Nat,
                newCost : Nat, newQuantity : Nat, marketing : Nat]
      /\ f.marketing = in.marketing
  <2>1. PICK more \in Nat : more = Formulas[r].addedCost
    <3>1. Formulas[r] \in [version : STRING, addedCost : Nat]
      BY BriefingAssumption, ElementOfSeq
    <3> QED
      BY <3>1
  <2>2. in \in [quantity : Nat, price : Nat, cost : Nat, variable : Nat, newPrice : Nat,
                newCost : Nat, newQuantity : Nat, marketing : Nat]
    BY BriefingAssumption
  <2>3. f = [in EXCEPT !.cost = in.cost + more]
    BY <1>1, <2>1
  <2>4. in.cost + more \in Nat
    BY <2>1, <2>2
  <2> QED
    BY <2>2, <2>3, <2>4
<1>4. PICK unit \in Int, base \in Int, cost \in Nat, quantity \in Nat :
        /\ unit = f.newPrice - f.newCost - f.variable /\ cost = f.marketing
        /\ base = f.quantity * (f.price - f.cost - f.variable) - 0 /\ quantity = f.newQuantity
  <2>1. f.newPrice - f.newCost - f.variable \in Int /\ f.price - f.cost - f.variable \in Int
    BY <1>3
  <2>2. f.marketing \in Nat /\ f.newQuantity \in Nat /\ f.quantity \in Nat
    BY <1>3
  <2>3. f.quantity * (f.price - f.cost - f.variable) - 0 \in Int
    BY <2>1, <2>2
  <2> QED
    BY <2>1, <2>2, <2>3
<1>5. /\ res.baseline.net = base /\ res.proposed.unit = unit
      /\ res.proposed.net = quantity * unit - cost
      /\ \A t \in {8, 10, 12} : res.sensitivity[t] = HalfUp(quantity * t, 10) * unit - cost
      /\ res.breakEven = BreakEven(res.baseline, res.proposed, f.marketing)
  BY <1>2, <1>4 DEF PriceCostScenario, Economics
<1>6. res.breakEven = IF unit > 0 THEN Max({0, Ceiling(base + cost, unit)}) ELSE Missing
  BY <1>4, <1>5 DEF BreakEven
<1>7. PICK less \in 0..quantity, more \in Nat :
        /\ quantity <= more /\ HalfUp(quantity * 10, 10) = quantity
        /\ less = HalfUp(quantity * 8, 10) /\ more = HalfUp(quantity * 12, 10)
  BY VolumesRounded
<1>8. /\ res.sensitivity[8] = less * unit - cost /\ res.sensitivity[10] = quantity * unit - cost
      /\ res.sensitivity[12] = more * unit - cost
  BY <1>5, <1>7
<1>9. CASE unit > 0
  <2>1. PICK c \in Int : c = Ceiling(base + cost, unit) /\ base + cost <= c * unit /\ (c - 1) * unit < base + cost
    <3>1. base + cost \in Int /\ unit \in Nat \ {0}
      BY <1>9
    <3>2. /\ Ceiling(base + cost, unit) \in Int /\ base + cost <= Ceiling(base + cost, unit) * unit
          /\ (Ceiling(base + cost, unit) - 1) * unit < base + cost
      BY <3>1, CeilingIsLeast
    <3> QED
      BY <3>2
  <2>2. PICK even \in Int : even = res.breakEven /\ even \in {0, c} /\ 0 <= even /\ c <= even
    <3>1. PICK S : S = {0, c}
      OBVIOUS
    <3>2. PICK high \in Int : high >= 0 /\ high >= c
      BY 0 \in Int
    <3>3. S \subseteq Int /\ S # {} /\ \A x \in S : x <= high
      BY <3>1, <3>2
    <3>4. Max(S) \in S /\ \A x \in S : x <= Max(S)
      BY <3>3, MaxIsGreatest
    <3> QED
      BY <1>6, <1>9, <2>1, <3>1, <3>4
  <2>3. c * unit <= even * unit /\ even * unit \in Int
    BY <1>9, <2>2, Scaled
  <2>4. even > 0 => even = c
    BY <2>2
  <2>5. less * unit <= quantity * unit /\ quantity * unit <= more * unit
    BY <1>7, <1>9, Scaled
  <2>6. even # Missing
    BY <2>2, BriefingAssumption
  <2>7. even * unit - cost >= base /\ (even > 0 => (even - 1) * unit - cost < base)
    BY <2>1, <2>3, <2>4
  <2>8. less * unit - cost <= quantity * unit - cost /\ quantity * unit - cost <= more * unit - cost
    BY <2>5
  <2> QED
    BY <1>2, <1>3, <1>4, <1>5, <1>8, <1>9, <2>2, <2>6, <2>7, <2>8 DEF ResultsHold
<1>10. CASE unit <= 0
  <2>1. PICK lost \in Nat : lost = -unit
    BY <1>10
  <2>2. less * lost <= more * lost
    BY <1>7, <2>1, Scaled
  <2>3. more * unit - cost <= less * unit - cost
    BY <2>1, <2>2
  <2> QED
    BY <1>2, <1>3, <1>4, <1>5, <1>6, <1>8, <1>10, <2>3 DEF ResultsHold
<1> QED
  BY <1>9, <1>10

-----------------------------------------------------------------------------
(* Questions and their answers. *)

\* What is entered and voided beside the director's questions is a step of the budgets.
LEMMA BriefingStepsBudgets ==
  [BriefingNext]_briefingVars => [BudgetNext]_budgetVars
<1> SUFFICES ASSUME [BriefingNext]_briefingVars PROVE [BudgetNext]_budgetVars
  OBVIOUS
<1>1. CASE UNCHANGED budgetVars
  BY <1>1
<1>2. ASSUME NEW b \in Budgets, NEW key \in Keys, NEW entryKind \in EntryKinds, NEW amount \in Sums,
             EnterCost(b, key, entryKind, amount)
      PROVE  BudgetNext
  BY <1>2 DEF EnterCost, BudgetNext
<1>3. ASSUME NEW e \in Entries, VoidCost(e) PROVE BudgetNext
  BY <1>3 DEF VoidCost, BudgetNext
<1>4. ASSUME RecordsChange PROVE [BudgetNext]_budgetVars
  BY <1>1, <1>2, <1>3, <1>4 DEF RecordsChange, ApproveBudget, UpdateDashboard, ReportSpending,
     SaveScenario, Deploy, budgetVars
<1>5. CASE BriefingNext
  BY <1>1, <1>4, <1>5 DEF BriefingNext, ChangeMembership, Ask, ReadSnapshot, AnswerLocally,
     AnswerWithReply, Store, RefuseAnswer, recordsVars, budgetVars
<1> QED
  BY <1>1, <1>5 DEF briefingVars, recordsVars

\* Questions and answers change nothing about budgets (ask_director): whatever is asked,
\* approved, entered and voided around them, budgets run as BudgetSpec says.
THEOREM BriefingsLeaveBudgets == BriefingSpec => BudgetSpec
<1>1. BriefingInit => BudgetInit
  BY DEF BriefingInit
<1> QED
  BY <1>1, BriefingStepsBudgets, PTL DEF BriefingSpec, BudgetSpec

\* Rows that are only added to.
Grown(old, new) ==
  /\ Len(old) \in Nat /\ Len(new) \in Nat /\ Len(old) <= Len(new)
  /\ \A i \in 1..Len(old) : new[i] = old[i]

\* ToldOfOneMoment, with the simulations it looks into.
Told(a, sims) ==
  /\ Present(a.cards, "approved") /\ Present(a.cards, "consumed") =>
       /\ a.cards["consumed"] <= a.cards["approved"]
       /\ Present(a.cards, "available") => a.cards["available"] = a.cards["approved"] - a.cards["consumed"]
  /\ Present(a.cards, "proposed") =>
       \E s \in 1..Len(sims) : sims[s].year = a.year /\ TellsScenario(a, sims[s].inputs)

\* An answer of the conversation msgs and what it followed.
Answered(msgs, sims, m) ==
  /\ Told(msgs[m], sims) /\ SaysWhatItShows(msgs[m])
  /\ \E q \in 1..(m - 1) : msgs[q] = [role |-> "user", year |-> msgs[m].year, topic |-> msgs[m].topic]

\* Simulations as save_scenario stores them.
ScenarioRow ==
  {[year |-> y, inputs |-> in, results |-> Calculated(in, r), version |-> Formulas[r].version] :
     y \in Years, in \in Simulated, r \in 1..Len(Formulas)}

\* The records a question is answered from.
PlansKept ==
  /\ approvedBudgets \subseteq Budgets /\ IsFiniteSet(approvedBudgets)
  /\ dashboard \in [Years -> Dashboards \cup {Absent({"reported"})}]
  /\ Len(simulations) \in Nat /\ simulations \in Seq(ScenarioRow) /\ release \in 1..Len(Formulas)

\* The question that is being answered is the last one asked, and what is read for it told
\* of one moment then and is a moment of the records still.
QuestionKept ==
  /\ question.step \in {"none", "asked", "read"}
  /\ question.step # "none" =>
       /\ question.year \in Years
       /\ \E q \in 1..Len(messages) :
            messages[q] = [role |-> "user", year |-> question.year, topic |-> question.topic]
  /\ question.step = "read" => Told(question, simulations)

\* Every answer is one of its question.
AnswersKept ==
  /\ Len(messages) \in Nat /\ \E S : messages \in Seq(S)
  /\ \A m \in 1..Len(messages) : messages[m].role = "assistant" => Answered(messages, simulations, m)

BriefingInv == PlansKept /\ QuestionKept /\ AnswersKept

\* What was told of simulations is told of them when there are more.
LEMMA ToldOfMore ==
  ASSUME NEW a, NEW old, NEW new, Grown(old, new), Told(a, old)
  PROVE  Told(a, new)
<1>1. Present(a.cards, "proposed") =>
        \E s \in 1..Len(new) : new[s].year = a.year /\ TellsScenario(a, new[s].inputs)
  <2> SUFFICES ASSUME Present(a.cards, "proposed")
               PROVE  \E s \in 1..Len(new) : new[s].year = a.year /\ TellsScenario(a, new[s].inputs)
    OBVIOUS
  <2>1. PICK s \in 1..Len(old) : old[s].year = a.year /\ TellsScenario(a, old[s].inputs)
    BY DEF Told
  <2>2. s \in 1..Len(new) /\ new[s] = old[s]
    BY DEF Grown
  <2> QED
    BY <2>1, <2>2
<1> QED
  BY <1>1 DEF Told

\* What was answered stays answered, whatever is said and saved later.
LEMMA AnsweredOfMore ==
  ASSUME NEW msgs, NEW more, NEW sims, NEW new, Grown(msgs, more) /\ Grown(sims, new),
         NEW m \in 1..Len(msgs), Answered(msgs, sims, m)
  PROVE  Answered(more, new, m)
<1>1. more[m] = msgs[m] /\ \A q \in 1..(m - 1) : more[q] = msgs[q]
  BY DEF Grown
<1>2. Told(more[m], new)
  BY <1>1, ToldOfMore DEF Answered
<1> QED
  BY <1>1, <1>2 DEF Answered

\* A row appended.
Appended(S, old, x, new) == old \in Seq(S) /\ new = Append(old, x)

\* It is the last one, and the rows before it stay.
LEMMA OneAppended ==
  ASSUME NEW S, NEW old, NEW x, NEW new, Appended(S, old, x, new)
  PROVE  /\ Grown(old, new) /\ Len(new) = Len(old) + 1 /\ new[Len(new)] = x
         /\ x \in S => new \in Seq(S)
<1> USE DEF Appended
<1>1. PICK T : T = S \cup {x}
  OBVIOUS
<1>2. old \in Seq(T) /\ x \in T /\ Len(old) \in Nat
  BY <1>1
<1> QED
  BY <1>1, <1>2 DEF Grown

\* Rows of some set and one more are rows of some set.
LEMMA SomeAppended ==
  ASSUME NEW S, NEW old, NEW x, NEW new, Appended(S, old, x, new)
  PROVE  \E T : new \in Seq(T)
<1> USE DEF Appended
<1>1. PICK T : T = S \cup {x}
  OBVIOUS
<1>2. old \in Seq(T) /\ x \in T
  BY <1>1
<1>3. new \in Seq(T)
  BY <1>2
<1> QED
  BY <1>3

\* Nothing appended.
LEMMA NoneAppended ==
  ASSUME NEW rows, Len(rows) \in Nat
  PROVE  Grown(rows, rows)
BY DEF Grown

\* What others do leaves the records well, and simulations are only added.
LEMMA PlansStep ==
  ASSUME PlansKept, [BriefingNext]_briefingVars
  PROVE  PlansKept' /\ Grown(simulations, simulations')
<1>1. CASE UNCHANGED plansVars
  <2>1. Grown(simulations, simulations')
    BY <1>1, NoneAppended DEF plansVars, PlansKept
  <2> QED
    BY <1>1, <2>1 DEF plansVars, PlansKept
<1>2. ASSUME NEW b \in Budgets, ApproveBudget(b) PROVE PlansKept' /\ Grown(simulations, simulations')
  <2>1. /\ approvedBudgets' = approvedBudgets \cup {b}
        /\ UNCHANGED <<dashboard, spending, simulations, release>>
    BY <1>2 DEF ApproveBudget
  <2>2. IsFiniteSet(approvedBudgets')
    BY <2>1, FS_AddElement DEF PlansKept
  <2>3. Grown(simulations, simulations')
    BY <2>1, NoneAppended DEF PlansKept
  <2> QED
    BY <2>1, <2>2, <2>3 DEF PlansKept
<1>3. ASSUME NEW y \in Years, NEW facts \in Dashboards, UpdateDashboard(y, facts)
      PROVE  PlansKept' /\ Grown(simulations, simulations')
  <2>1. Grown(simulations, simulations')
    BY <1>3, NoneAppended DEF PlansKept, UpdateDashboard
  <2> QED
    BY <1>3, <2>1 DEF PlansKept, UpdateDashboard
<1>4. ASSUME NEW y \in Years, NEW amount \in Spendings, ReportSpending(y, amount)
      PROVE  PlansKept' /\ Grown(simulations, simulations')
  <2>1. Grown(simulations, simulations')
    BY <1>4, NoneAppended DEF PlansKept, ReportSpending
  <2> QED
    BY <1>4, <2>1 DEF PlansKept, ReportSpending
<1>5. ASSUME NEW y \in Years, NEW in \in Simulated, SaveScenario(y, in)
      PROVE  PlansKept' /\ Grown(simulations, simulations')
  <2>1. PICK x : x = [year |-> y, inputs |-> in, results |-> Calculated(in, release),
                      version |-> Formulas[release].version]
    OBVIOUS
  <2>2. x \in ScenarioRow
    BY <2>1 DEF ScenarioRow, PlansKept
  <2>3. /\ simulations' = Append(simulations, x)
        /\ UNCHANGED <<approvedBudgets, dashboard, spending, release>>
    BY <1>5, <2>1 DEF SaveScenario
  <2>4. PICK S : S = ScenarioRow
    OBVIOUS
  <2>5. simulations \in Seq(S) /\ x \in S
    BY <2>2, <2>4 DEF PlansKept
  <2>6. Grown(simulations, simulations') /\ simulations' \in Seq(S)
    <3>1. Appended(S, simulations, x, simulations')
      BY <2>3, <2>5 DEF Appended
    <3> QED
      BY <2>5, <3>1, OneAppended
  <2>7. Len(simulations') \in Nat
    BY <2>6 DEF Grown
  <2> QED
    BY <2>3, <2>4, <2>6, <2>7 DEF PlansKept
<1>6. CASE Deploy
  <2>1. /\ release < Len(Formulas) /\ release' = release + 1
        /\ UNCHANGED <<approvedBudgets, dashboard, spending, simulations>>
    BY <1>6 DEF Deploy
  <2>2. Len(Formulas) \in Nat
    BY BriefingAssumption
  <2>3. Grown(simulations, simulations')
    BY <2>1, NoneAppended DEF PlansKept
  <2> QED
    BY <2>1, <2>2, <2>3 DEF PlansKept
<1>7. ASSUME RecordsChange PROVE PlansKept' /\ Grown(simulations, simulations')
  BY <1>1, <1>2, <1>3, <1>4, <1>5, <1>6, <1>7 DEF RecordsChange, EnterCost, VoidCost, plansVars,
     UpdateDashboard, ReportSpending, ApproveBudget, SaveScenario, Deploy
<1>8. CASE BriefingNext
  BY <1>1, <1>7, <1>8 DEF BriefingNext, ChangeMembership, Ask, ReadSnapshot, AnswerLocally,
     AnswerWithReply, Store, RefuseAnswer, recordsVars
<1> QED
  BY <1>1, <1>8 DEF briefingVars, recordsVars

\* The cards of a year repeat what the plans tell, where they tell something.
LEMMA CardsRepeat ==
  ASSUME PlansKept, NEW y \in Years, NEW cards, cards = FactCards(Snapshot(y))
  PROVE  /\ \A id \in BudgetIds : Present(cards, id) => cards[id] = BudgetFacts(y)[id]
         /\ \A id \in ScenarioIds : Present(cards, id) =>
              id \in DOMAIN SimulationFacts(y) /\ cards[id] = SimulationFacts(y)[id]
<1>1. PICK board, budgets, cost, scenario :
        /\ board = dashboard[y] /\ budgets = BudgetFacts(y) /\ scenario = SimulationFacts(y)
        /\ cost = [id \in {"spend"} |-> spending[y]]
  OBVIOUS
<1>2. DOMAIN board \cap PlanningIds = {}
  <2>1. board \in Dashboards \cup {Absent({"reported"})}
    BY <1>1 DEF PlansKept
  <2>2. DOMAIN Absent({"reported"}) = {"reported"}
    BY DEF Absent
  <2>3. "reported" \notin PlanningIds
    BY DEF PlanningIds, BudgetIds, ScenarioIds
  <2> QED
    BY <2>1, <2>2, <2>3, BriefingAssumption
<1>3. DOMAIN budgets = BudgetIds
  BY <1>1 DEF BudgetFacts, Absent
<1>4. DOMAIN cost = {"spend"}
  BY <1>1
<1>5. PICK plans : plans = Followed(budgets, Followed(cost, scenario))
  OBVIOUS
<1>6. PICK facts : facts = Followed(board, plans)
  OBVIOUS
<1>7. cards = FactCards(facts)
  BY <1>1, <1>5, <1>6 DEF Snapshot, PlanningFacts
<1>8. \A id \in DOMAIN cards : id \in DOMAIN facts /\ cards[id] = facts[id]
  BY <1>7 DEF FactCards
<1>9. \A id \in PlanningIds : id \in DOMAIN facts => id \in DOMAIN plans /\ facts[id] = plans[id]
  BY <1>2, <1>6 DEF Followed
<1>10. \A id \in BudgetIds : plans[id] = budgets[id]
  BY <1>3, <1>5 DEF Followed
<1>11. \A id \in ScenarioIds : id \in DOMAIN plans => id \in DOMAIN scenario /\ plans[id] = scenario[id]
  <2>1. PICK rest : rest = Followed(cost, scenario) /\ plans = Followed(budgets, rest)
    BY <1>5
  <2>2. \A id \in ScenarioIds : id \notin DOMAIN budgets /\ id \notin DOMAIN cost
    BY <1>3, <1>4 DEF ScenarioIds, BudgetIds
  <2>3. \A id \in ScenarioIds : id \in DOMAIN plans => id \in DOMAIN rest /\ plans[id] = rest[id]
    BY <2>1, <2>2 DEF Followed
  <2>4. \A id \in ScenarioIds : id \in DOMAIN rest => id \in DOMAIN scenario /\ rest[id] = scenario[id]
    BY <2>1, <2>2 DEF Followed
  <2> QED
    BY <2>3, <2>4
<1>12. BudgetIds \subseteq PlanningIds /\ ScenarioIds \subseteq PlanningIds
  BY DEF PlanningIds
<1>13. \A id : Present(cards, id) => id \in DOMAIN cards
  BY DEF Present
<1> QED
  BY <1>1, <1>8, <1>9, <1>10, <1>11, <1>12, <1>13

\* A simulation is told as the calculator in use makes it.
LEMMA ScenarioTold ==
  ASSUME PlansKept, NEW y \in Years, NEW id \in DOMAIN SimulationFacts(y)
  PROVE  \E s \in 1..Len(simulations) :
           LET now == Calculated(simulations[s].inputs, release)
           IN  /\ simulations[s].year = y /\ SimulationFacts(y)["baseline"] = now.baseline.net
               /\ SimulationFacts(y)["proposed"] = now.proposed.net
               /\ SimulationFacts(y)["delta"] = now.delta
<1>1. PICK saved, last : /\ saved = {s \in 1..Len(simulations) : simulations[s].year = y}
                         /\ last = simulations[Max(saved)]
  OBVIOUS
<1>2. ~(saved = {} \/ ~Verified(last))
  <2> SUFFICES ASSUME saved = {} \/ ~Verified(last) PROVE FALSE
    OBVIOUS
  <2>1. SimulationFacts(y) = Absent({})
    BY <1>1 DEF SimulationFacts
  <2> QED
    BY <2>1 DEF Absent
<1>3. SimulationFacts(y) = [i \in ScenarioIds |-> IF i = "delta" THEN last.results.delta ELSE last.results[i].net]
  BY <1>1, <1>2 DEF SimulationFacts
<1>4. Max(saved) \in saved
  <2>1. saved \subseteq Int /\ \A x \in saved : x <= Len(simulations)
    BY <1>1 DEF PlansKept
  <2>2. PICK high \in Int : high = Len(simulations)
    BY DEF PlansKept
  <2> QED
    BY <1>2, <2>1, <2>2, MaxIsGreatest
<1>5. PICK s \in 1..Len(simulations) : simulations[s].year = y /\ last = simulations[s]
  BY <1>1, <1>4
<1>6. last.results = Calculated(simulations[s].inputs, release)
  BY <1>2, <1>5 DEF Verified
<1>7. PICK now : now = last.results
  OBVIOUS
<1>8. /\ SimulationFacts(y)["baseline"] = now.baseline.net
      /\ SimulationFacts(y)["proposed"] = now.proposed.net
      /\ SimulationFacts(y)["delta"] = now.delta
  BY <1>3, <1>7 DEF ScenarioIds
<1> QED
  BY <1>5, <1>6, <1>7, <1>8

\* Of several budgets not more is consumed than they authorize.
LEMMA BudgetsTold ==
  ASSUME BudgetInv, PlansKept, NEW y \in Years
  PROVE  \/ BudgetFacts(y)["approved"] = Missing
         \/ /\ BudgetFacts(y)["consumed"] <= BudgetFacts(y)["approved"]
            /\ BudgetFacts(y)["available"] = BudgetFacts(y)["approved"] - BudgetFacts(y)["consumed"]
<1>1. PICK budgets : budgets = {b \in approvedBudgets : YearOf[b] = y}
  OBVIOUS
<1>2. PICK S, R : /\ S = {[budget |-> b, amount |-> Authorized[b]] : b \in budgets}
                  /\ R = UNION {Rows(Live(b, EntryKinds \ {"payment"}, voided)) : b \in budgets}
  OBVIOUS
<1>3. CASE budgets = {}
  <2>1. BudgetFacts(y) = Absent(BudgetIds)
    BY <1>1, <1>3 DEF BudgetFacts
  <2> QED
    BY <2>1 DEF Absent, BudgetIds
<1>4. CASE budgets # {}
  <2>1. BudgetFacts(y) = [i \in BudgetIds |-> CASE i = "approved" -> Total(S) [] i = "consumed" -> Total(R)
                                                [] OTHER -> Total(S) - Total(R)]
    BY <1>1, <1>2, <1>4 DEF BudgetFacts
  <2>2. /\ BudgetFacts(y)["approved"] = Total(S) /\ BudgetFacts(y)["consumed"] = Total(R)
        /\ BudgetFacts(y)["available"] = Total(S) - Total(R)
    BY <2>1 DEF BudgetIds
  <2>3. budgets \subseteq Budgets /\ IsFiniteSet(budgets)
    BY <1>1, FS_Subset DEF PlansKept
  <2>4. Authorized \in [Budgets -> Nat] /\ \A b \in budgets : Authorized[b] \in Nat
    BY <2>3, BudgetAssumption
  <2>5. IsFiniteSet(S) /\ \A x \in S : x.amount \in Nat
    <3>1. PICK f : f = [b \in budgets |-> [budget |-> b, amount |-> Authorized[b]]]
      OBVIOUS
    <3>2. f \in Surjection(budgets, S)
      BY <1>2, <3>1 DEF Surjection
    <3> QED
      BY <1>2, <2>3, <2>4, <3>2, FS_Surjection
  <2>6. PICK W : W = {[entry |-> e, amount |-> entries[e].amount] : e \in Entries}
    OBVIOUS
  <2>7. IsFiniteSet(W) /\ \A x \in W : x.amount \in Nat /\ x.entry \in Entries
    <3>1. PICK f : f = [e \in Entries |-> [entry |-> e, amount |-> entries[e].amount]]
      OBVIOUS
    <3>2. f \in Surjection(Entries, W)
      BY <2>6, <3>1 DEF Surjection
    <3>3. IsFiniteSet(Entries)
      <4>1. PICK n \in Nat : n = Len(entries)
        BY DEF BudgetInv, BudgetRowsOK
      <4>2. Entries = 1..n
        BY <4>1 DEF Entries
      <4> QED
        BY <4>2, FS_Interval
    <3>4. \A e \in Entries : entries[e].amount \in Nat
      BY DEF BudgetInv, BudgetRowsOK, EntryRow
    <3> QED
      BY <2>6, <3>2, <3>3, <3>4, FS_Surjection
  <2>8. R \subseteq W
    BY <1>2, <2>6 DEF Rows, Live
  <2>9. IsFiniteSet(R) /\ \A x \in R : x.amount \in Nat /\ x.entry \in Entries
    BY <2>7, <2>8, FS_Subset
  <2>10. \A x \in R : entries[x.entry].budget \in budgets
    BY <1>2 DEF Rows, Live
  <2>11. PICK g : g = [x \in R |-> entries[x.entry].budget]
    OBVIOUS
  <2>12. PICK k : k = [x \in S |-> x.budget]
    OBVIOUS
  <2>13. g \in [R -> budgets] /\ k \in [S -> budgets]
    <3>1. \A x \in S : x.budget \in budgets
      BY <1>2
    <3> QED
      BY <2>10, <2>11, <2>12, <3>1
  <2>14. ASSUME NEW b \in budgets PROVE Total(InGroup(R, g, b)) <= Total(InGroup(S, k, b))
    <3>1. InGroup(R, g, b) = Rows(Live(b, EntryKinds \ {"payment"}, voided))
      BY <1>2, <2>11 DEF InGroup, Rows, Live
    <3>2. InGroup(S, k, b) = {[budget |-> b, amount |-> Authorized[b]]}
      BY <1>2, <2>12 DEF InGroup
    <3>3. Total(InGroup(S, k, b)) = Authorized[b]
      <4>1. PICK x : x = [budget |-> b, amount |-> Authorized[b]]
        OBVIOUS
      <4>2. x.amount \in Nat /\ x.amount = Authorized[b]
        BY <2>4, <4>1
      <4> QED
        BY <3>2, <4>1, <4>2, TotalOne
    <3>4. Total(InGroup(R, g, b)) = Consumed(b, voided)
      BY <3>1 DEF Consumed
    <3> QED
      BY <2>3, <3>3, <3>4 DEF BudgetInv, LimitsKept
  <2>15. Total(R) <= Total(S)
    BY <2>5, <2>9, <2>13, <2>14, TotalByGroup
  <2> QED
    BY <2>2, <2>15
<1> QED
  BY <1>3, <1>4

\* What is read for a question under the lock told of one moment.
LEMMA ReadTellsOneMoment ==
  ASSUME BudgetInv, PlansKept, NEW y \in Years, NEW a, a.year = y, a.calculator = release,
         a.cards = FactCards(Snapshot(y))
  PROVE  Told(a, simulations)
<1>1. PICK cards : cards = a.cards
  OBVIOUS
<1>2. /\ \A id \in BudgetIds : Present(cards, id) => cards[id] = BudgetFacts(y)[id]
      /\ \A id \in ScenarioIds : Present(cards, id) =>
           id \in DOMAIN SimulationFacts(y) /\ cards[id] = SimulationFacts(y)[id]
  BY <1>1, CardsRepeat
<1>3. \A id : Present(cards, id) => cards[id] # Missing
  BY DEF Present
<1>4. ASSUME Present(cards, "approved"), Present(cards, "consumed")
      PROVE  /\ cards["consumed"] <= cards["approved"]
             /\ Present(cards, "available") => cards["available"] = cards["approved"] - cards["consumed"]
  BY <1>2, <1>3, <1>4, BudgetsTold DEF BudgetIds
<1>5. ASSUME Present(cards, "proposed")
      PROVE  \E s \in 1..Len(simulations) :
               simulations[s].year = a.year /\ TellsScenario(a, simulations[s].inputs)
  <2>1. "proposed" \in DOMAIN SimulationFacts(y)
    BY <1>2, <1>5 DEF ScenarioIds
  <2>2. PICK s \in 1..Len(simulations) :
           LET now == Calculated(simulations[s].inputs, release)
           IN  /\ simulations[s].year = y /\ SimulationFacts(y)["baseline"] = now.baseline.net
               /\ SimulationFacts(y)["proposed"] = now.proposed.net
               /\ SimulationFacts(y)["delta"] = now.delta
    BY <2>1, ScenarioTold
  <2>3. TellsScenario(a, simulations[s].inputs)
    BY <1>1, <1>2, <2>2 DEF TellsScenario, ScenarioIds
  <2> QED
    BY <2>2, <2>3
<1> QED
  BY <1>1, <1>4, <1>5 DEF Told

\* A question is asked, read for and answered; nothing else happens to it.
LEMMA QuestionStep ==
  ASSUME BudgetInv, BriefingInv, Grown(simulations, simulations'), [BriefingNext]_briefingVars
  PROVE  QuestionKept'
<1> USE DEF BriefingInv
<1>1. ASSUME UNCHANGED <<question, messages>> PROVE QuestionKept'
  <2>1. PICK a : a = question
    OBVIOUS
  <2>2. a.step = "read" => Told(a, simulations')
    BY <2>1, ToldOfMore DEF QuestionKept
  <2> QED
    BY <1>1, <2>1, <2>2 DEF QuestionKept
<1>2. ASSUME question' = NoQuestion PROVE QuestionKept'
  BY <1>2 DEF QuestionKept, NoQuestion
<1>3. ASSUME NEW words \in Questions, NEW y \in Years, Ask(words, y) PROVE QuestionKept'
  <2>1. PICK topic : topic = ClassifyTopic(words, PreviousTopic)
    OBVIOUS
  <2>2. PICK x : x = [role |-> "user", year |-> y, topic |-> topic]
    OBVIOUS
  <2>3. /\ question' = [step |-> "asked", year |-> y, topic |-> topic] /\ messages' = Append(messages, x)
    BY <1>3, <2>1, <2>2 DEF Ask
  <2>4. PICK S : messages \in Seq(S)
    BY DEF AnswersKept
  <2>5. Len(messages') = Len(messages) + 1 /\ messages'[Len(messages')] = x /\ Len(messages) \in Nat
    <3>1. Appended(S, messages, x, messages')
      BY <2>3, <2>4 DEF Appended
    <3> QED
      BY <2>4, <3>1, OneAppended
  <2>6. Len(messages') \in 1..Len(messages')
    BY <2>5
  <2> QED
    BY <2>2, <2>3, <2>5, <2>6 DEF QuestionKept
<1>4. CASE ReadSnapshot
  <2>1. PICK a : a = [step |-> "read", year |-> question.year, topic |-> question.topic,
                      cards |-> FactCards(Snapshot(question.year)), calculator |-> release]
    OBVIOUS
  <2>2. /\ question.step = "asked" /\ question' = a /\ messages' = messages /\ question.year \in Years
        /\ UNCHANGED simulations
    BY <1>4, <2>1 DEF ReadSnapshot, QuestionKept, recordsVars, plansVars
  <2>3. PICK y \in Years : y = question.year
    BY <2>2
  <2>4. a.year = y /\ a.calculator = release /\ a.cards = FactCards(Snapshot(y))
    BY <2>1, <2>3
  <2>5. Told(a, simulations)
    BY <2>4, ReadTellsOneMoment
  <2> QED
    BY <2>1, <2>2, <2>5 DEF QuestionKept
<1>5. CASE UNCHANGED briefingVars
  BY <1>1, <1>5 DEF briefingVars, chatVars
<1>6. CASE BriefingNext
  BY <1>1, <1>2, <1>3, <1>4, <1>6 DEF BriefingNext, ChangeMembership, AnswerLocally, AnswerWithReply,
     Store, RefuseAnswer
<1> QED
  BY <1>5, <1>6

\* An answer without a reply says all that can be said of its figures.
LEMMA SaysItAll ==
  ASSUME NEW a, a.mode = "local",
         a.observations = {o.code : o \in Observations(a.cards, a.topic)},
         a.options = {o.code : o \in Options(a.cards, a.topic)}
  PROVE  SaysWhatItShows(a)
<1>1. a.observations \cap {"reported_activity", "source_missing"} # {}
  <2>1. CASE Present(a.cards, "reported")
    <3>1. PICK o : o = [code |-> "reported_activity", facts |-> {"reported", "months"} \cap DOMAIN a.cards]
      OBVIOUS
    <3>2. o \in Observations(a.cards, a.topic) /\ o.code = "reported_activity"
      BY <2>1, <3>1 DEF Observations, Said
    <3> QED
      BY <3>2
  <2>2. CASE ~Present(a.cards, "reported")
    <3>1. PICK o : o = [code |-> "source_missing", facts |-> {} \cap DOMAIN a.cards]
      OBVIOUS
    <3>2. o \in Observations(a.cards, a.topic) /\ o.code = "source_missing"
      BY <2>2, <3>1 DEF Observations, Said
    <3> QED
      BY <3>2
  <2> QED
    BY <2>1, <2>2
<1>2. a.options # {}
  <2>1. PICK o : o = [code |-> "review_sources", facts |-> {"exceptions"} \cap DOMAIN a.cards]
    OBVIOUS
  <2>2. o \in Options(a.cards, a.topic)
    BY <2>1 DEF Options, Said
  <2> QED
    BY <2>2
<1> QED
  BY <1>1, <1>2 DEF SaysWhatItShows

\* A reply that passed says no more than was offered to it.
LEMMA ReplyChecked ==
  ASSUME NEW a, NEW q, NEW reply, ValidCompletion(reply, Outbound(q)) /\ a.mode = "openrouter",
         a.observations = reply.observations /\ a.options = reply.options,
         a.cards = q.cards /\ a.topic = q.topic
  PROVE  SaysWhatItShows(a)
<1>1. /\ Outbound(q).observations = Observations(q.cards, q.topic)
      /\ Outbound(q).options = Options(q.cards, q.topic)
  BY DEF Outbound
<1>2. reply.options # {}
  <2> SUFFICES ASSUME reply.options = {} PROVE FALSE
    OBVIOUS
  <2>1. Cardinality(reply.options) = 0
    BY FS_EmptySet
  <2> QED
    BY <2>1 DEF ValidCompletion
<1> QED
  BY <1>1, <1>2 DEF SaysWhatItShows, ValidCompletion

\* An answer stored for the question that was read.
LEMMA AnswerStored ==
  ASSUME BriefingInv, question.step = "read", NEW a, SaysWhatItShows(a),
         a.year = question.year /\ a.topic = question.topic /\ a.cards = question.cards,
         a.calculator = question.calculator, messages' = Append(messages, a), simulations' = simulations
  PROVE  AnswersKept'
<1> USE DEF BriefingInv
<1>1. PICK S : messages \in Seq(S) /\ Len(messages) \in Nat
  BY DEF AnswersKept
<1>2. /\ Grown(messages, messages') /\ Len(messages') = Len(messages) + 1
      /\ messages'[Len(messages')] = a /\ \E T : messages' \in Seq(T)
  <2>1. PICK old, new : old = messages /\ new = messages' /\ Appended(S, old, a, new)
    BY <1>1 DEF Appended
  <2>2. Grown(old, new) /\ Len(new) = Len(old) + 1 /\ new[Len(new)] = a
    BY <2>1, OneAppended
  <2>3. \E T : new \in Seq(T)
    BY <2>1, SomeAppended
  <2> QED
    BY <2>1, <2>2, <2>3
<1>3. Told(a, simulations)
  BY DEF QuestionKept, Told, TellsScenario
<1>4. \E q \in 1..(Len(messages') - 1) : messages'[q] = [role |-> "user", year |-> a.year, topic |-> a.topic]
  <2>1. PICK q \in 1..Len(messages) :
          messages[q] = [role |-> "user", year |-> question.year, topic |-> question.topic]
    BY DEF QuestionKept
  <2>2. messages'[q] = messages[q] /\ q \in 1..(Len(messages') - 1)
    BY <1>1, <1>2 DEF Grown
  <2> QED
    BY <2>1, <2>2
<1>5. Answered(messages', simulations, Len(messages'))
  BY <1>2, <1>3, <1>4 DEF Answered
<1>6. Grown(simulations, simulations)
  BY NoneAppended DEF PlansKept
<1>7. ASSUME NEW m \in 1..Len(messages'), messages'[m].role = "assistant"
       PROVE  Answered(messages', simulations, m)
  <2>1. CASE m = Len(messages')
    BY <1>5, <2>1
  <2>2. CASE m # Len(messages')
    <3>1. m \in 1..Len(messages)
      BY <1>1, <1>2, <2>2
    <3>2. messages'[m] = messages[m]
      BY <1>2, <3>1 DEF Grown
    <3>3. Answered(messages, simulations, m)
      BY <1>7, <3>1, <3>2 DEF AnswersKept
    <3> QED
      BY <1>2, <1>6, <3>1, <3>3, AnsweredOfMore
  <2> QED
    BY <2>1, <2>2
<1> QED
  BY <1>1, <1>2, <1>7 DEF AnswersKept

\* Answers stay, and the new one is of its question.
LEMMA AnswersStep ==
  ASSUME BriefingInv, Grown(simulations, simulations'), [BriefingNext]_briefingVars
  PROVE  AnswersKept'
<1> USE DEF BriefingInv
<1>1. ASSUME UNCHANGED messages PROVE AnswersKept'
  <2>1. Grown(messages, messages)
    BY NoneAppended DEF AnswersKept
  <2>2. \A m \in 1..Len(messages) : messages[m].role = "assistant" => Answered(messages, simulations', m)
    BY <2>1, AnsweredOfMore DEF AnswersKept
  <2> QED
    BY <1>1, <2>2 DEF AnswersKept
<1>2. ASSUME NEW words \in Questions, NEW y \in Years, Ask(words, y) PROVE AnswersKept'
  <2>1. PICK x : /\ x = [role |-> "user", year |-> y, topic |-> ClassifyTopic(words, PreviousTopic)]
                 /\ messages' = Append(messages, x)
    BY <1>2 DEF Ask
  <2>2. PICK S : messages \in Seq(S) /\ Len(messages) \in Nat
    BY DEF AnswersKept
  <2>3. messages' = Append(messages, x)
    BY <2>1
  <2>4. /\ Grown(messages, messages') /\ Len(messages') = Len(messages) + 1
        /\ messages'[Len(messages')] = x /\ \E T : messages' \in Seq(T)
    <3>1. PICK old, new : old = messages /\ new = messages' /\ Appended(S, old, x, new)
      BY <2>2, <2>3 DEF Appended
    <3>2. Grown(old, new) /\ Len(new) = Len(old) + 1 /\ new[Len(new)] = x
      BY <3>1, OneAppended
    <3>3. \E T : new \in Seq(T)
      BY <3>1, SomeAppended
    <3> QED
      BY <3>1, <3>2, <3>3
  <2>5. ASSUME NEW m \in 1..Len(messages'), messages'[m].role = "assistant"
        PROVE  Answered(messages', simulations', m)
    <3>1. m # Len(messages')
      BY <2>1, <2>4, <2>5
    <3>2. m \in 1..Len(messages)
      BY <2>2, <2>4, <3>1
    <3>3. messages'[m] = messages[m]
      BY <2>4, <3>2 DEF Grown
    <3>4. Answered(messages, simulations, m)
      BY <2>5, <3>2, <3>3 DEF AnswersKept
    <3> QED
      BY <2>4, <3>2, <3>4, AnsweredOfMore
  <2> QED
    BY <2>2, <2>4, <2>5 DEF AnswersKept
<1>3. CASE AnswerLocally
  <2>1. PICK a : /\ messages' = Append(messages, a)
                 /\ a = [role |-> "assistant", year |-> question.year, topic |-> question.topic, mode |-> "local",
                         cards |-> question.cards, calculator |-> question.calculator,
                         observations |-> {o.code : o \in Observations(question.cards, question.topic)},
                         options |-> {o.code : o \in Options(question.cards, question.topic)}]
    BY <1>3 DEF AnswerLocally, Store
  <2>2. question.step = "read" /\ simulations' = simulations
    BY <1>3 DEF AnswerLocally, Store, recordsVars, plansVars
  <2>3. /\ a.mode = "local" /\ a.observations = {o.code : o \in Observations(a.cards, a.topic)}
        /\ a.options = {o.code : o \in Options(a.cards, a.topic)}
    BY <2>1
  <2>4. SaysWhatItShows(a)
    BY <2>3, SaysItAll
  <2> QED
    BY <2>1, <2>2, <2>4, AnswerStored
<1>4. ASSUME NEW reply \in Replies, AnswerWithReply(reply) PROVE AnswersKept'
  <2>1. PICK a : /\ messages' = Append(messages, a)
                 /\ a = [role |-> "assistant", year |-> question.year, topic |-> question.topic,
                         mode |-> "openrouter", cards |-> question.cards, calculator |-> question.calculator,
                         observations |-> reply.observations, options |-> reply.options]
    BY <1>4 DEF AnswerWithReply, Store
  <2>2. /\ question.step = "read" /\ simulations' = simulations
        /\ ValidCompletion(reply, Outbound(question))
    BY <1>4 DEF AnswerWithReply, Store, recordsVars, plansVars
  <2>3. PICK q : q = question
    OBVIOUS
  <2>4. SaysWhatItShows(a)
    BY <2>1, <2>2, <2>3, ReplyChecked
  <2> QED
    BY <2>1, <2>2, <2>4, AnswerStored
<1>5. CASE UNCHANGED briefingVars
  BY <1>1, <1>5 DEF briefingVars, chatVars
<1>6. CASE BriefingNext
  BY <1>1, <1>2, <1>3, <1>4, <1>6 DEF BriefingNext, ChangeMembership, ReadSnapshot, RefuseAnswer
<1> QED
  BY <1>5, <1>6

\* The invariant of the questions and their answers.
LEMMA BriefingInvHolds == BriefingSpec => []BriefingInv
<1>1. BriefingInit => BriefingInv
  <2> SUFFICES ASSUME BriefingInit PROVE BriefingInv
    OBVIOUS
  <2>1. IsFiniteSet(approvedBudgets) /\ Len(Formulas) \in Nat /\ 1 \in 1..Len(Formulas)
    BY FS_EmptySet, BriefingAssumption, EmptySeq DEF BriefingInit
  <2>2. PlansKept
    BY <2>1 DEF BriefingInit, PlansKept
  <2>3. QuestionKept
    BY DEF BriefingInit, QuestionKept, NoQuestion
  <2>4. AnswersKept
    BY DEF BriefingInit, AnswersKept
  <2> QED
    BY <2>2, <2>3, <2>4 DEF BriefingInv
<1>2. BudgetInv /\ BriefingInv /\ [BriefingNext]_briefingVars => BriefingInv'
  BY PlansStep, QuestionStep, AnswersStep DEF BriefingInv
<1> QED
  BY <1>1, <1>2, BriefingsLeaveBudgets, BudgetInvHolds, PTL DEF BriefingSpec

\* Answers tell one moment, bear out what they say and follow their question, and saved
\* simulations hold, for any budgets, dashboards, simulations, releases and replies, and
\* however often records and membership change while a question is answered (ask_director,
\* _planning_facts, validate_completion, price_cost_scenario).
THEOREM BriefingsAlwaysTellOneMoment == BriefingSpec => []BriefingsTellOneMoment
<1>1. BriefingInv => BriefingsTellOneMoment
  <2> SUFFICES ASSUME BriefingInv PROVE BriefingsTellOneMoment
    OBVIOUS
  <2>1. ASSUME NEW m \in Answers
        PROVE  LET a == messages[m] IN
                 /\ ToldOfOneMoment(a) /\ SaysWhatItShows(a)
                 /\ \E q \in 1..(m - 1) : messages[q] = [role |-> "user", year |-> a.year, topic |-> a.topic]
    <3>1. Answered(messages, simulations, m)
      BY DEF Answers, BriefingInv, AnswersKept
    <3> QED
      BY <3>1 DEF Answered, Told, ToldOfOneMoment
  <2>2. ASSUME NEW s \in 1..Len(simulations)
        PROVE  ResultsHold(simulations[s].results, simulations[s].inputs.marketing)
    <3>1. simulations[s] \in ScenarioRow
      BY DEF BriefingInv, PlansKept
    <3>2. PICK in \in Simulated, r \in 1..Len(Formulas) :
            simulations[s].inputs = in /\ simulations[s].results = Calculated(in, r)
      BY <3>1 DEF ScenarioRow
    <3> QED
      BY <3>2, CalculationsHold
  <2> QED
    BY <2>1, <2>2 DEF BriefingsTellOneMoment
<1> QED
  BY <1>1, BriefingInvHolds, PTL
=============================================================================
