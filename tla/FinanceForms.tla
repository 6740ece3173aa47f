---------------------------- MODULE FinanceForms ----------------------------
(***************************************************************************)
(* The forms with which finance records what it has seen                   *)
(* (webapp/operations_views.py, webapp/views.py sale_create, bill_create,  *)
(* core/numbering.py, evidence/services.py attach_document). A browser may *)
(* send a form again: pressed twice, repeated after an answer that was     *)
(* lost, or corrected after an error.                                      *)
(*                                                                         *)
(* A form about a bank line carries a reference drawn with its page, by    *)
(* which the service knows a repetition (finance/services.py _bank_post).  *)
(* A new order or bill has none: each request that is accepted makes a     *)
(* draft, with the next number of the year of its date. What the documents *)
(* behind a line allow is in the modules Receivables and Payables; here a  *)
(* line has only its own amount. A document attached to an order or a bill *)
(* is known by its bytes; how its file is stored and removed again is in   *)
(* the module SourceArchive.                                               *)
(***************************************************************************)
EXTENDS Amounts, Sequences

CONSTANTS
  FormLines, LineAmountOf,    \* bank lines; an outgoing one has a negative amount
  PagesDrawn,                 \* references of pages, one for each page drawn
  FormAmounts,                \* amounts a user may fill in
  FormUsers, FormRole,        \* users and their roles
  OrderData,                  \* what is filled in for an order or a bill
  ClosedYears,                \* years whose months are closed
  Creations, MaxDrafts,       \* requests that create drafts; bound
  Attachers, Sources,         \* requests that attach documents; orders and bills
  Documents, MaxUpload        \* what may be uploaded; largest size

ASSUME FormsAssumption ==
  /\ LineAmountOf \in [FormLines -> Int \ {0}] /\ FormAmounts \subseteq Nat
  /\ FormRole \in [FormUsers -> {"owner", "finance", "director"}] /\ {MaxDrafts, MaxUpload} \subseteq Nat

VARIABLES
  drawn,       \* the pages a browser has open
  answered,    \* the post that was answered last, with its answer
  recorded,    \* BankPosting rows
  lastNumber,  \* DocumentCounter: the last number given, by kind and year
  creating,    \* requests between taking a number and the end of their transaction
  drafts,      \* Invoice and Bill rows in the order of their keys
  members,     \* users whose membership is active
  attaching,   \* requests between the inspection of a file and the end of their transaction
  attachments, \* Attachment rows
  told         \* the documents whose users were told that they are attached

matchVars  == <<drawn, answered, recorded>>
numberVars == <<lastNumber, creating, drafts>>
attachVars == <<members, attaching, attachments, told>>
formsVars  == <<matchVars, numberVars, attachVars>>

-----------------------------------------------------------------------------
(* Forms about a bank line. *)

\* OPERATIONS: what a form is opened for. An adjustment starts from a line and may be one
\* of two kinds; the others let the user choose a line.
Operations == {"bank_adjustment", "customer_advance", "customer_advance_refund",
               "sale_refund", "tax_remittance"}
KindsOf(operation) ==
  IF operation = "bank_adjustment" THEN {"bank_fee", "owner_funding"} ELSE {operation}

\* The direction of the line that each kind matches.
Direction ==
  [bank_fee |-> -1, owner_funding |-> 1, customer_advance |-> 1,
   customer_advance_refund |-> -1, sale_refund |-> -1, tax_remittance |-> -1]

MayWrite(u)  == FormRole[u] \in {"owner", "finance"}
KindsFor(u)  == DOMAIN Direction \ (IF FormRole[u] = "owner" THEN {} ELSE {"owner_funding"})

Sign(line)      == IF LineAmountOf[line] < 0 THEN -1 ELSE 1
Remaining(line) == Sign(line) * LineAmountOf[line] - Total({r \in recorded : r.line = line})

\* pending_bank_transactions
PendingLines == {line \in FormLines : Remaining(line) > 0}

\* financial_operation, GET: a page with a reference of its own.
DrawForm(u, page, operation, source) ==
  /\ MayWrite(u)
  /\ \A d \in drawn : d.reference # page
  /\ drawn' = drawn \cup {[reference |-> page, user |-> u, operation |-> operation,
                           source |-> source]}
  /\ UNCHANGED <<answered, recorded, numberVars, attachVars>>

\* The lines a posted form is compared with. The line it names is among them even if it
\* is no longer pending, so that a repetition reaches the service.
Offered(post) ==
  {line \in PendingLines \cup {post.line} : Sign(line) = Direction[post.kind]}

FormValid(d, post) ==
  /\ post.amount > 0 /\ post.confirmed /\ post.kind \in KindsFor(d.user)
  /\ d.operation # "bank_adjustment" => post.line \in Offered(post)

PostingRow(post) == [reference |-> post.reference, kind |-> post.kind, line |-> post.line,
                     amount |-> post.amount]
Used(reference) == {r \in recorded : r.reference = reference}

\* _bank_post: the same fact again is the row that is there; another under the same
\* reference, the wrong direction, and more than the line has left, are refused.
Accepts(post) ==
  IF Used(post.reference) # {} THEN PostingRow(post) \in recorded
  ELSE Sign(post.line) = Direction[post.kind] /\ post.amount <= Remaining(post.line)

Answer(post, outcome) == answered' = {[post |-> post, outcome |-> outcome]}

\* financial_operation, POST, each time the form arrives: "recorded" redirects, the
\* others draw the form again with the reference it had.
FinancialOperation(d, post) ==
  /\ IF ~FormValid(d, post) THEN Answer(post, "invalid") /\ UNCHANGED recorded
     ELSE IF Accepts(post)
     THEN Answer(post, "recorded") /\ recorded' = recorded \cup {PostingRow(post)}
     ELSE Answer(post, "refused") /\ UNCHANGED recorded
  /\ UNCHANGED <<drawn, numberVars, attachVars>>

-----------------------------------------------------------------------------
(* New orders and bills. *)

Free == [kind |-> "none"]

\* InvoiceForm.clean; a bill may come after its service.
FormDatesOK(data) ==
  data.kind = "INV" => data.due >= data.date /\ data.service >= data.date

Series(data) == <<data.kind, data.year>>

\* next_number: the row of the counter is locked until the transaction ends, so that
\* another request for the same kind and year waits.
TakeNumber(q, data) ==
  /\ creating[q] = Free /\ FormDatesOK(data) /\ Len(drafts) < MaxDrafts
  /\ \A other \in Creations :
       creating[other] # Free => Series(creating[other].data) # Series(data)
  /\ creating' = [creating EXCEPT ![q] = [kind |-> "taken", data |-> data,
                                          value |-> lastNumber[Series(data)] + 1]]
  /\ UNCHANGED <<matchVars, attachVars, lastNumber, drafts>>

\* The draft with its number, or neither; a number that was taken for a request that is
\* refused goes to the next one.
CreateDraft(q, kind) ==
  LET data == creating[q].data IN
  /\ creating[q] # Free /\ data.kind = kind /\ data.year \notin ClosedYears
  /\ lastNumber' = [lastNumber EXCEPT ![Series(data)] = creating[q].value]
  /\ drafts' = Append(drafts, [series |-> Series(data), number |-> creating[q].value])
  /\ creating' = [creating EXCEPT ![q] = Free]
  /\ UNCHANGED <<matchVars, attachVars>>

SaleCreate(q) == CreateDraft(q, "INV")
BillCreate(q) == CreateDraft(q, "BILL")

\* The service refuses, or the worker dies.
DraftFails(q) ==
  /\ creating[q] # Free
  /\ creating' = [creating EXCEPT ![q] = Free]
  /\ UNCHANGED <<matchVars, attachVars, lastNumber, drafts>>

-----------------------------------------------------------------------------
(* Documents beside an order or a bill. *)

\* ALLOWED_EXTENSIONS
TypeOf == [pdf |-> "pdf", png |-> "png", jpg |-> "jpeg", jpeg |-> "jpeg"]

\* _validate_structure: a document of pages that neither acts nor carries others, or one
\* picture that can be read to its end.
Sound(file) ==
  /\ file.readable
  /\ IF file.signature = "pdf"
     THEN ~file.encrypted /\ file.pages \in 1..2000 /\ ~file.active
     ELSE file.format = file.signature /\ file.megapixels <= 20 /\ file.frames = 1

\* inspect_upload: neither the name nor the reported size is believed.
Inspected(file) ==
  /\ file.suffix \in DOMAIN TypeOf /\ file.size \in 1..MaxUpload
  /\ file.signature = TypeOf[file.suffix]
  /\ Sound(file)

\* _authorize
MayAttach(u) == u \in members /\ MayWrite(u)

\* The organization's row is locked by attach_document and by update_member_access.
OrganizationFree == \A q \in Attachers : attaching[q].kind # "open"

\* attach_document up to its transaction; a user or a file that is refused ends here.
InspectUpload(q, u, source, file) ==
  /\ attaching[q] = Free /\ MayAttach(u) /\ Inspected(file)
  /\ attaching' = [attaching EXCEPT ![q] =
       [kind |-> "inspected", user |-> u, source |-> source, file |-> file]]
  /\ UNCHANGED <<matchVars, numberVars, members, attachments, told>>

Document(q)   == [source |-> attaching[q].source, hash |-> attaching[q].file.hash]
Existing(doc) == {row \in attachments : row.doc = doc}

\* _attach_source: the browser is told so when the service returns a row, new or not.
Tell(doc) == told' = told \cup {doc}

\* In the transaction the user is looked at again, and the document may be there.
LockAndCompare(q) ==
  /\ attaching[q].kind = "inspected" /\ OrganizationFree
  /\ IF MayAttach(attaching[q].user) /\ Existing(Document(q)) = {}
     THEN attaching' = [attaching EXCEPT ![q].kind = "open"] /\ UNCHANGED told
     ELSE /\ attaching' = [attaching EXCEPT ![q] = Free]
          /\ IF MayAttach(attaching[q].user) THEN Tell(Document(q)) ELSE UNCHANGED told
  /\ UNCHANGED <<matchVars, numberVars, members, attachments>>

\* The row, with the file of this attempt; allowed is history.
SaveAttachment(q) ==
  /\ attaching[q].kind = "open"
  /\ attachments' = attachments \cup
       {[doc |-> Document(q), file |-> attaching[q].file, allowed |-> MayAttach(attaching[q].user)]}
  /\ Tell(Document(q))
  /\ attaching' = [attaching EXCEPT ![q] = Free]
  /\ UNCHANGED <<matchVars, numberVars, members>>

\* An exception, or the worker dies: no row, and no answer that says so.
AttachFails(q) ==
  /\ attaching[q] # Free
  /\ attaching' = [attaching EXCEPT ![q] = Free]
  /\ UNCHANGED <<matchVars, numberVars, members, attachments, told>>

\* update_member_access
RevokeMember(u) ==
  /\ u \in members /\ OrganizationFree
  /\ members' = members \ {u}
  /\ UNCHANGED <<matchVars, numberVars, attaching, attachments, told>>

-----------------------------------------------------------------------------
FormsInit ==
  /\ drawn = {} /\ answered = {} /\ recorded = {}
  /\ lastNumber = [s \in {Series(data) : data \in OrderData} |-> 0]
  /\ creating = [q \in Creations |-> Free] /\ drafts = <<>>
  /\ members = FormUsers /\ attaching = [q \in Attachers |-> Free]
  /\ attachments = {} /\ told = {}

\* What may be sent from a page.
Posts(d) ==
  {[reference |-> d.reference, kind |-> kind, line |-> line, amount |-> amount,
    confirmed |-> confirmed] :
     kind \in KindsOf(d.operation), amount \in FormAmounts, confirmed \in BOOLEAN,
     line \in IF d.operation = "bank_adjustment" THEN {d.source} ELSE FormLines}

MatchNext ==
  \/ \E u \in FormUsers, page \in PagesDrawn :
       \/ \E line \in FormLines : DrawForm(u, page, "bank_adjustment", line)
       \/ \E operation \in Operations \ {"bank_adjustment"} : DrawForm(u, page, operation, "none")
  \/ \E d \in drawn : \E post \in Posts(d) : FinancialOperation(d, post)

NumberNext ==
  \E q \in Creations :
    \/ \E data \in OrderData : TakeNumber(q, data)
    \/ SaleCreate(q) \/ BillCreate(q)
    \/ DraftFails(q)

AttachNext ==
  \/ \E u \in FormUsers : RevokeMember(u)
  \/ \E q \in Attachers :
       \/ \E u \in FormUsers, source \in Sources, file \in Documents :
            InspectUpload(q, u, source, file)
       \/ LockAndCompare(q) \/ SaveAttachment(q) \/ AttachFails(q)

FormsNext == MatchNext \/ NumberNext \/ AttachNext

FormsSpec == FormsInit /\ [][FormsNext]_formsVars
-----------------------------------------------------------------------------
(* Properties *)

\* A page records one fact, however often it is sent and whatever is changed in between;
\* and what the browser was told is so: told recorded, it is there; told that the form or
\* its amount is wrong, it is not, also when the same form was sent before and used up the
\* line (the comment on retries in _operation_form). No line is matched beyond its amount.
PagesRecordOnce ==
  /\ \A r, s \in recorded : r.reference = s.reference => r = s
  /\ \A a \in answered : a.outcome = "recorded" <=> PostingRow(a.post) \in recorded /\ a.post.confirmed
  /\ \A line \in FormLines : Remaining(line) >= 0

\* The numbers of a kind and year are 1, 2, 3, ... with none left out and none given
\* twice, in the order of the drafts, whatever requests overlap, are refused or die with a
\* number in hand (next_number).
NumbersRunThrough ==
  \A s \in DOMAIN lastNumber :
    LET given == {d \in 1..Len(drafts) : drafts[d].series = s} IN
    /\ {drafts[d].number : d \in given} = 1..lastNumber[s]
    /\ \A d, e \in given : d < e => drafts[d].number < drafts[e].number

\* A document is beside an order or a bill once, under whichever name it is sent and however
\* many requests overlap; whoever was told that it is there finds it; it was put there by
\* somebody who could write at that moment, not only when the file was uploaded; and its
\* bytes are what its name says (attach_document, inspect_upload).
DocumentsAttachedOnce ==
  /\ \A r, s \in attachments : r.doc = s.doc => r = s
  /\ \A doc \in told : \E row \in attachments : row.doc = doc
  /\ \A row \in attachments :
       row.allowed /\ row.file.readable /\ row.file.signature = TypeOf[row.file.suffix]

FormsRecordOnce == PagesRecordOnce /\ NumbersRunThrough /\ DocumentsAttachedOnce
=============================================================================
