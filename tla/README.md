# A TLA+ model of OSEE ERP

OSEE ERP (`src/`, Django) keeps the books of a small training company: sales orders,
supplier bills, bank evidence, a double-entry ledger with month closes, tax records, a
director's workspace with a budgeted AI assistant, marketing evidence, and archived
recaps of earlier years. This directory models its core in TLA+, checks the models with
TLC on small instances, and proves what matters most for every instance with TLAPS.

## How the program works, and what makes it hard

Nearly every write service of the domain apps is one database transaction of the same
shape: lock the `Organization` row (`_lock_org`), check the actor's membership, check the
guards, write the rows and the audit record, commit or roll back as a whole. Requests of
many users interleave, but only at the granularity of such a service: one service is one
TLA+ action, guards and writes together. What is left to go wrong, and is hard to test, is

* the order of *business dates* against the order of *commits*: nearly every service takes
  a date from the user or from a bank line, so a step that is legal when it is committed
  can rewrite what was true as of an earlier day;
* several documents drawing on one bank line, one order or one advance, through three
  different tables;
* a month that is closed before or after another one, with balances recorded at the close
  that must stay true;
* what lies *between* two transactions: a page that carries a version, a preview confirmed
  later, a form sent again, an external AI call, a question answered from figures that
  change, a role read before the lock;
* what is *outside* the organization's lock: files beside rows, sign-in and its second
  factor, quotas, sessions, backup and the move to another database;
* pure rules at a boundary: how a cell becomes an amount, which days a report covers, when
  two prices or two advertising reports overlap, where a three-year right ends.

Where a request is not one transaction, the model has one action per transaction (or, in
`Throttle` and `SignIn`, per statement), with the place of the request as state.

## Inventory

| component (`src/`) | state it keeps | operations | interacts with | what makes it correct | status |
|---|---|---|---|---|---|
| General ledger, month close (`finance/`) | posted journals, closed periods | `_post`, `report_balances`, `close_month` | every finance service posts here | balanced journals; frozen history; recorded balances stay true | modelled, proved |
| Bank evidence (`finance/`) | bank lines, allocations, payments, postings, openings | `import_bank_csv`, `_bank_post`, fee, funding, transfer, opening | claimed by receivables and payables | a line is used once over; bank balance equals evidence; transfers clear | modelled, proved |
| Receivables (`finance/`) | invoices, deliveries, receipts, advances, applications, cancellations, refunds | 10 services | bank lines, ledger, leads | subledgers tie out as of every day; nobody is overrefunded; a reseller pays first | modelled, proved |
| Payables (`finance/`) | bills, tax decisions, payments, settlements, remittances, releases | 7 services | bank lines, ledger, tax | a bill is paid once; cost follows service; remittance follows withholding | modelled, proved |
| Price versions (`finance/`) | effective-dated prices | save, `replace_price_version`, `_resolve_price` | invoices, month close | one price per day; the price of a closed day stands | modelled, proved |
| Statement intake (`webapp/statement_*`) | stored files, previews | upload, preview, confirm | bank lines | each movement told is in the books once, read one way | modelled, proved; the readers are model-checked |
| Forms, documents, numbering (`webapp/`, `core/numbering.py`, `evidence/`) | postings by page, drafts, sequences, attachments | financial forms, new order or bill, `next_number`, `attach_document` | bank lines, orders, bills | what is sent again is recorded once; numbers run through | proved; modelled in part: pages without state are layout |
| Tax workflow (`taxes/workflow.py`, `rules.py`) | profile decisions, obligations, evidence, annual packages | prepare, approve, verify, file | bills, ledger | what is approved and filed is what the books say; the final tax does not begin anew | proved; modelled in part: the arithmetic of rates is not modelled |
| Tax knowledge chat (`taxes/knowledge.py`, `chat.py`) | sources, editions, reviews, conversations, quotas | stage, review, ask | users, quotas | answers stand on reviewed, current sources | modelled, proved |
| Director's records (`director/services.py`, `views.py`) | objectives, decisions, budgets, entries, cash plans, simulations | versioned edits, workflow, entries, forecast | finance figures | signed as shown and by another; spending counted once | proved; modelled in part: purchase packages are not modelled |
| Paid AI calls (`director/ai.py`, `marketing/ai.py`) | policy, usage reservations, shared counters | configure, reserve, dispatch, settle, overage, deliver | the paid model, memberships | counters add up over failures and months; one consent from reservation to answer | modelled, proved; the director's request quota is not |
| Director's questions (`director/ai.py`, `calculators.py`) | questions, snapshots, answers | ask, read, answer | dashboard, budgets, simulations | an answer tells one moment | modelled |
| Marketing (`marketing/`, `director/marketing_import.py`) | leads, tasks, advertising reports, reported figures | create, update, link, report, correct, import, advise | orders and receipts | cohorts lie within receipts; spending counts once; figures compare like with like | proved; modelled in part: goals and touchpoints are not modelled |
| Recaps and evidence files (`imports/`, `evidence/`) | batches, months, channels, notes, files | `import_bundle`, `import_summary`, clean-up | suppliers' bills, the dashboard | all or nothing; a row never lacks its file; a year tells what was archived | modelled, proved |
| Accounts (`core/`, `webapp/account_views.py`) | memberships, password, second factor, sessions | role changes, sign-in, enrolment, resets | all | an owner remains; codes work once; a change ends sessions | modelled, proved |
| Request throttle (`core/throttle.py`) | counters of a window | attempt, reset | sign-in | no more attempts than the limit | modelled, proved |
| Backup and move (`scripts/`) | archives, workspace, destination | backup, restore, transfer | database, files | what is restored or moved is whole | modelled, proved |
| Configuration, deployment, schema migrations, layout | none of their own | | | | not modelled |

`PROJECT.json` lists the components with their sources and what is left out of each, and
every hazard at the line where it bites, with the properties that watch it.

## The modules

    Amounts                sums over tables
      Ledger               business day, journal, closed months; Post, Close
        BankBook           bank lines, claims, openings
          StatementIntake  statements from upload to confirmation
          Receivables      sales documents
            Funnel         leads and the orders linked to them
          Payables         purchase documents
            Finance        both, with the complete month close
      AIReservation        paid calls of the director and of marketing
      FinanceForms         forms about bank lines, new drafts, attached documents
        FinanceDesk        forms and statements side by side
      BudgetEntries        entries of budgets
        Briefing           the director's questions
      CashPlans            cash plan and forecast
      MarketingAdvice      marketing figures, advice, tasks
      AdReports            advertising reports by dimension
      AnnualTax            the tax year
      SourceRecap          what archived recaps tell
    Readings               cells and lines of files as values
    Approvals              proposals, their pages and their workflow
    PriceVersions          effective-dated prices
    ReportedObservations   reported marketing figures, by hand and from files
    TaxFacility            the years of the final tax
    TaxKnowledge           sources, reviews and cited answers
    TeamAccess  SignIn  Throttle
    SourceArchive          rows and their files
      Backup               backup and restore beside it
        Transfer           the move to another database
    GeneralLedger          abstract: what a reader of the reports may rely on

    AmountTheorems         sums, least elements
      BankBookTheorems     ledger and bank book
        FinanceTheorems    Receivables, Funnel, Payables, Finance
      DeskTheorems         FinanceDesk: StatementIntake, FinanceForms
      AIReservationTheorems
      DirectorTheorems     Approvals, BudgetEntries, CashPlans, MarketingAdvice, Briefing
      ReportsTheorems      PriceVersions, TaxFacility, AnnualTax, ReportedObservations, AdReports,
                           TaxKnowledge, SourceRecap
    PlatformTheorems       TeamAccess, SignIn, Throttle, SourceArchive, Backup, Transfer
    MCBankBook  MCReceivables  MCFinance  MCAIReservation
    MCDirector  MCPlatform  MCReports

### Finance

**Amounts.** The code sums columns in the database (`aggregate(Sum("amount"))`).
`Total(rows)` counts the units of the rows; it equals the usual recursive sum, and its laws
can be proved from the library's cardinality theorems.

**Ledger.** `journal` holds the lines of posted journals. A journal is named by its
`source_key`; `Post` is `_post`: a known key must carry the same lines, a new one needs an
open period. `Frozen` is `assert_open_period`: a closed month freezes its own days *and
every earlier day*, so months may be closed out of order. `closings` holds each closed
`AccountingPeriod` with the balances that the audit event of `close_month` recorded.
`Close` takes what blocks it as a parameter, since each module adds its own blockers. A
month is named by its last day.

**BankBook.** A claim is a row that uses part of a bank line: `Allocation`, `BillPayment`,
or `BankPosting` with the row that belongs to it. The code adds up three tables in
`allocated_amount`; the model keeps one set of claims with a kind. The signed amount is a
direction and a magnitude. `ImportBankCsv` takes a set of rows and imports it whole or not
at all.

**Receivables, Payables.** One action per service, named after it. The draft, issued,
delivered, cancelled life of an order is `status`; what `Invoice.clean` freezes is an
immutable row in `invoices`. `ReceivablesBlocked`, `PayablesBlocked` and `BankBlocked` are
the parts of `_close_blockers`. **Finance** puts all of them together with `CloseMonth`,
and implements **GeneralLedger**: a book of balances as of every day, balanced, of which
nothing up to the frozen day ever changes.

**Funnel** adds `Lead` rows to Receivables: `create_lead`, `update_lead`, `link_invoice`
with its party, segment and channel checks, and the receipts and cohort receipts that
`analytics._period` reads from both.

**StatementIntake.** The bank has one history of an account; an uploaded file is a stretch
of it. A mapping chooses whether the column of the bank's reference is read (the strict way
requires it, the other may leave it out) and which rows are taken; a row without a reference
that is read is named by a fingerprint of printed facts. So two files may tell one movement
under two names; `ToldUnderOneName` says that they do not, which
`docs/FINANCE-OPERATING-GUIDE.md:15` asks of users and nothing enforces. `Preview` signs
what it shows, `Confirm` accepts the token only for the same user, file and mapping and
while it has not expired, and then runs `ImportBankCsv`. The stored file may change under a
preview (`StorageChanges`).

**Readings.** `parse_money`, the bank template's reader and the two readers of reported
figures, as functions of the symbols of a cell; the forms of a day; the heading, the
limits and the rows of a file. Written symbol by symbol, so that every cell up to the
bound is met. What a digit is worth is a constant (`DigitValue`): the theorem is about the
ten digits, or any others; TLC's cells have two.

**FinanceForms.** Three parts that share no row. *Matching*: `financial_operation` with
the posted `reference` drawn by the page and `_bank_post`, which knows a repetition by it.
*Numbering*: `sale_create` and `bill_create` with `next_number`, whose counter row is read
and raised under a lock in a transaction that may fail later. *Attaching*:
`attach_document`, from the inspection of the upload (type, size, encryption, active
content, frames) through the two checks of the membership to the row that two requests
with the same bytes share. **FinanceDesk** lets them and the statements interleave.

**PriceVersions.** `PriceVersion.save` with `_overlap`, `replace_price_version` (the old
version ends the day before; a closed month locks its days), and the price that
`_resolve_price` finds: the party's own before everyone's.

### Director and marketing

**AIReservation** has one action per transaction of `_openrouter_priorities` and
`_external`, which hold five or six of them with a network call between, so a call has a
place (`thread`):

| action | code |
|---|---|
| `Reserve` | `_reserve_external`, `_reserve`: admission and the raise of three counters |
| `CheckPolicy`, `Dispatch` | the first `_check_policy` and `_usage_state("dispatching")` of the director; marketing's `_dispatch` does both at once |
| `Timeout`, `RejectAnswer`, `Complete`, `RecordOverage` | how the network call ends, with the cost the provider reported (`billed`) or none |
| `FinalCheck`, `Refuse`, `Deny` | the check before the answer is used, and its two ways to fail |
| `HandleFailure`, `Deliver` | the except clause; the local fallback or the model's answer is stored |
| `Crash` | the worker ends anywhere, also by an exception the except clause does not name |
| `Configure`, `UpdateMemberAccess`, `NextMonth` | what owners and the calendar do at any moment between |

The counters are keyed by deployment, company and service, and user, each per month, so
calls of the two services and of several companies meet in them. `disturbed` and `stopped`
are history variables: which calls have seen their policy change under way, and which
policy versions an overage has disabled.

**Approvals.** One objective, decision or budget (`kind`), edited in browser pages that
carry `expected_version`; `Transition` is submit, review, approve, activate, complete and
reject of `transition_decision` and `transition_budget`, with their separation of people and the
owner's recorded exception. A refused save draws the form again with the current version
(`Refused`), as the views do.

**BudgetEntries.** `add_budget_entry`, `void_budget_entry`, `replace_budget_entry` under
one idempotency key each. **CashPlans.** A plan with its cut-off day and lines, and
`cash_forecast` as operators over its state. **MarketingAdvice.** Leads, reports and
receipts, the snapshot of a scope with its coverage and comparison rules, the findings of
`build_recommendations`, and the task that `action_create` makes of a finding verified on
the page's scope. **Briefing.** `ask_director` in its three transactions: question,
snapshot under the lock, answer; `classify_topic`, the fact cards, observations and
options, what is sent to the outside model and `validate_completion` of what it says;
the saved simulations of `price_cost_scenario` and their check by formula version.

**AdReports.** `AdDailyObservation` with its overlap rule between dimensions, manual
entry, correction, and the file import, all or nothing. **ReportedObservations.** Rows
that are only voided and replaced, and `marketing_import` by key.

### Tax, archive and platform

**AnnualTax.** `approve_tax_profile`, `prepare_obligation`, `review_bill_tax` as the year
reads it, `approve_obligation`, remittance, `verify_official_evidence`, and the annual
package: prepared from a snapshot of books and obligations, approved only if nothing has
changed since, filed against evidence. **TaxFacility.** `validate_final_profile` and
`profile_gates`: which years the final tax may be used in. **TaxKnowledge.** The staged
editions of sources, their activation with a recorded review, the quotas of a question,
the answer with its citations, and the cards a conversation shows later.

**SourceRecap.** `_validate` of a bundle's pages, channels, details and notes, the draft
bill, `import_summary` with its notes and annual totals of whole sources, and what the
dashboard lists by year: months, columns by partner with the count that a column may bring
itself, notes, annual records. **SourceArchive.** A request writes its files inside the
database transaction, and remembers each only when its `save` returns; it may commit, hear
an error of a COMMIT that took place (`CommitUnheard`), fail also in the middle of a save
and clean up, or die at any point. **Backup**, **Transfer.** `create_backup` dumps the
database and copies the listed files while writers go on; `restore_backup` fills an empty
place; `transfer` takes a backup, restores it in a workspace of its own, loads the rows into
PostgreSQL, copies the files, checks the source again and is approved or abandoned.

**TeamAccess.** `setup`, `member_create`, `update_member_access`, with a role read when
the request arrives and checked again under the lock. **SignIn.** One account and its
browsers: the password form, the code, enrolment, change and reset of the password, the
forced change after a reset, sessions bound to the password's hash and the MFA version.
`password_change` saves the password and clears the mark in two statements, so it has two
actions. **Throttle.** The three counters of an attempt, statement by statement with the
row locks, waiting, and the rollback the database chooses when requests wait in a circle.

### Composite instances

Some components share no row: a proposal and a cash plan, a price and a tax question. A
module such as `MCReports` extends several of them and has a variable `part`: a behaviour
follows one component and the others keep their initial state. Since no action of one
reads a variable of another, nothing is lost: each invariant is about the variables of one
part (or of the parts that are followed together, as in `MCFinance`'s `"all"`), and every
behaviour of a component is a behaviour of the instance. What *does* interact is followed
together: sales, purchases and bank services; leads with orders; intake with the bank
book; entries with questions; archive with backup, and both with the move.

### Faulty definitions

A definition that begins with a comment "Faulty ..." is a deliberate wrong variant of the
operator that follows: a dropped guard, a swapped order, a comparison off by one. No
specification uses it. `PROJECT.json` names one for every property of every run, and with
it in place of the operator TLC finds the property violated, so no property holds by the
shape of the model.

### Abstractions

* Money is a natural number of the smallest unit; `_amount`'s parsing and its refusal of
  zero and negatives are the choice of the inputs, except in `Readings`, which is about it
  and leaves out the largest amounts (`parse_money` refuses sooner than `_amount`).
* Finance services: who may do what (`_authorize`, `_owner`) is left out, because it
  restricts which user may take an action, not what it does. Where a role changes under a
  request or several people must act, roles are state: `AIReservation`, `Approvals`,
  `TeamAccess`, `FinanceForms`, `Briefing`. Texts, reasons, audit records and domain
  events are left out.
* A repeated call with the same facts returns the old row: a stuttering step. With other
  facts it is refused. A refused request changes nothing and is no step, except where what
  it answers matters (the page drawn again in `Approvals`, the answers of `FinanceForms`).
* References typed by users are model values and the keys made of them tuples: the model
  does not let a reference collide with the suffixes `:out`, `:in` or the prefix
  `withheld-bill:` of generated ones (such a collision is refused in the code).
* `Payables`: `review_bill_tax` is reduced to its result, an amount withheld (or none) for
  a month. `AnnualTax` has the obligation it makes.
* Deleting a draft (`_delete_current_draft`) and `post_journal` have no caller in the
  application and are not actions. Draft `Journal` rows exist only inside `_post`.
* `AIReservation`: contents are left out; an answer is valid or not. A policy version is a
  counter that starts at 0 for "no row"; the code only compares versions for equality. The
  reads of one `_check_policy` are taken at one moment. The month in which a reservation is
  counted and the one stamped on its row come from two readings of the clock; they are the
  same unless `MidnightInside`.
* Hashes, signatures and digests stand for what they are taken of; two contents never
  share one.
* Calendars are shortened: months of two or three days, a window of seconds, weeks of two
  days. `TaxFacility` splits a year at 22 April, the day of the reform.

## The runs

Deadlock is not checked: users act or not, and the bounds end every behaviour. The runs
check safety and assume no fairness, because nothing in the code makes a user act and there
is no background worker, with one exception: `AISpec` assumes weak fairness of
`Advance(c)`, the worker of an admitted call keeps running its own steps.
`urlopen(..., timeout=20)` and the bound on what is read make the network call one of them,
whatever the provider does. Nothing is assumed of the provider, the owners, the users or
the calendar, and a worker may crash. `EveryCallEnds` is checked under it.

| run | instance | shows |
|---|---|---|
| `BankBook` | *book*: 2 accounts, 5 days, months ending on days 2 and 4, 4 files (one repeats a line, one contradicts a reference), 2 references, amounts 1 and 2. *intake*: 4 movements of which 3 look alike, 2 overlapping files, with and without the column of the reference, 2 previews, three days. *reading*: cells to 7 symbols, days to 6, files to 7 lines. *matching*: a deposit of 3, a withdrawal of 2, 2 pages, 2 users. *numbering*: 2 requests, 4 drafts, 2 years. *attaching*: 2 requests for an order and a bill, 8 kinds of file | recorded balances stand, the books tie to the bank as of every day, each movement is recorded once for every name it was told under, each form and document once, files are read one way |
| `Receivables` | *order*: one order, lines in on two days and out on a third, one month end. *rivals*: two orders on one incoming and one outgoing line, two days. *leads*: two leads, 2 channels, one order with receipts of one unit | control accounts tie out and keep their sign as of every day; nobody is overrefunded; a reseller pays by the day of delivery; a cohort's cash is part of the receipts; references, leads and channels are interchangeable |
| `Finance` | *purchases*: one bill of 2 or 3, past or later service, expense or prepayment, withholding 0 or 1, payments in two months. *all*: an order, a bill, one line in and one out, two days of which the first is a month, one unit at a time | payables tie out, cost follows service, remittance follows withholding, no line is used twice, profit can be derived from the documents, closed months stay complete, and the services implement `GeneralLedger` |
| `AICalls` | 1 company, an owner and a marketer, 2 calls of both services, 2 months, 2 policy versions, roles taken away, a reported cost above the ceiling or none | an answer passes only under one unbroken consent; every admitted call ends |
| `AISharedBudget` | 2 companies, 2 users, 2 services, 3 calls on one budget for two; companies and users are interchangeable, so symmetry is used | every counter is the sum of what its calls count for; an admitted call finds its money |
| `Director` | *approvals*: an owner, a director, a finance user, 2 contents, 2 versions, all three kinds. *budgets*: 2 budgets of 3, 3 entries of 1 or 3, 3 keys. *briefing*: 2 budgets of two years, 3 changes of the records, 2 simulations, 2 questions (4 messages), 4 replies; the questions are about one of the years. *cash*: 4 days, 3 lines, 2 weeks of 2 days. *figures*, *advice*: 3 days, 3 records, 9 scopes; one task | proposals are signed as shown and by another; spending stays within its authorization and counts once; answers tell one moment; the forecast tells the plan; figures compare like with like |
| `Platform` | *team*: 4 people, 2 roles. *sign-in*: 2 browsers, 3 passwords or 2 secrets, 2 code periods, a recovery code. *throttle*: 2 requests of one login, limits 3, 2 and 1, windows of 2 seconds. *backup*: 2 uploads of 3 bundles, 3 names. *transfer*: one upload at a time, 2 releases | an owner remains, codes work once, served sessions are current, quotas hold, what was archived without an error, backup and move are whole |
| `Reports` | *annual*: a year of 2 months, 2 versions of its package, one obligation and one decision. *facility*: 5 years around the reform, 3 profiles. *ads*: 2 dimensions, 3 files, 3 reports. *observations*: 2 keys, 3 files, 4 rows. *prices*: 4 days in 2 months, 3 versions. *recaps*: 2 years of 2 months, bundles that vary in pages, printed and counted totals, cells, counts of a column's own, annual totals and their cover. *knowledge*: 2 sources, 3 editions, 2 catalogs, 2 questions, 5 minutes in 3 days, so reviews run out by age and by date | what is approved, filed, told or charged agrees with the records it stands for |
| `OpeningRecast`, `LookAlikeRows`, `MidnightOverage`, `LostEdits` | a part of the instances above; one call | expected violations, see below |

The bounds are small but each interesting case occurs in them. Amounts 1 and 2 against
lines and totals of 2 or 3 give partial, exact and excessive use; two or more claims
compete for a line; days before, in and after a closed month exist and dates are chosen
freely among them; two month ends allow closing out of order. In the AI runs the ceiling
is 2 and a provider reports 3 or nothing; two calls fit a budget of 4 exactly, a third
does not. Two calls suffice for one call's overage to meet another's consent; the third is
there so that two companies and two services can compete for the last place. Two versions
of a proposal are one stale page; three people are the least that can keep creating,
reviewing and approving apart. Two requests are the least that can race, and each race in
`Throttle`, `FinanceForms` and `SourceArchive` is between two.

Beyond the constants the MC modules bound what an instance explores, and name it:
`OneOrder`, `Rivals`, `OnlyReceipts` (`MCReceivables`), `OnlyPayments`, `TwoDays`
(`MCFinance`), `FewEntries`, `FewRecords` (`MCDirector`), `FewChanges`, `FirstFree`,
`OneMishap` (a COMMIT answered with an error, or up to two files that nobody removes),
`TwoUploads`, `OneUpload` (`MCPlatform`), `PackageAfterYear` and at most three prices
(`MCReports`), and an intake that ends on
its third day (`MCBankBook`). `FirstFree` uses names in order, which is sound because names
are alike, and `PackageAfterYear` loses only packages that show an open month, which nobody
can approve later. They are stated on the primed variables, so they cut steps, never states that
have been reached. The full instances of components that a bound narrows (two orders with
every service over two months, for example) are beyond what TLC can finish in minutes.

### Findings

**`OpeningRecast`.** The comment at `finance/services.py:725` says an opening balance
"cannot be inserted after any posting and silently recast old reports". The code only
refuses an opening dated *after* some posting: one dated on or before an existing posting
is accepted and changes the reports of that posting's day and of every later one (within
the open period).

**`LookAlikeRows`.** A statement row without a bank reference is named by its printed time,
description, amount and running balance. A deposit repeated after an equal withdrawal has
all four alike; in a later file it is taken for the first and skipped, though
`docs/FINANCE-ERP-ARCHITECTURE.md:1211` asks that two legitimate identical transfers remain
two. Within one file the second is refused with a message, not lost.

**`MidnightOverage`.** The director counts a reservation in the month it reads first and
finds the counters of an overage through the row's `created_at`. When the month turns
between the two, the overage corrects the next month's counters, or none. Marketing keeps
the keys it reserved. With one reading of the clock (`MidnightInside = FALSE`) the counters
match, by run and by proof.

**`LostEdits`.** A save refused as stale is answered with the user's own input and the
version of the row just read, so sending the form once more replaces what the other user
saved, although the message asks to reload and `docs/MARKETING-MULTIDIMENSION-ARCHITECTURE.md:135`
says old tabs do not overwrite newer changes.

### Observed while modelling

These have no run of their own; the first ones can be read off the models, the others off
the code that the models abstract.

* `docs/DIRECTOR-MODULE-ARCHITECTURE.md:468` asks that after an answer the reservation is
  reconciled with the provider's cost. `validate_completion` raises before the cost is
  read, so an answer with an invalid choice leaves no cost on its reservation, even one
  above the ceiling; marketing has the same order (`RejectAnswer`).
* Who rewrites and submits another's draft budget may approve it: `transition_budget`
  compares the approver with `created_by` only, though `director/forms.py:95` speaks of the
  proposer (`Approvals`).
* The unpaid amount of an agreed lead counts the invoice's whole total also after the order
  was cancelled and nothing is owed (`marketing/analytics.py:199`, `UnpaidWon`).
* A statement whose stored file has changed cannot be repaired by uploading it again, as
  its refusal advises: the known hash returns the old row (`webapp/statement_views.py:97`,
  `StorageChanges`).
* An attempt and a reset can wait for each other's rows (`core/throttle.py:45`, `:56`), though
  the comment says the lock order is fixed; the database rolls one of them back (`Abort`).
* `import_summary` counts the notes and annual totals of a batch in every year it touches
  (`imports/services.py:339`), the dashboard lists them by year, but also tells those on no
  page, or without covered months, in every such year. So the overview's numbers and the
  dashboard's lists agree only where sources keep to a year: `YearsTellTheArchive` says when.
* A channel's `detail_count` stands before its cells and is compared with nothing
  (`director/analytics.py:78`, `ColumnCount`): the partners' counts are those of the cells
  only in years where no column brings one.
* Overlapping statements that are confirmed with the reference column read in one and left
  out in the other record a movement twice (`webapp/statement_import.py:224`). The guide
  warns of it, and nothing refuses it (`ToldUnderOneName`).
* `evidence/services.py:127` says that file and row "must finish together". A `save` that
  raises after the file exists has not been remembered, so the file stays without a row
  (`Fail`; likewise `imports/services.py:295`). A COMMIT that takes place but is answered
  with an error has the files of its rows removed, and the row stays without them
  (`CommitUnheard`).
* The dashboard's bank balance sums bank lines without openings.
* A password changed while somebody else resets it: `webapp/views.py:625-627` saves the
  password and clears `require_password_change` in two statements without a transaction, so
  a reset in between loses its mark, and the form may overwrite the reset's password.
* `sale_create` and `bill_create` have no idempotency key: pressed twice they make two
  drafts with two numbers (`FinanceForms` counts each accepted request once).
* The verification of a recommendation and the creation of its task are two transactions;
  a campaign counts as covered by cost when one day of the period has a report
  (`MarketingAdvice`). The `fact_ids` of a reply are validated and not used (`Briefing`).
* Dead ends: a bill whose withholding was decided for a month in which it can no longer be
  paid (`finance/services.py:912`), a lead linked to a cancelled order
  (`marketing/services.py:234`).
* The canonical CSV of a statement at its row limit can exceed the 2 MB limit of finance,
  so it previews and is refused on confirmation. A statement without a recognized heading
  loses its first line to the heading (`Readings`).
* The first set-up of two companies at once, and the limit of 100 messages of a marketing
  conversation, are checked without a lock.

## The proofs

Eight modules hold 52 theorems and the lemmas they rest on. They are proved from the named
assumptions on the constants (`LedgerAssumption`, `BankAssumption`, `ReceivablesAssumption`,
`PayablesAssumption`, `IntakeAssumption`, `FormsAssumption`, `AIAssumption`,
`ApprovalsAssumption`, `BudgetAssumption`, `CashAssumption`, `AdviceAssumption`,
`BriefingAssumption`, `TeamAssumption`, `SignInAssumption`, `ThrottleAssumption`,
`PriceAssumption`, `FacilityAssumption`, `AnnualAssumption`, `ObservationAssumption`,
`AdAssumption`, `KnowledgeAssumption`, `RecapAssumption`, `FunnelAssumption`,
`ReadingAssumption`): the calendar has a day, days and month ends are naturals, amounts are
positive, what is simulated are naturals and the dashboard tells no fact that planning
tells, files are finite and well formed, names that stand for nothing are no names, no two
digits have one value and one of them is nought, and the like. None bounds the number of
users, calls, documents, lines, days or requests, or the length of a cell or a file.

| theorem | statement |
|---|---|
| `BankTypeCorrect` | `BankSpec => []BankTypeOK` |
| `NoLineIsOverclaimed` | `BankSpec => []NoLineOverclaimed` |
| `SnapshotsAlwaysHold` | `BankSpec => []SnapshotsHold` |
| `HistoryIsFrozen` | `BankSpec => HistoryFrozen` |
| `FinanceTypeCorrect` | `FinanceSpec => [](ReceivablesTypeOK /\ PayablesTypeOK)` |
| `FinanceClaimsWithinLines` | `FinanceSpec => []NoLineOverclaimed` |
| `FinanceSnapshotsHold` | `FinanceSpec => []SnapshotsHold` |
| `FinanceHistoryFrozen` | `FinanceSpec => HistoryFrozen` |
| `BankAlwaysTiesOut` | `FinanceSpec => []BankTiesOut` |
| `SalesAlwaysTieOut` | `FinanceSpec => []SubledgersTieOut` |
| `PurchasesAlwaysTieOut` | `FinanceSpec => []PayablesTieOut` |
| `ResultAlwaysTiesOut` | `FinanceSpec => []ResultTiesOut` |
| `NoPartyEverOverrefunded` | `FinanceSpec => []NoPartyOverrefunded` |
| `ResellersPayBeforeDelivery` | `FinanceSpec => []ResellerPaidByDelivery` |
| `CostAlwaysFollowsService` | `FinanceSpec => []CostFollowsService` |
| `RemittancesAlwaysFollow` | `FinanceSpec => []RemittancesFollowWithholding` |
| `ClosedMonthsAlwaysComplete` | `FinanceSpec => []ClosedMonthsStayComplete` |
| `CohortsStayWithinReceipts` | `FunnelSpec => []CohortsWithinReceipts` |
| `FinanceImplementsGeneralLedger` | `FinanceSpec => ImplementsGeneralLedger` |
| `ToldIsRecordedOnce` | `DeskSpec => []ToldOnceRecordedOnce`, where `MovementsToldApart` |
| `FilesAreAlwaysReadOneWay` | `ReadingSpec => []FilesAreReadOneWay` |
| `AITypeCorrect` | `AISpec => []AITypeOK` |
| `AnswersPassUnderOneConsent` | `AISpec => OneConsentThroughout` |
| `StoppedVersionsStayStopped` | `AISpec => StoppedVersionsAdmitNothing` |
| `CompletedStaysCompleted` | `AISpec => CompletedIsFinal` |
| `ReservationsAreKept` | `AISpec => NothingIsRefunded` |
| `CountersAlwaysMatch` | `AISpec => []CountersMatch`, where `MidnightInside = FALSE` |
| `AdmittedCallsFindTheirMoney` | `AISpec => AdmissionWithinLimits`, where `MidnightInside = FALSE` |
| `ApprovalsPassTwoPeople` | `ApprovalsSpec => []ApprovedByAnother` |
| `StepsAreSignedAsShown` | `ApprovalsSpec => SignedAsShown` |
| `BudgetsAlwaysKept` | `BudgetSpec => []BudgetsKept` |
| `ForecastAlwaysTellsThePlan` | `CashSpec => []ForecastTellsThePlan` |
| `FiguresAlwaysCompare` | `AdviceSpec => []FiguresCompareLikeWithLike` |
| `BriefingsAlwaysTellOneMoment` | `BriefingSpec => []BriefingsTellOneMoment` |
| `BriefingsLeaveBudgets` | `BriefingSpec => BudgetSpec` |
| `OwnersAlwaysRemain` | `TeamSpec => []AnOwnerRemains` |
| `SignInTypeCorrect` | `SignInSpec => []SignInTypeOK` |
| `EveryCodeWorksOnce` | `SignInSpec => []CodesWorkOnce` |
| `SessionsServedAreCurrent` | `SignInSpec => []ServedSessionsAreCurrent` |
| `QuotasAlwaysHold` | `ThrottleSpec => []QuotasHold` |
| `EveryInvoiceFindsOnePrice` | `PriceSpec => []OnePricePerDay` |
| `PricesAlwaysStand` | `PriceSpec => PricesStand` |
| `TheFacilityEndsOnce` | `FacilitySpec => []TheFacilityNeverRestarts` |
| `ApprovedBooksAlwaysStand` | `AnnualSpec => []ApprovedBooksStand` |
| `ReturnsAreFiledAsEvidenced` | `AnnualSpec => FiledAsEvidenced` |
| `ImportsReviveNothing` | `ObservationSpec => []FilesReviveNothing` |
| `SpendIsCountedOnce` | `AdSpec => []SpendCountedOnce` |
| `AnswersAlwaysStandOnReviews` | `KnowledgeSpec => []AnswersStandOnReviews` |
| `YearsAlwaysTellTheArchive` | `RecapSpec => []YearsTellTheArchive` |
| `TheArchiveIsWhole` | `ArchiveSpec => []ArchiveIsWhole` |
| `BackupsRestoreWhole` | `BackupSpec => []RestoredIsWhole` |
| `CopiesAreAlwaysWhole` | `TransferSpec => []CopiesAreWhole` |

**Sums.** `AmountTheorems` proves what the other modules need of `Total`: its type, one
more row, disjoint unions, monotonicity, and the laws by group: if in every group (every
order, every advance, every bill) one table's sum is within another's, so it is over all of
them; what is summed under one index equals what is summed under another that tells the
same rows apart (`TotalOfIndexed`), and a sum is the sum of its groups' sums
(`TotalOfGroups`). The library's induction theorems take an operator and cannot be used, so
what would go by induction goes by a least counterexample (`LeastNat`, from
well-foundedness).

**Bank book.** What a service does to the ledger is a *ledger step*: it adds finitely many
well formed lines on open days, or closes a month with its balances, or neither; from that
alone follow the types, that no line up to a closed day changes (`FrozenLinesStep`), and
that recorded balances stay true (`SnapshotsHoldStep`). A *claim step* adds at most one
claim per line, at most its remainder. Every action of `BankNext` is both. The inductive
invariant `BankInv` is `BankTypeOK` with two additions: claims and journal lines are finite
sets, without which a sum means nothing, and every claim is on an imported line, without
which a newly imported line could be overclaimed at birth. `SnapshotsHold` is inductive
only because a posting needs a day that *no* closed month covers; with a month freezing its
own days alone (`FrozenOwnMonth`) the step fails, and TLC shows how.

**Finance.** All theorems are about `FinanceSpec`, in which sales, purchases and bank
services compete for the same lines; the runs of `Receivables` and `BankBook` check the
same properties on larger instances of a part. `FinanceInv` is the conjunction of

* what the rows are: one row per identity, in step with its status (`InvoicesOK`,
  `DeliveriesOK`, `CancellationsOK`, `ApplicationsOK`, `BillsOK`);
* what each claim is for and that it is not dated before it (`ClaimsOK`): a refund after
  its advance or cancellation, a payment after its bill, a remittance after its
  withholding, the two legs of a transfer in order;
* that every journal key belongs to a row (`KeysOK`), so no service finds its key posted by
  another one and silently posts nothing;
* the twelve equations of the accounts on every day (`TiesOK`). They must hold together and
  for every day: `Balance` of a day changes under every posting dated before it;
* that no document is used beyond its amount (`SalesLimitsOK`, `PurchaseLimitsOK`), and that
  what a cancellation found paid stays so.

Each service is a lemma (`ReceiptKeeps`, `DeliveryKeeps`, `WithheldKeeps`, ...), on top of
a few about how sums move: `PostingShifts`, `ClaimAdded`, `SameSums`.

`HistoryInv` adds what the services' dates promise: resellers had paid by the delivery,
openings come before lines, cost journals are those of bills and releases, no month closes
before its end, and closed months stay complete. A second case analysis
(`FinanceStepShape`) says once what a step may do to the rows, and these follow from it.

That accounts *keep their sign* on every day is not inductive, and is derived: on each day,
order by order, what was settled is within what was invoiced, since everything that settles
an order is dated after its invoice and limited by it; then `TablesByGroup` adds up
(`SettledFromInvoiced`, `EarnedFromInvoiced`, `UsedFromAdvances`,
`RefundedFromRefundable`, `PaidForWhatIsOwed`, `RemittedFromWithheld`,
`ReleasedFromBilled`). `NoPartyOverrefunded` is the same argument by party, through
advances that were applied to orders which were cancelled.

**Refinement.** `ReportsInv` adds that the trial balance of every day balances. This is not
proved from journals, but from the twelve equations: their right-hand sides cancel
(`BalancesAddUp`), and the sum over accounts is taken account by account (`ColumnsDiffer`).
A step on an open day is then `RecordEvent`, since balances up to `FrozenUpto` stay; a
close is `Freeze`; all others stutter.

**The desk.** `BooksInv` says that the bank lines of an account are exactly one for each
telling, that is, each movement with a name it was told under: a confirmed file adds the
rows of its stretch, and finds those that an earlier file told under the same names. If a
name, of either kind, belongs to one movement (`TellingsApart`), the lines with given facts
are as many as the tellings, and as many as the movements where users keep to one way of
naming (`ImageCounts`). `LookAlikeRows` is what happens when movements share a name, so
`MovementsToldApart` is a hypothesis of the theorem and not an assumption of the module.
`MatchInv`: a page is drawn once, and what is recorded under it satisfies what the page asks
for, so a form that arrives again is never told that it is wrong (`RecordedIsValid`).
`NumberInv`: a number in hand is the next of its series, and nobody else holds one of that
series. `AttachInv`: one transaction is open at a time, for a user who may still write and a
document that is not there yet.

**Paid calls.** The consent theorems rest on `AIInv`: types, and "the past is for ever"
(`PastIsForEver`): once a call's policy was changed or disabled while the call was under
way, the version the call carries is past, that is, older than the policy's or the policy's
own but disabled; and versions only grow and are never enabled again without growing.
Without the comparison of versions (`ConsentOfAnyVersion`) consent can be withdrawn and
restored under the call. The counters rest on `BudgetInv`: in addition a cost is recorded
only on a call that is through with the network (`CostsOK`), so an overage counts its
difference once, and the row's month is the month counted (`StampsOK`), so it counts it in
the right place. From it the guards of `Reserve` are guards on the sums of the calls
(`ReserveWithinLimits`).

**Director.** `ApprovalsInv` holds the types (`PagesOK`) and that a detail page is never
newer than the row and shows the row's content if it is as new (`Shown`); from it the
version check is enough for `SignedAsShown`. `ApprovedByAnother` is inductive once the steps
of the workflow are enumerated (`StepsKnown`): only "approve" leads to an approved status,
and no review follows one, so the reviewer compared is the reviewer that stays.
`BudgetInv` has `ChainsKept`, of which "at most one entry of a chain is live" needs that a
replacement voids exactly the entry it replaces; that the recursive function `First` exists
and is unique is itself part of the invariant (`FirstOK`), one entry at a time. The cash
plan's running balance `Closing` equals a closed form (`ClosingIsPlan`) by least
counterexample.

**Questions.** What happens to budgets beside the director's questions is a behaviour of
`BudgetSpec` (`BriefingsLeaveBudgets`, step by step), so `BudgetInv` holds there too. Read
under one lock, the budgets of a year then authorize at least what they consumed together,
by the law of sums by group (`BudgetsTold`), and a simulation is told as its inputs give it
today, because its results were compared (`ScenarioTold`). `BriefingInv` carries what was
read (`Told`) through the steps of everybody else until it is answered: simulations and
messages are only added (`Grown`), and a question under way is among the messages. An
answer says what its cards allow because either everything that can be said of them is said
(`SaysItAll`) or the reply was held against it (`ReplyChecked`). That results break even
where they say is arithmetic of rounding, for every input (`CalculationsHold`,
`CeilingIsLeast`, `VolumesRounded`).

**Accounts.** `AnOwnerRemains` is inductive with `MembersFirst`: a request is under way only
once the company is set up. The role that counts for a change of access is the one read
under the lock, never the copy of the request. `CodesInv` says which codes are still
unspent: those of secrets not yet made, of later periods than the last accepted, and the
recovery codes still stored. `SessionsInv` compares each session with the present password,
version and number of resets; a request already let in needs the weaker form, because it
may set either. The throttle's `Locked` says that who has written a key holds its lock and
what it wrote follows the committed row by one attempt, or begins a window at least
`Seconds` later; from it the windows committed keep `WindowOK`.

**Prices, tax, figures.** `NoOverlap`, over the versions of one scope, is what saving and
replacing keep (`CleanJoins`, `ReplacementRows`). `FacilityInv`: once a profile is reviewed
the registration stands, and a profile for the final tax has the three years that
begin with it. `AnnualInv`: the
figures of a workpaper are those of its own snapshots (`PaperHolds`), and the year of an
approved one is closed, so its books stand (`ApprovalHolds`). `ObservationInv`: of a key at
most one row is active and every later row was made by hand, so a file finds its key taken.
`AdInv`: no two reports of a place overlap, and what an accepted file speaks of is
reported (`FirstOfItsKind`: the first row of its kind in the file was not refused).

**Leads and marketing figures.** `FunnelInv` reads orders and receipts as leads see them: a
receipt is of an order that exists and not dated before it (`ReceiptsHold`), and an order has
at most one lead, not younger than it (`LeadsHold`). So a cohort's cash is counted by order
as well as by lead, within the period's receipts. `AdviceInv` says that a lead has the
channel of its campaign, that no two leads share an order, and that what the page has
verified of open work was of its day; rows then share out cash because the row of an order
is a function of its one lead, and the period before ends before today.

**Readings.** The invariant is only that a cell is a text of its symbols; the work is in what
the readers make of any text. Each is defined by recursion along it. `RecursionDefines`
proves that such a recursion defines a function, by the least place at which none would, and
every fact about its values is shown the same way: take the least place at which it fails;
it held one place before, and the step carries it over. So
`AmountReadOnce` needs none of it: what stands behind the place where an amount is cut into
whole and hundredths has digits only, so it is cut at one place, whichever mark cuts it
(`CutOnce`), and a text that is grouped is nowhere cut (`GroupedUncut`). A number that is read
is one that can be written (`NumberIsSpelled`: the first place read is, and the next is ten
times a number and a digit), and what is written of it is read back (`WrittenIsRead`), so the
preview's canonical row is booked with its value (`PreviewBooks`). The rows taken at a line of
a file are as many as the lines so far that are not blank (`FilledCounted`), and a stricter
reader answers with the same rows or with none (`FileReadWhole`).

**Answers and years.** `KnowledgeInv`: a source that was ever published has its last
reviewed edition as head (`HeadHolds`), and an answer under way carries what was in force
when it read; publishing between reading and answering changes neither. What is read, and so
what is cited, is of the question's topic (`OnTopic`). Its counters are compared by the sums
of one day for users, companies and minutes, which every admitted question raises by one
(`CountsInv`). `RecapInv`: what is archived was valid, no source and no month twice, and its
bills are in the books. A year's figures are then sums of its pages, and the partners'
counts those of their columns, each by the laws of groups. Where no column brings a count of
its own, columns and pages have the same cells, since the cells of a page lie under its own
columns. Annual totals are listed in every year of their source where nothing it covers lies
outside, so there the two sums have the same terms.

**Archive.** `ArchInv` says that one transaction at a time is open, for something not yet
archived (`Lock`), whose every file is: of a row archived without an error, of an attempt
under way, or of one that died or whose save broke off (`Accounted`), never of two of them
(`Apart`), that a file being saved is not remembered yet (`Saving`), and that rows have all
their files and share neither these nor a month (`Rows`). `CopyInv` follows the rows of one
moment and the files of a later one through dump, copy and restore; `CutoverInv` the rows
and the schema through the move.

**Only model-checked.** `EveryCallEnds`: liveness under fairness is out of the prover's
reach, as is `ENABLED`. Every other invariant and action property that a run checks and
finds to hold is also a theorem. The type invariants that the table does not name document
their variables and were evaluated with TLC.

## Not modelled

* Process start-up, settings, deployment files, schema migrations, templates, lists,
  navigation, PDF and CSV layout: no behaviour over time.
* `calculate_tax` and `calculate_annual`: arithmetic of rates on decimals, without state.
* The request quota of the director's questions (`_reserve_rate`) and of marketing's: the
  same counters as those of the tax chat, which `TaxKnowledge` has.
* Goals and touchpoints of marketing: versioned records as in `Approvals`, without the
  workflow. Purchase packages of the director: documents with a status and no other rule.
* The demo account and `MFA_REQUIRED`: settings that change who may sign in, not how.
* The external review of a professional, beyond the approval it allows, and the catalogue
  of rule sets.
* The audit log: a row in each transaction, read by the list of events only.

## Plan

The models above are complete for what the code does over time, apart from the list just
given, and the properties of the runs are proved as far as the provers reach. What is left
are results of their own: what components promise each other, as
`FinanceImplementsGeneralLedger` has it for the ledger.
