# Verification of the Pioneer backend

TLA+ models of the Pioneer backend (Express, TypeScript and PostgreSQL), the TLC
configurations that check them on small instances, and TLAPS proofs about them
for instances of any size. Paths below are relative to the repository; `tla/` is
this directory.

    tlc -config MCJournalEntries.cfg MCLedger.tla     # a run
    tlapm LedgerProofs.tla                            # a module of proofs

## The system

One or more Node processes serve HTTP requests; jobs (`process-notifications`,
`cleanup-sessions`, `migrate`) run beside them. They share nothing but one
PostgreSQL database, so everything that is hard about the system happens there:
requests are handled concurrently, a handler is a sequence of statements, and the
pool's default isolation is READ COMMITTED. A statement, with the triggers it
fires, is atomic; between two statements of a handler anything may happen, unless
the handler holds a row lock. Three shapes of handler recur:

* **read, check, write by id** - the status is read and checked by one statement,
  and a later one updates the row by its id alone (`updateJournal`, `postJournal`,
  `updateExpense`, `updateTransfer`, `manageNotification`, ...);
* **read, check, write with the condition repeated** (`voidBookkeepingTransaction`,
  `completeReconciliation`, the inserts with `ON CONFLICT DO NOTHING`);
* **lock, check, write, commit** with `FOR UPDATE` (`postExpenseAtomic`,
  `postTransfer`, `clockIn`, `claimBatch`).

The models make the statements of a handler separate steps exactly where another
request can come between them, and merge them where a lock or the transaction
prevents that from being seen.

### Inventory

| Component | State | Operations | What is hard | What makes it correct |
|---|---|---|---|---|
| Journal entries | `journal_entries`, `journal_lines` | create, edit, post, void, reverse | edits and postings by id after a stale read; reversals that copy lines early; triggers that look at the status | posted entries balance, do not change, are undone only by a mirror |
| Accounting periods | `accounting_periods` | create, move, close, lock, reopen | a close overtakes a posting whose trigger ran; overlap checked apart from the insertion | what a closed period holds does not change; periods do not overlap |
| Expenses, revenue, transfers | `expenses`, `revenue_records`, `bookkeeping_transfers` | create, edit, void, post, reverse | edits that write back a stale status; two-part reversal | a posted record has one entry and agrees with it |
| Idempotency keys | `bookkeeping_idempotency_keys` | any operation under a key, cleanup | retries racing the first request, expiry, failure after the commit, crash | one executor, the answer is of one's own request, a stored answer stands |
| Reconciliation | `reconciliation_sessions`, `reconciliation_items` | create, add, remove, complete, reopen, void | completion computed from lines that change | a completed session balances, a line is reconciled once |
| Recurring transactions | `recurring_bookkeeping_templates`, `_runs` | edit, generate, generate due | failure between reservation, generation and advance | an occurrence is generated once, none is skipped |
| Intercompany | `intercompany_transactions` | create, post, reconcile | two books in one transaction | both entries or none; settled only while both are posted |
| Chart of accounts | `ledger_accounts` | create, move, deactivate, opening balances | hierarchy, accounts in use | no cycle, opening balances offset |
| Attachments | `bookkeeping_attachments`, object store | intent, complete, archive | two stores | a complete attachment has its object |
| Notification outbox | `notification_outbox` | claim, send, mark, fall back, retry, cancel | overlapping jobs, crashes, unknown outcome of a send, administrators in between | one holder, attempts counted, sent means accepted |
| Employee time | `employee_time_entries`, `employee_time_events` | clock in and out, breaks, close, correct, add, review | check for overlap against concurrent inserts, lock order, rounding | entries do not overlap, breaks fit, approvals cover what was reviewed |
| Employee scheduling, routes | `employee_shifts`, `employee_shift_offers`, `field_routes` | offer, accept, decline, assign | places taken concurrently | no more acceptances than places |
| Leave | `employee_leave_policy`, `employee_leave_ledger`, `employee_pto_requests`, `employee_pto_usage` | accrue, request, decide, pay out | requests compete for one balance; corrections take earned leave back; registers pay it out | leave is spent from what is left, and paid as granted |
| Payroll registers | `payroll_runs`, `payroll_run_lines`, `payroll_run_pto_lines`, `payroll_run_leave_payout_lines`, `payroll_hourly_rates` | prepare, approve, post, void, set a rate | a snapshot of time, rates and leave, each locked differently, that must still be true when it is posted | what is posted is what was worked and granted, once |
| Payroll settlement | native and tax calculations, `payroll_tax_opening_wages`, `payroll_payments`, provider batches, `payroll_adjustments` | adjust, calculate, verify prior wages, withhold, pay, reverse, export, import | calculations made from what may still change; two ways to pay one register; a register voided under its payments; year-to-date amounts | a register is settled one way, once, from what was approved; years to date add up |
| Filing packets and statements | packets, external filing records | prepare, review, file, record, download | a return is handed out long after it was prepared, while checks are paid and reversed | a return has all checks of its quarter, and taxes a person's wages once |
| Payroll arithmetic | none | allocation, overtime, caps and thresholds | rounding of cents | parts add up to the whole |
| Service requests, bookings | `customer_service_requests`, `customer_bookings`, `schedule_entries`, `work_orders` | book, ask, decide, schedule, cancel | three tables kept in step by triggers, in both directions | request and job agree, a window is not filled twice, the customer is told |
| Work orders, crews, reports | `work_orders`, `field_routes`, `field_job_reports`, photos | plan a route, report, review, upload | reviews at once, edits of the office by id, uploads that outlast their report | a job is complete when its crew is; what is submitted stands |
| Users, roles | `users`, `user_role_assignments` | create, disable, assign, remove | the last administrator is counted before the change; five queries decide who sees what | an administrator remains; the queries agree |
| Sessions, passwords | `user_sessions`, `password_reset_tokens` | log in and out, change, reset, invite | sessions and tokens created while a password changes | an old password opens nothing |
| Customer accounts, consent | `customers`, `customer_portal_sessions`, `inbound_sms_events` | register, edit, text STOP and START | the provider repeats its webhook; profiles written from what was read before | texts go to who has consented |
| Customer addresses | `customer_addresses` | add, edit, make primary, archive | the office edits from what it has read | one primary address of a type |
| Rate limiting | `rate_limit_counters` | increment, decrement | windows shared by processes; a success is counted off later | a window admits no more failures than its limit |
| Invoices, payments | `invoices`, `payments`, `accounting_events` | record, edit, refund, post | a sum read before the lock; status derived; events posted from stale reads | what is stored as paid was paid |
| Sites, forms, files, integrations, audit, reports, mileage | rows written whole | single-statement edits, queries | little | - |

Interactions: records post journal entries in the same transaction
(`atomic-ledger-posting.service.ts`) and are reversed through the service for
journal entries; periods guard journal entries and records by triggers; most
bookkeeping routes run inside `runIdempotent`; triggers on service requests and
jobs insert into the outbox; payroll reads approved time entries and posts journal
entries.

## The modules

| Module | Models | Depends on |
|---|---|---|
| `AppendOnlyBook` | abstract: a book to which balanced entries are added and in which none changes | |
| `JournalEntries` | `admin-bookkeeping.service.ts`, periods and triggers | instantiates `AppendOnlyBook` |
| `LedgerRecords` | `transaction.service.ts`, `admin-ledger-record.service.ts`, `atomic-ledger-posting.service.ts` | instantiates `JournalEntries` |
| `Idempotency` | `idempotency.service.ts` | |
| `NotificationOutbox` | `notification-delivery.service.ts`, `process-notifications.ts`, `admin-notification.service.ts` | |
| `EmployeeTime` | `employee-time.service.ts` | |
| `PayrollRegisters` | abstract: registers cover each week once until they are void | |
| `PayrollRuns` | `payroll.service.ts`, `payroll-pto.service.ts`, `payroll-separation.service.ts`, `employee-leave.service.ts`, `employee-pto.service.ts` and triggers | instantiates `PayrollRegisters` |
| `PayrollSettlement` | `payroll-adjustments.service.ts`, `payroll-native.service.ts`, `payroll-tax.service.ts`, `payroll-payments.service.ts`, `payroll-provider.service.ts` | instantiates `PayrollRegisters` |
| `PayrollFilings` | `payroll-filing.service.ts`, `payroll-filing-math.ts`, `payroll-tax-math.ts` and the payments a return is made of | |
| `FieldWork` | routes, crews, reports and reviews (`employee-field.service.ts`, `employee-routes.service.ts`, `admin-work-order.service.ts`) | |
| `FieldPhotos` | `employee-photos.service.ts`: the photos of reports and the two stores they go to | |
| `ShiftOffers` | the shifts with their places of `employee-scheduling.service.ts` | |
| `Availability` | the weekly availability of `employee-scheduling.service.ts` | |
| `ServiceRequests` | `customer-service-requests.service.ts`, `customer-availability.service.ts`, `admin-customer-portal.service.ts`, bookings, schedule entries and jobs, with the triggers of the migrations 032, 034 and 037 | |
| `AdminUsers` | `admin-user.service.ts`, `authorization.service.ts`, `admin-access.service.ts`, `bootstrap-admin.ts` | |
| `Credentials` | `auth.service.ts`, `session.service.ts`, `password-management.service.ts`, `admin-employee-account.service.ts` | |
| `CustomerAccounts` | `customer-auth.service.ts`, `customer-profile.service.ts`, `textbee-webhook.routes.ts`, the office's edits of a customer | |
| `CustomerAddresses` | `customer-address.service.ts` of the office and the addresses of `customer-portal.service.ts` | |
| `RateLimits` | `postgres-rate-limit-store.ts`, as the login uses it | |
| `Reconciliations` | `reconciliation.service.ts` and the completion in `legacy-workflow.service.ts` | |
| `RecurringTransactions` | `recurring.service.ts` | |
| `IntercompanyTransactions` | `intercompany-completion.service.ts`, `admin-intercompany.service.ts` | |
| `OpeningBalances` | `setAccountOpeningBalance` of `accounts.service.ts` | |
| `AccountTree` | the parents of accounts in `accounts.service.ts` | |
| `AccountingPeriods` | `accounting-period.service.ts` and the trigger against overlaps of the migration 010 | |
| `InvoicePayments` | `admin-payment.service.ts`, the edits of `admin-invoice.service.ts`, accounting events with the posting and reversal of entries in `admin-bookkeeping.service.ts` | |
| `Attachments` | `attachment.service.ts`, `updateFile` of `admin-file.service.ts` | |
| `MCPortals` | `ShiftOffers`, `FieldWork`, `FieldPhotos`, `Availability`, `ServiceRequests` in one instance | extends the first, instantiates the others |
| `MCAccounts` | `AdminUsers`, `Credentials`, `CustomerAccounts`, `CustomerAddresses`, `RateLimits` | the same |
| `MCBooks` | `Reconciliations` and the other modules kept beside the journal | the same |
| `MCPayrollSettlement` | `PayrollSettlement` and `PayrollFilings` | the same |
| `MCLedger` | `JournalEntries`, `LedgerRecords`, `Idempotency` | the same |
| `MCPayrollRuns` | `PayrollRuns` and `EmployeeTime` | the same |
| `MCNotificationOutbox` | an instance of `NotificationOutbox` for TLC | extends it |
| `LedgerProofs`, `PayrollRunsProofs`, `PayrollSettlementProofs`, `PortalsProofs`, `AccountsProofs`, `BooksProofs`, `NotificationOutboxProofs` | proofs about all modules that the `MC` module of that name composes | extend that module (the last one `NotificationOutbox`) and `TLAPS` |
| `Sums` | lemmas about sums over finite sets | |

Every `MC` module but `MCNotificationOutbox` holds several components
that write no table in common, so a state is one of one component: the variable `part`
is chosen at the start and only that component takes steps. Where components do meet -
records and the journal, registers and settlement, requests, jobs and schedule, payments
and events - they are in one module or composed by an instance. In `MCLedger` and
`MCPayrollRuns` each run names the part it is about (`Parts`) and leaves the constants of
the others empty.

In every module, some definitions are preceded by a variant whose name extends
theirs (`VoidJournalUnguarded` before `VoidJournal`). No specification uses a
variant. It is the definition with a plausible bug, and substituting it makes the
property it belongs to fail; `PROJECT.json` pairs them. This shows for each
property that it says something about the code.

Many properties hold *unless* something happened that the code does not exclude: two
requests overlapped, an administrator edited a row by its id. Such an exception is a
history variable or a field of the state (`raced`, `overlapped`, `stale`, `crossed`,
`disturbed`, `alone`), no condition of the code reads it, and each is a race the code
really has. Without the exception TLC finds the race.

### JournalEntries

`journals` is the table by entry number, `period` the status of each accounting
period, `request` what each concurrent request has read. Dates are represented by
the period they fall in, amounts by collections of lines that balance or do not.
`UpdateRead`/`UpdateWrite` and `PostRead`/`PostWrite` are the two statements of an
edit and of a posting; `ReverseRead`, `ReverseInsert` and `ReverseCommit` the
steps of a reversal, between which a period may be closed. `PostingAllowed`,
`MoveAllowed` and `LinesAllowed` are the triggers of the migrations 009, 010 and
012. `PostAtomically` is the insertion of a posted entry by the transaction that
posts a record.

Requests interleave freely, and the checks of the services are nearly all on stale
data, so the properties ask what the triggers save:

* `PostedEntriesBalance`, `ReversalsMirror`: the book balances, and a reversal mirrors
  the entry it names although its lines were copied before its transaction.
* `ImplementsBook`: no entry leaves the book and no posted line changes; the entries
  refine `AppendOnlyBook` with the map `Entered`.
* `RequestsHold`, proved: why that is so - what a request read is still good enough
  when it writes.

What the documentation says is not always true of the code. `ClosedPeriodsFrozen`,
`OnlyDraftsPosted` and `PostedPeriodFixed` state such claims; they are refuted by a
closed period that changes, a void entry that is posted and a posted entry that changes
its date.

### LedgerRecords

Adds the records, their row locks and the source of each entry. An expense stands
for revenue records too, which have the same life; transfers are edited, voided and
marked differently. `PostBegin`/`PostCommit` are the transaction that locks the
record and posts it; `MarkReversed` is the separate statement after the reversal of
a transfer.

`RecordsInBook` says what holds: a record that says it is posted has an entry, an
expense with the content it has now; a transfer is posted once; and it says it is
reversed only after its entry is. Three documented statements are refuted: `PostedOnce`
(a posted expense can be posted again), `PostedNotVoided` (a stale edit voids it) and
`PostedTransferAgrees` (a posted transfer is edited).

### Idempotency

One key. Requests with several bodies insert the row, look it up, execute, fail
before or after the commit of the operation, store the response, release the row
or crash; the row expires and is deleted by the next request or the cleanup job.

* `OneExecutor` and `ResponseStands` hold through expiry and failures; `KeyNotStuck`
  says that a key cut short by a crash comes free.
* `PerformedOnce` is refuted: an operation that throws after it has committed is
  performed again by the retry, unlike the documentation says.

An execution is assumed to take less than the 24 hours after which a row expires.

### NotificationOutbox

Rows, overlapping runs of the job with the batch that each has claimed and the
message it has handed over, and administrators whose write follows their read. A
send is accepted, refused, or accepted and reported as failed. `available_at` is
the Boolean `due`, which becomes true again at any time.

* `DeliveriesAccounted`: attempts count every delivery, crashes included; what is sent
  was accepted; and a notification outside `Managed`, those with which administrators
  interfere, is held by one run at most and marked as processing while it is.
* `SendingStands`: what is sent is not sent again, and a text becomes an email only
  after its own channel has failed often enough.
* `BatchWorkedOff` is liveness: a run outside `Mortal`, the ones that may stop,
  settles its batch.
* `SentIsFinal` is refuted: a stale cancellation overwrites `sent`.

A crashed run leaves rows `processing`, which no claim takes up. No statement of the
repository says otherwise; it is among the hazards.

### EmployeeTime

The entries of one employee in units of half a second, the row locks of the
employee and of each entry, and what each transaction waits for. A transaction is
its lock steps and a last step that checks, writes and commits. Reviews lock the
entry and take the share lock of their event's foreign key at the end. `now()` in
`startBreak` is the time of the `BEGIN`, kept as `began`.

* `TimesFit`: entries share no more time than an entry may lie ahead, and breaks fit
  into their entry although they are rounded one by one. `NoOverlap` is refuted: a
  manager may add an entry that starts in a few minutes, and an employee who clocks in
  before runs into it.
* `ApprovedAsReviewed`: an approval covers what was reviewed.
* `NoDeadlock` is refuted: a review and a correction of one entry may wait for each
  other, until PostgreSQL aborts one of them. `TransactionsEnd` states that every
  transaction ends then; no run lists it, as it says more of PostgreSQL than of this code.

### PayrollRuns

One unit, one employee, who may also work in another unit of the entity. `entry`,
`credit`, `rate`, `employee` and `request` are what a register is made from; `run`
holds the registers with their lines and `job` the preparation under way, which has
the unit and the entries of its period locked, and the employee too while it pays
out leave. It is split where something it has read can still change: `PrepareTime`
reads hours and rates, `PrepareLeave` leave and separation, `PrepareWrite` inserts.
Every other transaction is one step, taken when its last lock is granted: those that
lock the unit wait for the preparation, and setting a rate excludes the writing of
lines, as the foreign key of a line takes a lock on the employee.

* `PeriodsDisjoint`: the lock of the unit orders preparations; no week is paid twice.
* `TermsStand`: a register pays the rates in effect from its approval on - nothing
  protects the rates during a preparation, so a draft can be stale, but
  `verifySnapshot` keeps it from being approved - and has all the approved leave of its
  weeks from the draft on.
* `WorkAccounted`: the locks on the entries are followed by the protection of their
  trigger without a gap; leave earned and used follows corrections and revocations; the
  journal has the wages of each posted register once.
* `ImplementsRegisters`: seen from outside, a register is what `PayrollRegisters` says,
  although the check of its period and its insertion are three steps apart.

`leave_not_overdrawn` is the exception: `funds` does not subtract what a register has
paid out, so that a person who comes back is granted the same leave again.

Time is counted in weeks, an employment ends at the end of one, and a request asks
for one hour a week. Not modelled: the wait after the hire date, days of notice
within a week, multipliers of overtime other than 1.5, rounding to cents, and the
choice of accounts.

### PayrollRegisters and PayrollSettlement

`PayrollRegisters` is what settlement needs to know of a register: its status and
period, and that no week is covered twice while neither register is void.
`PayrollRuns` implements it; `PayrollSettlement` takes the preparation, approval,
posting and voiding of registers from it.

`adjustment`, `native`, `tax`, `opening`, `payments` and `provider` are the tables of
that name; of calculations there is the one that is not void, which is the only one the
code looks at. Every operation locks the unit, except those on native calculations,
which lock the register and of which the others read only what does not change any
more. So each operation is one step. Rows of verified prior wages and payments are
ordered by creation, which is the order of the locks, as their time is
`clock_timestamp()`.

* `SettledOneWay`: payments and provider batches exclude each other, whichever is first.
* `StatementsStand`: what was paid stays traceable to calculations that cannot change
  under the payment, while adjustments are posted and reversed at any time; years to
  date add up although payments are reversed, the prior wages cover them, and
  withholding counts from the last verified.
* `AdjustmentsCount`: an adjustment is in one register, and in the books once, until its
  one reversal.

`week_paid_once` is the exception: an approved register may be paid and then voided,
which frees its week for another register that is paid too, although the reversal that
the repository asks for in that case has not happened.

Settlement is for one employee and one year. Priors are compared without the caps on
the wage bases. Retro pay stands for bonuses. Not modelled: the amounts withheld,
elections and deductions, which change amounts only; reimbursements; the repetition of
a payment under its request key.

### PayrollFilings

The quarterly return: `check` is a tax calculation with its one employee, `paid` the
payments by creation, `packet` the evidence a packet was prepared from. Amounts are in
cents, and `Tax`, `SsWithheld`, `MedicareWithheld`, `AdditionalWithheld` and `Liability`
round as the code does. `ReturnsStand` says that a return that is handed out, however
long after its preparation, has all checks of its quarter, each paid and none reversed,
that it taxes a person's wages once up to the base and beyond the threshold, and that
what is owed agrees with what was withheld to a cent or so a payment, although
withholding and return find the wages beyond the threshold by different formulas. A
return becomes stale when payments are recorded or reversed after its download; only
`filingDetail` shows it.

### The portals

* `FieldWork`: an approval looks at the other reports, which it does not lock, and
  commits later. `CrewInStep`: a job is complete when every expected report is approved,
  unless the office touched the job meanwhile or two reviews overlapped, and whoever is
  on a route was told.
* `FieldPhotos`: an intent, then bytes in the database or an object in the store, as
  configured when they come. `SubmittedStands`: no photo joins a report once it is
  submitted. `confirmPhoto` is one step, as its one statement rechecks the report; that
  an object of the right size is in the store when asked is taken on trust.
* `ShiftOffers`: an answer locks the shift, counts and commits. `ShiftsFit`: no more
  acceptances than places and none after closing.
* `Availability`: a save deletes and inserts without a lock. `SavedIsThere`: what was
  saved is there, all of it, unless two saves overlapped, which may leave both.
* `ServiceRequests`: windows, bookings, requests, their jobs and schedule entries, with
  the triggers that write job from request and request from job. `InStep`: they agree
  after every step and close together; `PlacesAreFound`: what takes a place in a window
  found one free, though bookings and requests are counted apart; `DateIsTold`: the
  customer is told when the request gets its date, whichever side moves first - the
  notice depends on the order of the triggers' names.

### The accounts

* `AdminUsers`: assignments on the platform, an entity or a unit, and what they allow.
  The removal of the last administrator is guarded by a count before the statement.
  `AdminRemains` (unless two removals each counted the other), `ListsAgree`: five
  queries written differently agree on who sees what.
* `Credentials`: sessions and mailed tokens of one user, whose password is checked
  before the transaction. `OldPasswordsEnd`: what stands on an old password opens
  nothing, unless its check came before the change and its insertion after; at most one
  token is live. The same for customers (`CustomerAccounts`).
* `CustomerAccounts`: registration, profile, edits of the office, and text messages that
  the gateway may repeat. `Consented`: who prefers texts has consented or has said STOP
  since, and the last word counts. A customer whom the office enters, or converts from a
  contact, prefers texts without consent, because the column's default says so (027:2)
  and neither function sets it; such a customer has no account and was never asked, and
  that is the exception `TextHasConsent` states. The triggers that send notifications
  look at the consent besides the preference (037). Two customers who share a number are
  left out.
* `CustomerAddresses`: `PrimaryKept`, an edit that does not ask for it leaves the
  primary address in place, though the office edits from what it has read.
* `RateLimits`: `FailuresBounded`, a window admits its limit of failures, and one more
  for each success of an earlier window that is counted off in it.

### The books beside the journal

* `Reconciliations`: `CompletedStands`, a completed session has the difference of its
  cleared lines, unless another request on it was under way. A void session keeps its
  lines for ever; no trigger guards the deletion of an item.
* `RecurringTransactions`: `MadeOnce`, a date has one transaction and one more for each
  generation given up, and the next date of a template is not one that is done. A
  generation that stops between its record and the advance leaves the template stuck,
  and the advance writes a row read before, which undoes a disabling in between.
* `IntercompanyTransactions`: `PairAgrees`, one pair of entries of the right amount,
  unless a request wrote over a change. The older route posts without checking again,
  and edits and reconciliation write by id alone.
* `OpeningBalances`: `LedgerAgrees`, the ledger has what the row says, although its
  entry may be reversed by hand.
* `AccountTree` and `AccountingPeriods`: `StructureStands`, no account is below itself,
  unless moves overlap (an update writes the parent it read), and no day is in two
  periods, unless two statements ran at once: a trigger sees only what was committed, and
  the check of the service is older still. That a day has one period is what
  `JournalEntries` takes for granted. `OnlyOpenEdited` is refuted: a period closed while
  an edit of it is under way is moved all the same.
* `InvoicePayments`: `PaymentsAgree`, what is stored as paid is the sum of the payments,
  unless one changed between sum and write, and an event that is posted names an entry of
  its own payment that is in the book, posted or reversed: `reverseJournal` leaves the
  event of the entry it reverses posted, and `postAccountingEvent` refuses it from then
  on. Drafts, made by hand for any source or left by a request that stopped, may be posted
  by another. Those without a source may be voided as well, which is left to
  `JournalEntries`, since no event names them. Two creations at once may wait for each
  other; `postAccountingEvent` may post two
  entries for one event and marks an ignored event posted; `postJournal` tries to mark
  all pending events of a unit, which the trigger on the entry's source prevents; an edit
  of the tax of a paid invoice does not recalculate its status.
* `Attachments`: `FileIsThere`, a file marked or answered as complete has its content. A
  completion in the database may be answered as a success though the mark is missing,
  and an archiving that was interrupted is never finished by a retry. `updateFile` of the
  office, which knows nothing of attachments, writes back the status and the metadata it
  has read: it may take the mark of an upload away, which only loses the mark, and may
  make the file of an archived attachment active, which `FileIsThere` lets it. Metadata
  given by the office that replaces the mark and the kind of storage is not modelled.

## Runs and bounds

| Run | Checks | Instance | Why it is enough |
|---|---|---|---|
| `journal_entries` | `PostedEntriesBalance`, `ReversalsMirror`, `ImplementsBook` | 2 requests, 3 entries, 2 periods | an entry, two rival reversals or an entry posted and edited at once; a period to move from and one to move to |
| `ledger_records` | `RecordsInBook` | 2 requests, 3 entries, an expense, a transfer, 1 period | each race is one of two requests on one record; a posting, its reversal and a second posting need three entries |
| `idempotency` | `OneExecutor`, `ResponseStands`, `KeyNotStuck` | 3 requests, 2 bodies, 2 executions of each | one executes, one retries, a third inserts the row anew |
| `outbox` | `DeliveriesAccounted`, `SendingStands`, `BatchWorkedOff` | 2 runs of which 1 may stop, 1 administrator who manages 1 of 2 rows, 3 attempts | three claims are the least that reach the fallback; the run that stops and the one that goes on share both rows |
| `employee_time` | `TimesFit`, `ApprovedAsReviewed` | 2 requests, 2 entries, 3 ticks of time, 3 ahead | an entry ahead, one that runs into it, and a reviewer |
| `payroll_runs` | `PeriodsDisjoint`, `TermsStand`, `WorkAccounted`, `ImplementsRegisters` | 2 registers, 2 weeks, 2 entries of which 1 is another unit's, 2 requests for a week each, 2 rates | periods of one and two weeks can overlap; the other unit's hours use up the 2 hours without overtime; two requests compete for the hours of one entry |
| `payroll_settlement` | `SettledOneWay`, `StatementsStand`, `AdjustmentsCount`, `ReturnsStand` | 2 registers of a week each, 2 adjustments, 2 paydays, 2 rows of verified wages; returns: 2 checks of 2 people in the months 9 and 10, wages of 101 cents against a base and a threshold of 150, 1 tax activity | registers follow each other, are paid in either order or share an adjustment; an adjustment and its reversal; wages verified before and after a calculation. The second check crosses base and threshold, may fall into the next quarter, and 101 is a wage whose taxes are rounded |
| `portals` | `CrewInStep`, `SubmittedStands`, `ShiftsFit`, `SavedIsThere`, `InStep`, `PlacesAreFound`, `DateIsTold` | a crew of 2 on a job with a route; 3 photos of 2 reports; a shift with 1 place; 2 saves; a request and 2 bookings for a window of 1 or 2 places | two reviews at once; two answers for the last place; a window that loses a place while both are in it |
| `accounts` | `AdminRemains`, `ListsAgree`, `OldPasswordsEnd`, `Consented`, `PrimaryKept`, `FailuresBounded` | 2 sessions, tokens and requests; 2 users with up to 3 roles; 2 messages; 2 addresses; 4 attempts in 2 windows | two requests of which each relies on what the other takes away; a message that comes twice between two others; an attempt that ends in the next window |
| `books` | `CompletedStands`, `MadeOnce`, `PairAgrees`, `LedgerAgrees`, `StructureStands`, `PaymentsAgree`, `FileIsThere` | 3 requests in each part; 2 sessions, lines, dates, amounts, entry numbers, balances, payments and periods; 3 accounts | one request between the steps of another and a third before or after; a cycle of two or three accounts; a payment that makes the other too much; two periods of a day or two |
| `leave_not_overdrawn`, `week_paid_once` | the property of that name, to its violation | the smallest instance with the behaviour | TLC finds the counterexample; `PROJECT.json` quotes the statement it refutes |

The statements called refuted above have no run of their own: put the one property into
the `.cfg` of the run of its module in place of the others, and TLC shows the behaviour.

Bounds are named: `MaxRuns`, `MaxAttempts`, `MaxTime`, `MaxOpenings`, `MaxPasswords`,
`MaxAssigned`, `MaxWindows`, `MaxPhotos`, `MaxActivity` and `LastMonth` stop counters in
guards; `LastWeek` and `LastDate` end the calendar; entries, rows and requests are
finitely many. Symmetry is used in runs that check safety only. Deadlock is checked in
the runs of the journal, records, keys, outbox, time and registers. In
the composite instances and in settlement every request is spent once and every row goes
through its life once, so that there really is nothing left to do in the end.

## Fairness

`Idempotency` (`KeysSpec`): weak fairness of the steps of a request (Node goes on with a
promise that has settled) and of expiry (time passes); no request has to be sent and the
cleanup need not run. `NotificationOutbox`: weak fairness of working off a batch; whether
another run starts is up to whoever schedules the job. `EmployeeTime` states weak fairness
of a transaction that is not blocked and strong fairness of taking a lock, as PostgreSQL
queues those who wait; the run and the proofs about it are of safety and do without.
All other modules state safety only: nothing in the code makes a user send the request
that would come next. The theorems assume no fairness either (`KeysSteps`, `ClockSteps`).

## What is proved

Every property of the passing runs is proved too, for instances of any size, except
the two of liveness. "Any size" means: for all values of the constants that satisfy the
assumptions, which are named, are part of the modules and are evaluated by TLC in every run.
Most say only that the SQL null is none of the values of a column; those that say more are
named below. The last theorem of each module (`LedgerHolds`, `PayrollHolds`,
`SettlementHolds`, `PortalsHold`, `AccountsHold`, `BooksHold`) states the properties of
the specification that TLC checks, from those of its parts and `PartsRunAlone`: every step of
the composition is a step of each part or leaves its variables alone (in `LedgerProofs`, where
records and journal write the same tables, `JournalRuns` and `KeysRun`).

The argument has three recurring shapes, after which the invariants are built:

* *what was read still holds*: a handler checks first and writes later, so the invariant
  says of each request under way what it may rely on until its write, and which lock,
  trigger or repeated condition sees to that;
* *unless it was disturbed*: where nothing sees to that, the invariant has the history
  variable as the exception, and every step that breaks the claim sets it;
* *it still adds up*: where the claim is a sum, every step that changes an addend changes
  the sum by as much.

Sums and folds are recursive, and the induction theorems of the library cannot be used
here, as they take an operator as a parameter. `Sums` gets by with a minimal
counterexample: of the sets for which a claim about a sum is wrong there would be one of the
least size (`LeastNumber`, `SmallestSet`), and taking an element out of it leaves one for
which the claim is right. From this come the lemmas that the other modules cite: a sum is
an integer, and has one element more or less by that element (`SumWith`, `SumWithout`).

### LedgerProofs

* `JournalEntries`: `TypeOK`, `PostedEntriesBalance`, `ReversalsMirror`,
  `ReversedHaveReversal`, `BookOnlyGrows`, and that the module implements `AppendOnlyBook`.
  Balance is not inductive alone: a posting relies on the trigger and a reversal on what it
  copied before, which is `RequestsHold`. Assumed: lines can be mirrored
  (`LinesAssumption`).
* `LedgerRecords`: `RecordsInBook`. What the records do to the journal is a step of the
  journal (`RecordsStepIsJournals`), so all theorems of the journal hold of it
  (`JournalRuns`). The invariant adds who holds a record's lock and what it is then:
  whoever is about to post has locked a draft (`PostsHeld`), whoever is about to mark a
  transfer has reversed its entry or is doing so (`MarksHeld`).
* `Idempotency`: `OneExecutor`, `ResponseStands`, `AnswersOwnPayload` and the types.
  Whoever is past the insertion owns the row, a row with an owner does not expire, and every
  deletion is either the owner's or of an expired row. The invariant adds that a stored
  response is of the payload of its row and who has a result at which stage.

### NotificationOutboxProofs

`DeliveriesAccounted` and `SendingStands`. A claim counts the attempt before the message
is handed over, so attempts are never behind deliveries; the invariant adds that batches
are apart (`Apart`) and that administrators stand at rows of `Managed`. Assumed:
`OutboxAssumption`.

### PayrollRunsProofs

* `PayrollRuns`: `PeriodsDisjoint`, `TermsStand`, `WorkAccounted`, and that the module
  implements `PayrollRegisters`. A register is written three steps after its period was
  found free: the invariant adds that what a preparation has found still holds
  (`PreparationHolds`: the period is free, the entries approved, the leave all there is)
  and that entries in a register stay approved (`EntriesStand`). While a preparation has the
  unit, nothing that could contradict it takes place, and what it has not locked is not
  part of the claim. For the rates (`RInv`), an approved register pays by rates
  `verifySnapshot` has found in effect, and `SetPayrollRate` refuses a week that a register
  reaches. For the work (`WInv`), the lines of a register, and of a preparation, are the
  hours of their entries, leave earned and used is that of the approved entries and
  requests, and the books have the wages of the posted registers; these are sums of integers, which is why
  the invariant says that lines and credits have integers at all (`RegistersCount`,
  `Columns`). Assumed: `PayrollAssumption`, of which the calendar and the finite sets
  matter.
* `EmployeeTime`: `TimesFit` and `ApprovedAsReviewed`. That two entries share no more time
  than one may lie ahead does not follow from itself, as it says nothing of an entry that
  is still open: `PairGood` says that next to an open entry every other has ended when it
  began, or begins at least a second later and ends soon, and `EntryGood` how far an entry
  and its breaks may reach beyond now. Time is in half seconds and may round.

### PayrollSettlementProofs

* `PayrollSettlement`: `SettledOneWay`, `StatementsStand`, `AdjustmentsCount`; that it
  leaves the registers as `PayrollRegisters` has them, which `PayrollRuns` implements; and,
  from `PayrollRegisters` alone, that no week is covered twice. That an adjustment is in one
  register is not inductive: what a calculation includes is posted and follows its register
  or its date (`IncludedFollow`), posted adjustments stay what they are, and it would take a
  week that two registers cover to have one twice. The amounts are `AmountsIInv`: a
  calculation adds up, a payment pays what its calculation says, years to date and
  books are the sums of what stands. Assumed: `SettlementAssumption`.
* `PayrollFilings`: `ReturnsStand`. The invariant is that what is taxed of a person's
  standing payments stays within the base, whatever was verified before each of them
  (`TaxedWithinBase`). That the return and the withholding find the wages beyond the
  threshold alike is a fact about the chain of payments, each of which begins where one
  before ended; the cents that rounding may part are counted, one a payment. Two formulas
  with roundings are compared over a sum of any length. The attempt to prove this showed
  that `Chained` had accepted two payments that begin with the same prior wages, which
  `payroll-filing.service.ts` refuses: the module was wrong, and was corrected. Assumed:
  amounts are natural numbers, registers finitely many (`ReturnsAssumption`).

### PortalsProofs

* `ShiftsFit`: whoever has counted holds the lock of the shift, and what was counted is
  still so. Assumed: finitely many employees (`OffersAssumption`).
* `SavedIsThere`: a save that is alone has seen all the hours there are (`AloneSawAll`).
* `SubmittedStands`: whoever has read a photo to store it has found its object, which stays
  in the store (`UploadsFound`); that the report is not submitted yet is checked anew by the
  statement that writes.
* `InStep`, `PlacesAreFound`, `DateIsTold`: the triggers leave request and job in agreement
  in every step, though each of the two may set off the other; with the columns' types that
  is inductive, and the other two are claims about one step.
* `CrewInStep`: of a job the office left alone, a review under way knows whether its
  approval is the last, and there is one review at most (`JobHolds`).

### AccountsProofs

* `AdminRemains`: a removal that passed the guard leaves another administrator, until an
  overlapping one takes that away. `ListsAgree`: every assignment has a target its role
  allows, and then the five queries say the same. Assumed: `Root` is a user, there are
  finitely many, units and entities are apart (`UsersAssumption`, `TargetsAssumption`).
* `OldPasswordsEnd`: every live session and token is of the present password or was inserted
  late; a token that no other overlapped is the only one live (`TokensStand`), so that a
  reset leaves none.
* `Consented`: a request for texts has checked the consent it was given or has seen, and the
  gateway's repetitions leave the last word; nobody is in the portal, or on the way to it,
  without an account (`AccountOfCustomer`), so that the customers whom the office entered
  stay without one.
* `PrimaryKept`: of each type one address is primary.
* `FailuresBounded`: the hits of a window are at most its attempts and, with those that were
  spared, at least; which is inductive with the types, and takes counting in sets of which a
  step moves one attempt to another. Finitely many attempts are assumed.

### BooksProofs

* `CompletedStands`: of a request alone on its session, what it has still to take back and
  to add is what parts the session from the lines ticked (`OnCourse`).
* `MadeOnce`: there are as many who may make the transaction of a date as reservations were
  given up, and one more while there is a row (`ReservedOnce`); no generation has read a
  later date than the template has now (`NextIsAhead`).
* `PairAgrees`: what the requests under way have read may be counted on (`ReadStands`).
* `LedgerAgrees`: who has the row for update has it alone, and every entry the row does not
  name is reversed (`RestIsReversed`).
* `StructureStands`: what a trigger found free is free until the commit (`FoundStands`). For
  the accounts, that nobody is below himself is said of sets: no set of accounts has all its
  members' parents in itself, and a parent that was checked is outside a set that has the
  account and all below it (`FreshIsClear`) - so the walk up the tree need not be followed
  step by step in the invariant, only once, in the lemma about the check.
* `PaymentsAgree`: an entry keeps its source and, once posted, stays in the book when it is
  reversed; who is about to link an event holds such an entry (`TasksStand`,
  `EventsNamed`, `InvoiceEntries`); the paid amount is a sum over the payments.
* `FileIsThere`: who is about to mark a file in the database, or to write back its mark,
  has stored its content or found it marked (`MarkedIsStored`).

Requests, payments and accounts are assumed to be finitely many (`BooksAssumption`).

### Only model-checked

Liveness (`KeyNotStuck`, `BatchWorkedOff`; the prover has no rules for fairness), and the two
violations, which are behaviours and not theorems. That a guard can be passed at all, which
proofs of safety do not show, is shown by the runs, in which every action is taken.

## What is not modelled

Authorization is a module of its own and the handlers' first check elsewhere, where it is
left out; so are audit events, except that writing one may fail, and the formatting of
messages. Components that `PROJECT.json` lists as `not_modelled` or `partly` say there
what is left out and why: they are edits of one row by one statement, read-only queries,
or arithmetic no step depends on. One hazard has no property, as
what it would say is refuted: what fails after its commit is performed again. One more
race the code admits is in no module: two mileage logs at once may count the same miles,
which no statement of the repository denies.

## What is left

1. Abstract specifications of recurring transactions (each occurrence once) and of the
   outbox (a message is handed over by one holder, as often as it was counted), with
   refinements proved as those of the book and the registers are.
2. Enqueueing for the outbox beside the triggers of service requests; estimates; the
   uploads of forms; customers who share a telephone number.
3. Proofs of the claims behind the exceptions: that a run of a composition in which no two
   requests overlap has `raced`, `overlapped`, `stale` and the others false throughout.
