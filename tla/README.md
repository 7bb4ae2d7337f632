# TLA+ models of the Marketstack product layer

This directory holds the formal models of the business code under
`src/product/`: TLA+ modules translated from the Python and from the database
migrations, TLC configurations that check them on small instances, and TLAPS
proofs that hold for every value of the constants. `PROJECT.json` links every
modelled definition to the source lines it stands for, and every run, mutant,
hazard, finding and theorem to the definitions it concerns. Paths below are
relative to `src/product/` unless they begin with `docs/` or `scripts/`.

Contents: 1 the system and what is hard about it; 2 the modules; 3 how the
models read the code; 4 each module, with its runs, bounds and fairness; 5 what
is proved; 6 what the code and its documentation disagree on; 7 what is not
modelled; 8 what is left to do.

## 1. The system

Marketstack is a multi-tenant CRM, telephony, marketing and accounting product.
`product/` is a Python layer over three packages that are not in the
repository: `core` (permissions, audit, events, idempotent operations, jobs,
tenancy), `infra` (`tenant_session_scope()`, `acquire_tenant_advisory_lock()`)
and `control_plane` (approvals). State lives in PostgreSQL under READ COMMITTED.
Requests, webhooks, job workers and Temporal activities run concurrently in
many processes, and almost every function has the same form: check permission,
open one transaction, read rows, check them, write, commit, then write an audit
record and publish an event *outside* the transaction.

So the hard behaviours are nearly always of five kinds: what a transaction read
before it took its lock, or without one; what happens between the commit and
what follows it; outside callers (Twilio, Temporal, the job queue, sweeps) that
deliver late, twice or never; statuses that two operations move at once; and
foreign keys that decide what a deletion takes along.

| Component | State it keeps | Operations | What is hard, and what makes it correct | Model |
|---|---|---|---|---|
| **Telephony calls and attended transfer** (`telephony/calls.py`, `transfer.py`, `adapters/twilio_*`) | the call's status and owner, the event ledger | status webhooks, transfer, leg callbacks, bridge | callbacks lost, duplicated, reordered; crashes; a row lock that does not read the row again. One attempt, one bridge, an ended call stays ended, every transfer ends | `CallTransfer` |
| **Phone sessions and action safety** (`telephony/call_session.py`, `call_action_safety.py`) | the turns in memory, idempotency records | start, interrupt, complete a turn; run the tool of a turn | late answers, repeated requests, death around the tool. One tool run and one answer per turn | `PhoneSession` |
| **Numbers, routing, placed calls, recordings** (`telephony/`) | numbers, targets, calls, recordings | buy, release, route, dial, store, expire | three steps around a provider; concurrent choice of a target. No call or audio unaccounted for | `PhoneDesk` |
| **Journal and periods** (`accounting/journal.py`, `periods.py`) | entries, lines, periods | create, edit, void, post, reverse; close, reopen | unlocked edits; a period closed under a posting. An append-only balanced book | `Ledger` |
| **Receivables** (`accounting/invoices.py`, `payments.py`) | invoices, payments, allocations | create, void, post, cancel; pay, allocate, reverse | two kinds of lock on one invoice, dual locking. No euro lost or spent twice, no deadlock, no gap in the numbers | `Receivables` |
| **Payables and credit notes** (`accounting/bills.py`, `credit_notes.py`) | bills, credit notes, their journal entries | the same, and edits | hand-made reversals, edits while posting. Status and books agree | `BillsAndCredits` |
| **Banking** (`accounting/banking.py`) | accounts, statement lines, matches | import, confirm, assign | overlapping imports, two clerks at a line. Money that came in once is booked once | `Banking` |
| **Automation** (`automation/dispatcher.py`, `scheduled.py`, `actions.py`, `workflows.py`) | workflows, runs | handle an event, sweep, act, finalise | redelivery, cascades, death in the action. One action per trigger, a true outcome | `WorkflowDispatch` |
| **Durable definitions** (`automation/durable/definitions.py`, `dsl.py`) | versions and graphs | validate, draft, publish, start | publication races; dominators over an unordered set. No loop, no unbound reference, pinned versions | `WorkflowGraph`, `WorkflowVersions` |
| **Durable runs** (`automation/durable/`) | the run's row, the Temporal execution | submit, signal, cancel, activities | row and execution disagree. No action repeated once settled, every execution ends in the row | `DurableRun` |
| **Campaigns** (`marketing/`) | campaign, recipients, suppressions | start, send, cancel | jobs retried after death, cancellation while sending. Each recipient once | `Campaign` |
| **Appointments** (`appointments/`) | calendar, rules, bookings, reminders | book, move, finish, remind | two bookings of a slot, two sweeps. No double booking | `Appointments` |
| **Reputation** (`reputation/`) | requests, reviews, responses | ask, cancel, review, respond | cancelled while mailed. The row tells the mail | `Reputation` |
| **CRM** (`crm/`) | records and references | create, move, delete, attach | deletion between check and write. No dangling reference | `CrmRecords` |
| **Capture** (`marketing/forms.py`, `websites/`, `crm/imports.py`) | contacts, leads, submissions, pages | submit, capture, import, publish | find-or-create at once, retried requests. One contact per number, one lead per key | `ContactCapture` |
| **Conversations** (`conversations/`) | threads, messages | receive, reply, read the inbox | thread find-or-create; send then record | `Conversations` |
| **Agencies** (`agency/`, `platform/`, `templates/`) | tenants, roles, invitations, attachments | found, staff, attach | one step of several fails; events with many handlers. Roles whole, one attachment | `RoleGrants`, `Provisioning` |
| **Billing** (`billing/`) | plans, catalogs, subscriptions | resell, adopt, subscribe | five steps in two systems. Nothing sold beyond quota or catalog | `Reselling` |
| **Schema** (`migrations/`, `*/models.py`) | tables, keys, checks | upgrade, downgrade | narrowed checks, dropped references. Schema as revised, models as the schema | `TenantSchema`, `Migrations`, `DeclaredModels` |
| **Erasure** (`*/purge.py`) | a tenant's rows | purge | order over foreign keys, failure half way. Purged means erased | `TenantPurge` |
| **AI tools and approvals** (`ai/`, `approvals/`) | the tenant's policy, proposals | set the policy, call a tool, propose, approve, execute | the policy changes between decision and run; an approval executed twice. Data leaves as allowed, one execution | `AgentActions` |
| Receptionist and media stream, durable infrastructure, white label, reporting, integrations, storage, HTTP API, login service, frontend | - | - | section 7 | - |

They interact by calls in one process (a bill or an invoice posts and reverses
journal entries in its own transaction; a matched bank line books a payment and
an allocation), by events (`publish()` runs every handler in the publisher's
thread: the dispatcher, the owner's grants), by foreign keys (the erasure and
the CRM's deletions), and through the job queue, Temporal, Twilio and the mail
provider. The compositions that matter are inside one module each: documents
and their entries in `BillsAndCredits`; statement lines, payments and
documents in `Banking`; the modules' handlers of one event in `Provisioning`;
all modules' rows in `TenantPurge` over `TenantSchema`; the session and the
safe execution of its actions in `PhoneSession`; row and execution in
`DurableRun`.

The hazards, each at its line and with the properties that would catch it, are
`hazards` in `PROJECT.json`.

## 2. The modules

| Module | What it is |
|---|---|
| `TransferOwnership` | abstract: each attempt's right to act on the caller, won once, held by one, until the promise is broken |
| `CallTransfer` | detailed: the call's row, ledger, transfer threads, provider and webhooks; refines `TransferOwnership` |
| `BooksOfAccount` | abstract: an append-only book of entries and corrections |
| `Ledger` | detailed: journal and periods as interleaved transactions; refines `BooksOfAccount` |
| `MoneyAccounts` | abstract: payments, invoices and what the one gave the other, an exchange at a time |
| `Receivables` | invoices, payments and allocations as interleaved transactions; refines `MoneyAccounts` |
| `BillsAndCredits`, `Banking` | the rest of the back office |
| `DurableRun`, `WorkflowGraph`, `WorkflowVersions`, `WorkflowDispatch` | automation |
| `RoleGrants`, `Provisioning`, `Reselling` | tenants, roles, attachment, resale; `Provisioning` computes with the constants of `RoleGrants` |
| `Campaign`, `Appointments`, `Reputation` | what a tenant sends to and agrees with its contacts |
| `CrmRecords`, `ContactCapture`, `Conversations` | records of customers and the ways in |
| `TenantSchema` | the schema as data: one operator per migration revision |
| `Migrations`, `DeclaredModels`, `TenantPurge` | the three users of that data: alembic, the declared models, the erasure |
| `PhoneSession`, `PhoneDesk` | the receptionist's turns; numbers, routing, dialling, recordings |
| `AgentActions` | the tools of the assistants, the policy they run under and their approval |
| `CallTransferProofs` | TLAPS proofs about `CallTransfer`, `PhoneDesk` |
| `LedgerProofs` | about `Ledger`, `BillsAndCredits` |
| `ReceivablesProofs` | about `Receivables`, `Banking` |
| `AgentActionsProofs` | about `AgentActions`, `PhoneSession` |
| `AutomationProofs` | about `WorkflowGraph`, `WorkflowVersions`, `DurableRun`, `WorkflowDispatch` |
| `EngagementProofs` | about `Reputation`, `Campaign`, `Appointments` |
| `CustomersProofs` | about `CrmRecords`, `Conversations`, `ContactCapture` |
| `ResellingProofs` | about `Reselling`, `Provisioning` |
| `MCCallTransfer`, `MCLedger`, `MCReceivables`, `MCDurableRun` | one module each for TLC: function-valued constants and symmetry |
| `MCAutomation`, `MCEngagement`, `MCCustomers`, `MCTenant` | several modules in one run, below |

**Several modules in one run.** The last four extend modules whose components
share no state that one of them waits for, and add a variable `focus`: a
behaviour picks a component in its initial state and moves only that one. TLC
so explores the *sum* of their state spaces and not the product, which would
show nothing more. Names are unique across the modules of one such run.

**Composite properties.** A module states its properties as definitions of
their own, each with its comment, and names their conjunction
(`EachRecipientOnce`, `CalendarHolds`, ...), which the run checks. A part that
says what a step may not do is an action formula (`OwnerIsForever`) and appears
in the conjunction as `[][...]_vars`. Each composite has two mutants or more,
aimed at different parts of it.

## 3. How the models read the code

**Transactions.** READ COMMITTED lets a plain SELECT see whatever was committed
when it ran, and makes a second writer of a row wait, not fail. So a
transaction is one action only where it takes its lock before it reads
(`SELECT ... FOR UPDATE` or `pg_advisory_xact_lock`, the latter external,
through `infra.db`) and holds it to the end, with nothing else read first.
Otherwise it is cut at each lock and each unlocked read. What it read is kept
in the state of the request (`work`, `txn`, `editing`, `request`, `asked` ...),
its writes become visible in its last step, and all its locks free there.
`Rollback`, `GiveUp` or `Abandon` may end a transaction at any step: it stands
for every refusal found after a lock was taken and for a lost connection or a
dead worker. `session.get(..., with_for_update=True)` of a row that the
session has not read returns the current row. Of one that it has read, it sends
the `FOR UPDATE` and waits for the lock, but the attributes stay as they were
first read, unless `populate_existing` or a `refresh()` asks for more: so the
second reading of a period is current (`journal.py:492`, `:585`, `Ledger`), and
that of a document (`Banking`) or of a call (`CallTransfer`) is not.

**The mail provider.** `send_email()` may raise although the server took the
message: `SendFails` (`Campaign`), `SendReminderFails` (`Appointments`),
`MailAsk` (`Reputation`) and `SendReplyFails` (`Conversations`) leave open
whether it went out, as `CreateLegFails` does of Twilio.

**Threads.** A function with several transactions or provider calls is a thread
with a program counter; every other thread may run, and the process may die,
between two of its steps.

**Constraints.** Unique indexes, checks and foreign keys are guards of the
inserting or deleting action; the refused branch is an action of its own where
the code goes on after it.

**Data.** An entry's lines each debit or credit an account by one unit; sums are
small naturals; a date is the period it falls in; a `provider_event_id` is the
pair of its prefix and the one part that varies; a contact is an e-mail address
and a number out of two each. Permissions, audit records, view loading and
input validation that depends only on the request are left out, except where a
property is about them (`RoleGrants`, `PhoneSession`). `run_idempotent()`, which
replays a stored result under a repeated key, is left out of the accounting
modules: a request there has no key, which gives more behaviours.

**Mutants.** A definition marked `Mutant` is a plausible bug in the definition
that follows it. Nothing uses it; it documents that a property tells the two
apart.

## 4. The modules in detail

### CallTransfer

`status`, `active` and `events` are the row of `calls` and its ledger.
`initiator[a]` is where invocation `a` of `initiate_transfer()` is;
`callback[a][d]` is where delivery `d` of the leg's "in-progress" webhook is;
`leg[a]` and `sent` are the provider. The publication of `call.completed` is left
out.

Each of the four functions that test the row (`_process_inbound_event()`,
`apply_call_transfer_event()` and the two gates) finds it with a plain `SELECT`
(`calls.py:446`, `:613`, `:719`, `:778`) and locks it afterwards (`:520`, `:622`,
`:728`, `:787`), with nothing read again in between. So such a transaction is two
actions: `Load...`, which puts the row into `copy[t]`, and one that decides on
this copy under the lock and commits. `StatusOf`, `ClaimOf`, `ConsumeOf` and
`ReturnOf` say what each makes of a row, `{}` when it refuses; `Commit` writes the
columns whose value is not the copy's, which is what the UPDATE of the flush does.

`overtaken` is a history variable that no guard reads: it becomes true at the
first commit that did something else than it would have done with the row it
locked. It says until when the promises of the gates hold.

| Actions | Code |
|---|---|
| `ReceiveInitiated` | the insert of `_process_inbound_event()`, decided by the unique index |
| `LoadForStatus`, then `ReceiveStatus` or `RejectStatus` | its other events, applied or refused |
| `TransferUnavailable`, `LoadForClaim`, then `WinClaim` or `LoseClaim` | `try_start_transfer_attempt()` and the early returns of `initiate_transfer()` |
| `CreateLeg`, `CreateLegFails` | the provider request; failing, it may have left a leg (timeout) |
| `LoadForUnavailable`, `RecordProviderUnavailable`; `RecordConsultationStarted` | the second transaction of `initiate_transfer()` |
| `LoadForLegFailed`, `ReceiveLegFailed` | webhook to `record_transfer_failed()` |
| `ReceiveAnswered`, `LoadForCallback`, `WinConsume`/`LoseConsume`, `BridgeCall`, `RecordBridged`, `RecordBridgeFailure`, `RecordAiLegRemoved` | the steps of `bridge_transfer()` |
| `ReturnCall(t, id, gate)` | `apply_call_transfer_event()` where it moves the call: stale gate, duplicate, illegal transition |
| `RecordEvent(id)` | the same where it only records |
| `CrashInitiator`, `CrashCallback` | process death; nothing restarts the work |

A webhook's action stays enabled after it was taken, so loss, duplication and
reordering need no network variable.

| Run | Bounds | Shows |
|---|---|---|
| `transfer_safety` | 2 attempts, 2 deliveries, crashes, 2 open transactions | until a transaction is overtaken: `OneHolder`, `BridgeHoldsTheCall`, `OnlyOwnActorsRelease`, and `OwnershipSpec`: every step is a step of `TransferOwnership` or a stutter. Whatever overtakes what: `BridgeSettles`, `EndedForGood` |
| `transfer_resolves` | 2 attempts, 1 delivery, no crash, distinct request ids, fairness | every transfer leaves `transferring`, unless a transaction was overtaken |
| `transfer_overtaken` | as the first, no crash | finding, section 6: `RowLockSerializes`, that no transaction is overtaken |

`BridgeSettles`: an attempt that bridged is spent once the deliveries that
loaded the row before its consume are through, so a duplicate that comes later,
however late, does not bridge. `EndedForGood`: once the transactions that were open
when the call ended are through, nothing resurrects it. These two are what the code
gives without a condition; what its comments promise (`RowLockSerializes`, and with it
`ClaimsExclude`, `BridgedAtMostOnce` and `TerminalForever`) it does not.

`Bounded` keeps the safety run small (860 000 states): at most `MaxOpen` = 2
transactions have loaded the row and not committed, which is one overtaking
another; and a behaviour is either one attempt with every report and a
duplicate of its callback, or two attempts with one callback each on a call that
is hung up in the end. A third open transaction and the mixtures are left to the
proofs, which have no bound. `OneByOne`, in the fair run, lets the reports of the
caller be handled one after the other and sets the destination beforehand; it
refuses no step that fairness demands, and behaviours stop where a transaction is
overtaken, since the property asks nothing after that. *Fairness:*
`WF(InitiatorStep)` and `WF(CallbackStep)`, because the provider client has a
15 s timeout and a running handler goes on; `WF(LegResolves)`, because
`create_consultation_leg()` asks Twilio for a 20 s ring `Timeout`;
`WF(LegStep)` and `WF(ReceiveAnswered)`, because Twilio delivers a
status callback at least once (an assumption on Twilio). No fairness of
the caller, of status reports or of claims is assumed. With a crash the property does not
hold (a crash after the consume leaves the call transferring until it ends), so
the run has `MayCrash = FALSE`. The model keeps one human destination and one call: the
gates read no other call's row.

### Ledger

`status`, `date`, `lines` and `reverses` are the entries; `period` the periods.
`work[t]`, `managing[m]` and `editing[u]` are transactions in progress.

| Actions | Code |
|---|---|
| `CreateEntry`, `VoidEntry`, `CreatePeriod` | one transaction each |
| `PostLock`, `EnterPeriod`, `PostCommit` | `_post_journal_entry_in_session()`: row lock and balance; period lock and second read; writes |
| `ReverseLock`, `EnterPeriod`, `ReverseCommit` | `_reverse_journal_entry_in_session()` |
| `ManageLock`, `ManageCommit` | `close_period()`, `reopen_period()` |
| `EditCheck`, `EditDelete`, `EditCommit` | `update_journal_entry()`, which locks nothing before its insert |

The insert of a line takes `FOR KEY SHARE` on the parent entry, so `EditCommit`
waits for a `FOR UPDATE` holder, and for nothing else. An edit of
the lines is modelled; one of the description changes nothing the properties
see, and when it comes with lines its UPDATE only takes the entry's lock
earlier.

| Run | Bounds | Shows |
|---|---|---|
| `ledger` | 3 entries, 2 bookkeepers, 1 manager; 1 period while an editor is at work, 2 periods otherwise (`Bounded`) | `ReversedOnce`, `Lifecycle`, `ClosedPeriodFrozen`, `EntersBalanced`, `EntersMirrored`, `IsABook` |
| `ledger_edited_after_post` | 2 entries, one of each actor | finding, section 6 |

Three entries are an original and two would-be reversals; two periods let a
reversal go into a period other than the original's, and what an editor touches is
the same in each. `EntersBalanced` and
`EntersMirrored` say of the lines what holds with editors about: what is posted
balances, and a reversal mirrors its original, in the state in which they enter
the book. That a posted entry *stays* balanced (`PostedBalanced`) an editor
breaks: the second run. The book of `BooksOfAccount` knows no lines, so `IsABook` holds
with editors too.

### Receivables

`invoice`, `payment` and `allocation` are rows. An invoice has two unrelated
locks: its row (posting, voiding, cancelling, and any UPDATE) and the advisory
lock `accounting.document.<id>` (allocating, reversing). `txn[t]` is a request
in progress, and keeps what it read until it writes it back.

| Actions | Code |
|---|---|
| `CreateInvoice`, `VoidInvoice`, `CreatePayment` | one transaction each |
| `BeginUpdate`, `CommitUpdate` | `update_invoice()`: an unlocked read of the status, the lines and the total |
| `PostLock`, `PostNumber`, `PostCommit` | `_post_invoice_in_session()`; the journal entry it posts refuses or accepts (`Rollback` or `PostCommit`) |
| `CancelLock`, `CancelCommit` | `cancel_invoice()` |
| `BeginAllocation`, `LockDocument`, `LockPayment`, `ReadBoth`, `CommitAllocation`, `RefuseAllocation` | `create_allocation()` |
| `BeginReversal`, then the same locks, `CommitReversal`, `RefuseReversal` | `reverse_allocation()`, whose search for an earlier reversal precedes the locks |

`MoneyConserved`: no euro of a payment is spent twice or lost (`PaymentConserved`), and
a posted invoice owes its total less its live allocations (`InvoiceConserved`).
`MovesAtOnce`: however its steps interleave with others, an allocation or a reversal
does what it would have done in one step at its commit.

`May[t]` says which operations request `t` may be: each run fixes which kinds
of call overlap, and a run's claim is about these overlaps.

| Run | Overlaps and bounds | Shows |
|---|---|---|
| `receivables_money` | allocations against every operation; 2 invoices, 2 payments, 3 allocations, sums 1 and 2 | `MoneyConserved`, `MovesAtOnce` |
| `calls_end` | postings, allocations and reversals against each other, cancellations and edits; 2 invoices, 1 payment, 3 allocations, sum 1 | `CallsEnd`, `NumbersGapless` |

Sums of 1 and 2 make partial and exact allocations, refusals, and double
spending. *Fairness:* `SF(Continue(t))` for each request: a transaction that runs goes on, and
PostgreSQL queues the waiters of a lock, so one whose
lock frees again and again is served. `Start` and `Rollback` are not fair.
Runs whose ids can all be used up have `CHECK_DEADLOCK FALSE`: with no row left
to act on the system may stop.

### DurableRun

`row` is the run's row and `open` its step rows; `exec` is the Temporal
execution, `attempt` its activities, `key` their idempotency records. Callers
are `submit`, `cancel`, `signal`.

| Actions | Code |
|---|---|
| `HandleTrigger`, `Submission(t)` | the reservation by a trigger; `submit_run()`, from the read of the row to its last write, with a start that Temporal refuses or that answers late |
| `GoesOn` | the workflow function: conditions, waits, timeouts, the next step |
| `Writes` | the bookkeeping activities that write the run's row and its steps |
| `ActionStep`, `WorkerDies` | the business activity: reserve, act, finalise; its retry after a death at any point |
| `CancelChecks`, `CancelTells`, `CancelWrites` | `cancel_run()`: read, tell Temporal, write |
| `SignalChecks`, `SignalArrives` | `send_run_signal()`: read, send; the arrival |

Run `durable_run`: one definition of five steps, chosen so that every kind of
edge occurs (a wait that leads to an action and to a second wait, and that
times out into a pause, a condition, and the action or the end). Two submitters
give a duplicate submission; one canceller and one signaller suffice because
neither's steps refer to another of its kind. `MaxAttempts` 2 allows a death and
its repetition, `MaxOpen` 1 a step row left behind by one.

`RunTellsItsExecution`: `SignalUsedOnce`, a signal ends one wait, though it may be
kept for a later one; `EndIsRecorded`, an execution that ran to its end left a
terminal row behind (one that was cancelled may not); `SettledOnce`, once a step's
record says its action succeeded no attempt is left that may still act.
`RunEnds`: every execution brings the row to a terminal status unless it is
itself cancelled. *Fairness:*
`WF(Writes)`, because Temporal retries a bookkeeping activity without an end;
`WF(GoesOn)`, because it keeps a workflow's timers and runs it on a worker;
`WF(ActionStep)`, because a task is given to some worker and its attempts are
bounded. Nothing makes a caller submit, cancel or signal: waits end by their
timeout.

`RunTellsItsExecution` does not say that a terminal row keeps its status, and it
does not: a queued run cancelled after a submitter read it is submitted all the
same and then runs (`SubmittedWhileOpen`, section 6), and `cancel_run()` writes
`cancelled` over whatever the run has become since its first transaction.

### The run `automation`

Foci `graph`, `versions`, `dispatch`, `founding`, `attach`, `resale`.

**WorkflowGraph.** `dest` and `ref` are the graph, `color` and `visiting` the
search for cycles, `dominators` the fixed point, `ran` a run's steps.
`Validation` is the chain of refusals of `validate_workflow_definition()`,
`Refine(s)` one update of one step's dominators in whichever order the Python
set gives, `ValidateReference` the check of one reference, `Enter` and `End` a
run. TLC takes every graph of four steps. `GraphsAreSound`: the computed
dominators are those of the definition by paths, whatever the order; no run of
an accepted graph visits a step twice; what a step refers to has run.

**WorkflowVersions.** An operation is a read (`BeginDraft`, `BeginUpdate`,
`BeginPublish`, `ReadCurrent`) and a write (`Commit...`, `ReserveRun`), with no
lock between. `RunsFollowVersions`: versions are numbered without gaps although two drafts
may be created at once; what is current or pinned is published and never a draft
again; a run is of the version its starter found published. Two editors, two starters of one occurrence, three
versions: the last allows two publications to overlap an edit.

**WorkflowDispatch.** `stack[t]` is the nest of `_handle_event()` loops of a
thread: an action that publishes handles its event before it returns.
`HandleEvent`, `Sweep`, `GoOn` (reserve, evaluate, act, finalise; each workflow
in turn), `Die`, and `CreateWorkflow`, `SetWorkflowStatus`, `DeleteWorkflow` at
any time. `ActsOnceAndSaysSo`: an action is done once per workflow and key; no
workflow starts another; a run's outcome says what was done; scheduled runs are an
interval apart, unless one sweep had decided before the other recorded; no
workflow keeps an event from the others; a pending run is one that a thread is
in, or was in when it died. Three workflows (on an event, on the event
the first raises, scheduled), two threads, two instants.

**RoleGrants and Provisioning.** `RoleGrants` is data: what each module's
services ask for and what its handler of `agency.role_provisioned` grants.
`Provisioning` runs the founding of an agency, the creation of a client, the
invitation and acceptance of members, each step a transaction, each
with a death after it, and a `Release` that wires a new module. `TenantsAreSetUp`:
whoever founded an agency may do all that the modules wired at the time ask for;
a member that has its role has all of it; an acceptance is refused, its token
spent, only across a release. And in focus `attach`, with two calls and a
reservation that may expire: an attachment is recorded once unless its
reservation ran out, and one recorded nowhere had a caller that died, failed or
is at work; a client is announced with its whole setup and stays with its agency. One agency and one client, with two invitations to
two people, because nothing here reads another agency's rows.

**Reselling.** `offer` and `purchase` are requests in their five and four
steps, `plan` and `subscription` what `core.billing` (external) keeps. Two
offers under one key and two purchases under one key are a retry and its
original; levels up to 2 and quotas of 1 and 2 make a ceiling and an exhausted
quota. `SoldWithinCatalog`: no more plans than quota consumed, and no more than
the quota; what is on sale or sold is in the catalog of an owner with a merchant
account; a plan grants what its offer states; one subscription per key; a plan
two tenants adopt at once stays the first one's.

### The run `engagement`

Foci `campaign`, `calendar`, `booking`, `reminders`, `reviews`.

**Campaign.** The request (`StartChecks`, `ReadPage`, `LookUp`, `Enroll`,
`Enqueue`) resolves the segment page by page while contacts come and go; the job
(`TakeJob` .. `MarkSent`) sends one by one and is taken again after a death.
`EachRecipientOnce`, for a campaign started once: only a death between a message
and its mark repeats it (a provider error, even one raised after the message was
taken, marks the recipient failed and repeats nothing); after a cancellation only the message under way
leaves; `sent` means that every recipient has an outcome. And always: who is
suppressed when the job picks him gets nothing; a campaign in `sending` is
somebody's work or its request died before it enqueued; a paging that no insert
or delete crossed found the whole segment, once. Two contacts with pages of one are the
smallest listing that shifts under the paging; one crash separates each message
from its mark.

**Appointments.** Calendar, booking, reminders are three foci over the same rows.
`Book` reads availability and inserts against the exclusion constraint;
`LockRow` and what follows it are moves under `FOR UPDATE`; `StartSweep` ..
`EndSweep` is a reminder job. `CalendarHolds`: no two confirmed appointments overlap,
an offered slot can be booked while no appointment changed, nothing refers to a
deleted calendar, every caller gets the stored link, an event's end follows its
start, `completed` is published once, and a reminder is repeated only by sweeps
that overlap, or after a message that left its row unmarked: its sweep died, or the
provider raised after it took the message (`unmarked[a]` counts both). Instants 0..2 with slots of length 1 are
two adjoining slots; two sweeps overlap and a third comes after.

**Reputation.** `InsertAsk`, `MailAsk`, `RecordOutcome` around the provider;
cancellation, review and response as read and write. `RequestsTellTheMail`: a
request that is `sent` or `fulfilled` was mailed, a fulfilled request has its review, and no
review names a request that is gone. Of one that is `failed` nothing is said:
`review_requests.py:209-220` writes it on any provider error, so the mail may have
gone out.

### The run `customers`

Foci `stages`, `records`, `lead`, `phone`, `page`, `import`, `inbound`,
`messages`, `templates`.

**CrmRecords.** Each request is a check with plain reads (`Check...`) and a
write; `DeleteEntity` applies the foreign keys' rules. `RecordsRefer`: no
reference to what is gone, and an opportunity's stage is one of its pipeline.

**ContactCapture.** Forms and pages find by e-mail without a lock, inbound calls
find by number under the advisory lock; `ReserveKey` and `KeyTaken` are the lead's
idempotency. `CapturedOnce`: of messages from one number, one creates the contact; one
submission and one lead per key; no submission names a contact that is gone; a
completed import has an outcome for each row; a form without a number does not
blank the contact's; what the public sees changes by publication only. Five captures are two
callers and every other way in, so that each meets each. Two imports of two
rows overlap in one company.

**Conversations.** `LockThread`, `ReuseThread`, `InsertThread` find or create
under the lock that only inbound deliveries take; `SendReply` precedes
`RecordReply`; a message's number is drawn before its commit. `ThreadsHold`:
inbound deliveries share one thread unless staff deleted or edited it or its
contact; a message has its thread; a recorded reply was taken by the provider (one
that was not recorded may have been taken too).

### The run `tenant`

Foci `migrations`, `purge`, `bills`, `notes`, `bank`, `phone`, `lines`,
`dials`, `tapes`, `tools`, `approvals`.

**TenantSchema, Migrations, DeclaredModels.** Every revision of the chain is one
operator: the tables, parts, foreign keys with their deletion rules, policies and
check values it adds. `Migrations` walks them up and down in transactions that
may be refused or interrupted, while a call's row is written.
`SchemaFits`: the catalog is what its revision says, whatever was refused or
interrupted on the way (one record per revision serves both directions, so that a
downgrade takes away what its upgrade brought is partly the form of the model, not a
result); it admits the rows it holds; at the head it is what
the classes declare; the only step that can be refused is the downgrade of 0064. The instance is the real one:
all revisions, all classes.

**TenantPurge.** The participants that `api/main.py` registers, in its order or
any, over the same foreign keys; a table holds one row or none, optional
references are set or not. `PurgeErases`: a purged tenant has no row in the tables that the participants answer for; a
participant raises for three reasons only (a contact kept by the books or by a
review, an active run, telephony's two participants out of order); no recorded
execution outlives the purge; no cascade reaches the books.

**BillsAndCredits.** A request is a transaction of `desk`; `BeginUpdate` reads
without a lock, `LockBillToPost`, `LockBillToCancel`, `LockNote` lock; an entry
may be reversed by hand at any time. `PayablesMatchBooks`: status
and journal entry tell one story; what is booked for a bill is what its lines were
when it was posted; notes are numbered without a gap; a supplier's
reference stays with the first bill that bore it. Two bills
with two references and two sums are a duplicate and an edit.

**Banking.** `BeginImport` reads the hashes that are there, `CommitImport`
inserts; `BeginConfirm`, `LockToAllocate`, `CommitConfirm` match a line, with the
session's first reading of the document. `BankedOnce`: a movement
is imported once, a line brings about one payment exactly when it is matched, and
the journal's cash is what the reconciled lines add up to. Two accounts of one
ledger account, two statements that share a movement.

**PhoneSession.** The session's methods in any order (what drives it is not in
the repository); `PrepareRefused` .. `Attempt` are the synchronous half of
`execute_phone_action()`, `ToolAnswers` and `Resume...` the half after the await.
`TurnsAnsweredOnce`: one turn is under way; the tool runs at most once for it; a
stored answer is the turn's own; it is audited once; a turn that is over stays as
it ended. Two
turns, and two deliveries of a request.

**PhoneDesk.** Four small protocols around a provider or the storage.
`DeskAccounts`: positions are 0, 1, 2 and within the limit; a call is marked failed only when
the provider refused it or its answer was lost, and one it accepted is named by a
row unless the process died; what has not expired can be played; audio without
a row is left only by a process that died while storing; nobody gets a second
call while a target the router locked has had none. Three adders and two users overfill a limit of two targets.

**AgentActions.** `aiPolicy` is the tenant's row, `proposal` the approval
requests, `attempt[c]` the call a request or worker has under way, with the
decision it drew from the policy. `Decide` resolves the policy; `InvokeTool`, or
`Propose` for a tool of tier 1, uses the decision a step later, when
`SetPolicy`, `LosePermission` or `CloseTenant` may have come between.
`QualifyLead` is the workflow's action. A proposal is executed by
`DecideExecution`, which decides anew, or by `ExecuteFromInbox`, which brings no
decision; `Claim` .. `MarkExecuted` and `GiveBack` are `control_plane`'s, and
`CallerDies` may cut them anywhere. `ToolsRunAsAllowed`: a tool that sees the
tenant's data ran only where the policy let this data out to this provider at
some moment of that very call (the policy may be withdrawn while it runs, since the
decision is not looked at again), and never from the inbox; a proposal has
one caller at work on it, returns once, and after another than its proposer
approved it; who is told of a denial or a wait may rely on it that nothing ran. Two
callers are two surfaces that execute one proposal; one tool runs at once, one
is guarded and of tier 1, one is of tier 1 only; one of two providers is allowed.
Today's vocabulary of `capabilities.py` names a tool of tier 0 only; that a
policy may also name one of tier 1 is what the parameter `tenant_policy` of
`execute_approved_ai_tool()` is for.

Bounds common to all: two of each actor is the smallest overlap, and where a
property counts (numbers, versions, sweeps, drafts) the count reaches three.
`CHECK_DEADLOCK FALSE` everywhere here, because ids are used up.

## 5. What is proved

Eight modules of proofs state every invariant of the runs, and most of what the
runs say of single steps, for every value of the constants. Their assumptions are
the named ones of the modules they are about: "no id" is not an id, functions over
actors are total, actors of two kinds are told apart, sums and quotas are natural
numbers, no contact is listed twice in a segment, no movement is both an inflow and
an outflow, what is counted over (offers, sweeps, statements and what they report)
is finite. TLC evaluates these assumptions in the runs, and has checked each
inductive invariant below on the same instances.

*CallTransfer.* `IInv` has a part that always holds: `TypeOK`, and `Causality` (a
thread has passed only points its predecessors reached, an attempt that consumed or
bridged does not own the row, and a row is loaded only where a thread tests one).
The rest, `ProtocolInv`, holds until a transaction is overtaken. No safety property is
inductive by itself: that the bridge runs once rests on the consume gate, which rests
on who owns the row, which rests on where each thread can be. So `ProtocolInv` is
`RowInv` (a row has an owner only from a claim to a terminal status, and the call's
one "in-progress" event is in the ledger by then, so that a late duplicate
cannot end a transfer); `ConsumeInv` (a consumed attempt is alone, the row is
unowned and waits for it or has ended); `BridgeInv` (one bridge). What makes the
condition bearable is `CommitEffect`: a commit that does not set `overtaken` writes
what the row under the lock demands, whichever copy it looked at. From `IInv`:
`OneHolderHolds`, `BridgeHoldsTheCallHolds`, `OnlyOwnActorsReleaseHolds`, each until
then. `Refinement` maps every action to `Claim`, `Consume`, `Surrender`, `Connect`,
`HangUp` or a stutter, and the step that overtakes to the one with which
`TransferOwnership` gives up its promise. `BridgeSettlesHolds` and
`EndedForGoodHolds` have no such condition: no step but a `Load` puts a row into a
copy (`Ends`), and what is loaded after the consume, or after the end, is refused by
every gate.

*Ledger.* `IInv` is `TypeOK`; `BookkeeperInv` (a posting or reversal holds its
entry's row lock from its first step and its period's lock from the second read
of the status; under them the entry is still draft, or posted, and the period
still open); `ManagerInv` (whoever closes or reopens a period holds its lock);
`BookInv` (only entries of the book reverse, what they reverse is marked, no two
reverse the same). It is needed because each property is about a check made
steps before the write: `ClosedPeriodFrozen` and `ReversedOnce` hold because
nobody can change what was checked while the lock is held. From `IInv`, every
step keeps the book or adds one entry to it (`BookStep`); hence
`ClosedPeriodFrozenHolds` and `Refinement`. `ReversedOnceHolds` and
`LifecycleHolds` follow from `IInv` too, with any number of editors.
`EntersBalancedHolds` and `EntersMirroredHolds`, with any number of editors too, rest
on `CheckedInv`: what an open transaction checked or read of its entry's lines under
the row lock is still so, since an editor's insert waits for that lock. After the
commit it no longer waits, as `ledger_edited_after_post` shows.

*Receivables.* `NumbersGaplessHolds`, for any number of invoices and calls.
That the numbers in use are `1 .. n` is not inductive: a posting reads the last
number steps before it writes the next. `IInv` is `TypeOK`; `Holds(t)`, by the
kind of call: a posting holds its draft's row lock and, once it has its number,
the number lock, under which that number stays the next; a cancellation holds
the row lock of a posted invoice; an allocation takes no more than it read, so
that no balance gets negative; `Refers` (no allocation of a row that is not
there); and `NumberInv` (numbers are `1 .. n`, an invoice has one exactly when it was
posted, and no two have the same). The refused posting that leaves no gap is
`Rollback`, which changes no row.

*Money* (in `ReceivablesProofs`). The code is not safe against every overlap:
`reverse_allocation()` looks for an earlier reversal before it takes a lock
(`payments.py:527`), and `update_invoice()` writes the total of an invoice that may
have been posted since. So the theorems name the overlaps they exclude, as
properties of the behaviour: `PaymentConservedHolds` holds while no two requests
reverse one allocation at once (`ReversalsApart`), `InvoiceConservedHolds` while
moreover no invoice is edited while it is posted (`EditsApart`). Nothing else is
excluded: any number of allocations, reversals of other allocations, postings and
cancellations overlap. `ApartWhenAlone` shows the hypotheses not to be empty:
where one caller reverses, and one edits and posts, they always hold, as in
`receivables_money`. `Total` counts euro by euro, so that a sum is the cardinality
of a set and needs no induction over the set. `MInv` adds to `IInv` that a request
past its first step holds the document's and then the payment's lock (`Guarded`),
that what it read under them is still so (`Current`), that the id it inserts is
nobody else's (`Fresh`), and that what a reversal takes back is live (`Undoes`):
there alone `ReversalsApart` is needed. `ReversedOnce` is a part of it.
`Refinement`, under `ReversalsApart` too: an allocation reads both balances, and several
steps later writes what it computed from them; because of `Current` that is one
`Give` by the balances of the commit, or one `TakeBack`; a posting is `Bill`, a
cancellation `Cancel`, and everything else a stutter. What a cancelled invoice's column
says is not part of the accounts (it is written again, `CancelledOwesNothing`), nor is
an invoice's total, so that edits may overlap postings here.

*Banking.* `BankedOnceHolds`. `BankInv` says that an import has its statement to
itself (`ImportsApart`), a confirmation its line
(`ConfirmsApart`), that an open line is booked nowhere (`LinesSound`), and that a
ledger account is one bank account's and empty before (`LedgersApart`): without the last,
the first line of an account would start from another's cash. What the session had
read of the document before its lock has no part in it, because `BankedOnce` is about
payments and cash and not about the document's balance.

*WorkflowGraph.* `GraphsAreSoundHolds`, for any number of steps. A path is not
followed step by step: `PathsFrom` is the least set closed under the destinations,
with which the refinement's bounds are one argument about a closed set. The steps
whose visit has ended can be ranked above their destinations (`Ranked`); a run goes down
the ranks and so visits none twice. From below, the refinement never drops
a dominator (`Dominated`), in whatever order it goes; from above, where
nothing changes any more (`Fixed`), the steps that a path reaches without `d` are
a closed set that keeps `d` out. `Walked` carries this to a run: whoever
dominates the step it is at has run.

*WorkflowVersions.* `RunsFollowVersionsHolds`. Inductive is what each request may
rely on at its write (`RequestHolds`): the version it is about to change is there,
a number it is about to give was free when it looked, and one that a starter found
published stays so, because it is pinned before.

*WorkflowDispatch.* `ActsOnceAndSaysSoHolds`. `LoopHolds` ties each thread's loop to
the rows (the run it is in is pending and its own, or went with the workflow);
`RowHolds` ties each run's status to what was done; `Alone` says that two threads
are never in the same run, which is the unique index's doing. A loop is never nested in
another, since what a workflow does publishes nothing that a workflow is started by:
this is proved too, as the length of the stack.

*DurableRun* (in `AutomationProofs`). `RunTellsItsExecutionHolds`, the action part
`SettledOnce` with it. `KeyHeld`: whoever has reserved a step's key and not let go of it
holds it alone, and it is pending; a reservation that lapsed with its worker is taken
anew only where nobody holds one. `SignalsHold`: a signal that has not arrived was received by
no execution, and one that ended a wait is not what a wait has received; a wait forgets what
came before it, and a new execution what its predecessor knew. `WalkHolds`: the row is
terminal from the moment the finish is written, whatever callers write afterwards. The
version is any assignment of kinds and next steps, loops and unreachable steps included.

*Campaign.* `EachRecipientOnceHolds`, for any contacts, page size, crashes and
workers. `OneRun`: what is started once is the work of one process at a time, the
request that committed, the queued job or the worker that took it. `SentAhead`
counts messages against deaths for whoever the run may still get to; `Paged` says
that a paging nobody crossed has found the listing up to its offset.

*Appointments.* `CalendarHoldsAlways`. Bookings rest on the exclusion constraint
(`ConflictIsOverlap`: what it refuses is what the availability query calls
overlapping), changes on the row's lock (`LockHolds`), publication on `ReportDue`.
Reminders are a count of two kinds (`RemindersCounted`): before a row is marked, a message
came from each sweep about to mark it, each that died there and each provider error
after acceptance; afterwards only from sweeps that had read the row before.

*CrmRecords.* `RecordsReferHolds`. A check may be stale when its write happens. What saves the
reference is the foreign key at the write, and, for the pipeline of a stage, that ids
are used once and a deal keeps its pipeline: `Checked` says what is left
of each check, `RecordsGo` what no step undoes.

*Conversations.* `ThreadsHoldHolds`. A delivery between search and insert holds
the lock of its contact and channel, alone, and if it found no thread there still is
none (`Deliver`). Replies are counted against what the provider took (`RepliesSent`).

*Reputation.* `RequestsTellTheMailHolds`. A request is cancelled, or a review
recorded, from a status read earlier, and the mail's outcome then overwrites
what is there. `IInv` adds to the property how far the mail has come
(`MailInv`), that only a request that was mailed has a review (`ReviewInv`), and
that what is answered has been written (`AnswerInv`).

*Reselling.* `SoldWithinCatalogHolds`, the whole composite. `IInv` adds the
types; `OwnersInv` (who owns a plan has a merchant account, and a resale plan has
no owner but its reseller); `QuotaInv`, whose count is over the requests that have
paid, with or without a plan: the count of plans alone is not inductive, because
a request consumes the quota one step before it makes the plan; `OfferSound` and
`PurchaseSound` (how far a request has come says what is there); `SubscriptionsInv`.

*Provisioning* (in `ResellingProofs`). `TenantsAreSetUpHolds`, for the founding of tenants with
and without a release, and for attachments (`ProvisionSpec` picks as the run does). A member's role asks what
the modules ask of it, and each module asks of an owner at least that (`AskedIsGranted`):
so the last check of the role fails only for a permission of a module wired
after the agency was founded. `Founded` and `Invited` say that every handler ran
before an owner was announced or a token consumed. For an attachment, `Reserved` lets one
call at a time hold the agency's reservation, as long as none ran out, and
`Accounted` says that an attached agency is recorded as such, or that a call which
attached it has not answered well.

*AgentActions.* `ToolsRunAsAllowedHolds`, for every set of tools, callers and
proposals and every sequence of policies, permissions and calls (`AnyInput`).
The property speaks of what ran and was allowed; inductive is `AttemptSound`,
that a positive decision was drawn from a policy that allowed it, that what ran
had one, and that nothing ran before it was entered; `WorkSound`, that a proposal
somebody is at work on is `executing`, theirs alone, and has returned exactly if
they are past its return; and `ProposalSound` (one that may still be claimed has not
returned). Each action is then one of five kinds of step, with a lemma each:
a call begins, goes on, enters its tool, answers, or moves its proposal.

*PhoneSession* (in `AgentActionsProofs`). `TurnsAnsweredOnceHolds`, its invariants and the action part
`OverIsOver`, for any number of turns and deliveries. The idempotency record cannot
carry it: it expires, or is left pending, and is then taken again. What keeps a turn to
one run of its tool is the turn's own state, which each step of `TurnHolds` says: a
turn nobody answered has run nothing (`Fresh`), one whose tool runs is with one
delivery and no other (`UnderWay`), and a stored answer stays the turn's (`Stored`).

*BillsAndCredits* (in `LedgerProofs`). `PayablesMatchBooksHolds`, with bills and notes
together, which the run takes one kind at a time. Every write rests on a check made
one or two steps before, so inductive is `RequestSound`: a posting holds a
draft whose lines are still what it read, although an edit may have read that draft
too; its number is still the next; a cancellation holds a posted bill. It lasts because no
two requests hold one document, or the numbers (`RequestsApart`). That the numbers are
`1 .. k` bounds them by the number of notes: who posts has none yet (`NumberFits`).

*PhoneDesk* (in `CallTransferProofs`). `DeskAccountsHolds`, for any number of users,
calls and sweeps. A position is counted before it is written: the count is at most
what there is by then, and the unique index admits the exact one only. The router
chooses among the targets it read under its lock; `InTurn` says that meanwhile nobody
else of its number is given a call, and that targets added since lie beyond what it
holds, so the one it chose has waited longest, which takes the greatest element
of a bounded set of numbers. The sweep deletes what had expired when it read, and what has
expired stays so.

*ContactCapture* (in `CustomersProofs`). `CapturedOnceHolds`. `PhonesInv`: between search and
insert a message holds the lock of its number, alone, and if it found nobody there still is
nobody made by a message. `KeysInv`: a request that inserts a lead has its key to
itself; once a submission is there the key stays succeeded, and its lead is reported or about to be. `CardsInv`: a
card that was never made holds no number, so a new contact blanks none.

*Only model-checked:* liveness (`TransferResolves`, `CallsEnd`, `RunEnds`),
because it needs fairness and ENABLED, which these provers do not reach;
`SchemaFits` and `PurgeErases`, which are computations over the real schema and
complete as they are run.

## 6. Where the code and its documentation disagree

Two runs expect a violation; `findings` in `PROJECT.json` quotes what each refutes.

- `transfer_overtaken` (`RowLockSerializes`): the tests of `calls.py` are made on the
  row as it was found before the lock, though `calls.py:32` has the lock serialize
  concurrent events. In the counterexample a call reported failed is put back to
  `in_progress`. The same way, of two escalations both are granted the claim
  (`calls.py:707`, `ClaimsExclude`), of two deliveries of an answer both bridge
  (`calls.py:762`, `BridgedAtMostOnce`), and a failed leg writes `in_progress` over
  `completed` (`calls.py:608`, `TerminalForever`): each of the three, put in the place
  of `RowLockSerializes` in `MCTransferOvertaken.cfg`, is violated too. It takes two
  transactions that load the row before either commits, in two threads or processes.
- `ledger_edited_after_post` (`PostedBalanced`): `update_journal_entry()` reads the
  status at `accounting/journal.py:377` without a lock, and ADR 0014 promises that
  nothing edits a posted entry.

The following were met while modelling. The modules state most of them as a
definition of their own, named here, which no run checks because the code
violates it; a model follows the code in each.

*Telephony.*
- `transfer.py:29` has every failure return the call to the AI; but the failure's
  event id (`transfer.py:321`) names the request and not the attempt, so a second
  attempt under one request id that fails for the same reason counts as a
  duplicate and the call stays `transferring`.
- `calls.py:63` promises one completion event; a crash or a raising subscriber
  between the commit and `publish()` (`calls.py:679`) loses it and a redelivery
  does not repeat it.
- `active_transfer_attempt_id` is kept after a call ended (`models.py:250` says
  otherwise, `calls.py:529` does it); `RowInv` states what the code does.
- A provider's timeout after it accepted a call marks the row "failed"
  (`calls.py:276`), and a call to an own number whose inbound event comes first
  leaves its row ringing.
- `purge.py:8-11` claims every telephony table; `human_transfer_destinations` is
  in no order (`TelephonyIsErased`).
- `call_action_safety.py`: a retry after a failure raises and leaves its record
  pending, so the third branch of `_outcome_from_stored_result()` is not reached.
- A released number still routes and places calls. Audio stored by a process that
  died before the insert is found by no sweep.

*Accounting.*
- A cancelled invoice is owed again by an allocation that read it before
  (`payments.py:545`, `invoices.py:748`; `CancelledOwesNothing`), or allocated
  while cancelled (`payments.py:369`).
- Two reversals of one allocation both succeed: the search at `payments.py:527`
  precedes the locks (`AllocationReversedOnce`).
- `banking.py:57-61` relies on `payments.py:338-366` to read the document again
  under the lock, but the session answers with its first reading
  (`NeverOverpaid`). `confirm_match()` compares no currencies.
- After its entry was reversed by hand a bill or an invoice cannot be cancelled;
  `update_bill()` and `update_invoice()` may edit the lines of a document posted
  since their check (an invoice then has a total that is not what it owes and was
  paid, and `InvoiceConserved` fails: `receivables_money` lets edits overlap
  allocations, not postings); a credit note may be posted against an invoice cancelled since (`credit_notes.py:469-477`).

*Automation.*
- `durable/models.py:20` says a published version never changes;
  `update_draft()` reads its status without a lock at `definitions.py:284`
  (`PublishedImmutable`).
- `durable/models.py:191` says that no terminal run is submitted; the submitters read
  its status in one transaction and start the execution after it
  (`triggers.py:152`, `runs.py:203`; `SubmittedWhileOpen`).
- `durable/models.py:194`: a cancelled row is overwritten by a run that finishes
  (`CancelledForever`); `runs.py:302`: a run may wait whose submission is not
  recorded (`WaitingWasSubmitted`).

*Customers.*
- `crm/imports.py:144` "never raises", but `one_or_none()` at line 131 does when
  two companies have the name (`ImportNeverAborts`).
- `leads.py:17-24`: a retry may make a second contact (`RetryMakesNoContact`).
- `reviews.py:20-22`: two reviews of one request (`OneReviewPerRequest`).
- `inbox.py:32-34`: an internal note counts as the latest message at lines 97-108
  (`NotesDoNotAnswer`); `needs_reply` looks at the first page of threads only.
- `crm/models.py:27-29` "unlinks", but a bare `ON DELETE SET NULL` over
  `(tenant_id, id)` also clears `tenant_id` and so refuses the deletion.

*Agencies, billing, schema, erasure.*
- `billing/__init__.py:23-39` and `reputation/__init__.py:18-43` describe a wiring
  that `api/main.py` does not have.
- A release that wires a module gives the owners of existing agencies none of its
  permissions: a member's role is then refused with the token consumed.
- A provisioning that dies leaves an active tenant without owner; a second
  `bootstrap_platform_tenant()` makes a second platform tenant; an attachment whose
  reserver failed while another moved is recorded nowhere.
- `create_resale_subscription()` ignores `_is_replay`; the first tenant that pays
  for itself owns the shared platform plan.
- A tenant whose books refer to a contact, or with a review tied to a request,
  is never purged (`crm/purge.py` says contacts go); `scripts/check-migrations.sh`
  expects an older list of tables.

## 7. What is not modelled

- **Receptionist and media stream**: audio frames between two sockets; what
  outlives a frame is in `CallTransfer` and `PhoneSession`. Of the **AI tools**
  the prompts, the parsing of completions and the providers' adapters.
- **Durable infrastructure**: the Temporal connection, its worker's
  registration.
- **White label, reporting, integrations, storage**: one-row writes, queries,
  adapters. **HTTP API, login service, frontend, deployment**: request plumbing;
  which handlers and participants `api/main.py` registers is in `RoleGrants` and
  `TenantPurge`.
- Parts of modelled components: tax codes;
  templates and tracking of marketing (one-row writes and a counter); `sms.py`
  and `whatsapp.py` (the order of steps of the mail reply); the provider
  interface of `calendar_sync.py`; `delegation.py` and `support_access.py`; billing
  parties and commercial subscriptions; `destinations.py`; the idempotency keys
  of accounting calls; currencies.
- `core`, `infra`, `control_plane`, PostgreSQL, Temporal, Twilio and the mail
  provider are modelled from how the product uses them.

## 8. What is left to do

In this order: `DurableRun` against an abstract run that does each step once; a composition
of `Ledger` with a document that posts into it, to show that the period's lock and
the document's cannot wait for each other; larger instances of the four joint runs,
which stay near a million states now.
