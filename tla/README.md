# Formal models of Open Immigration CRM

TLA+ models of the parts of the CRM where several processes work on the same
rows: TLC checks them on small instances, and TLAPS proves their main safety
properties for every value of the constants. `PROJECT.json` lists the components,
runs, findings, hazards and theorems, and maps every definition to the source
lines it models.

## The system

The CRM is a Django application on PostgreSQL. Three kinds of process share the
database and nothing else:

- **web processes** (gunicorn, two workers or more) serve staff, the REST API, the
  MCP server and providers' webhooks. There is no transaction per request; services
  open their own with `transaction.atomic`, at READ COMMITTED, and a few take
  rows with `select_for_update`;
- **`run_worker`** (`crm/connect/management/commands/run_worker.py`): a scheduler
  thread that calls `tick` every minute, and a `django-tasks` database worker that
  takes one task at a time. A task whose worker goes away is not run again;
- **providers**, reached through `connectors/*` and never trusted to report things
  once, in order, or at all.

What is done later goes through the task table: a row is saved, and on commit a
task with its ID is queued. The row and the task are two writes.

### Inventory

| Part (source) | State | Operations | Interacts with | What is hard, and what makes it correct |
|---|---|---|---|---|
| Billing ledger (`crm/billing/services.py`, `models.py`) | invoice status, payments, plans, installments | record and void payments, void invoice, create, sync and cancel plans | views, the API, syncs of payment connectors | some operations lock the invoice and some do not; never overpaid, status agrees with payments, plans agree with invoice |
| Drafts and numbering (`crm/billing/services.py`, `views.py`) | draft lines, billed time, next number | edit, issue, delete, settings | time entries | time billed once, no gaps in the numbers |
| Email reminders (`crm/billing/reminders.py`) | claim and error on each installment | claim on a tick, send, give back | scheduler, policy | emailed at most once, and not after payment |
| Online payments (`crm/billing/links.py`, `records.py`) | payment links, recorded charges | ask for links, record, refund | Stripe, LawPay | reports late, repeated, out of order; what was taken is booked, asked for once |
| Syncs (`crm/connect/scheduler.py`, `tasks.py`) | SyncRun rows, cursors, task table | queue, run, give up as abandoned | scheduler, staff, connectors, record receivers | overlap, crash, early stop; no item passed over, every item arrives |
| Outbound policy (`crm/connect/policy.py`, `http.py`) | OutboundRequest rows | evaluate, send, ask again | every send | check-then-act on the limit and the connection; sent means done |
| Events (`crm/events/`) | EventDelivery rows, task table | emit, create, attempt, retry, settle | model signals, policy, webhook connector | crash between writes, lost answers; settles once, `sent` means arrived |
| Webhook endpoint (`crm/connect/views.py`) | WebhookEvent rows | verify, store, queue, process | providers, receivers | repeats; each event processed once it is acknowledged |
| Connections (`crm/connect/services.py`, `oauth.py`, `pages.py`, `sign_in.py`) | status, credentials, settings, webhooks | test, sign in, refresh, configure, register, disconnect | all sends and syncs | one row written by many with stale copies |
| Communications (`crm/comms/`) | log, delivery status, consent, attachments | store, link, text, save files | syncs, webhooks, policy | updates out of order; no text after opt-out; the reply window |
| Signatures (`crm/signatures/`) | request status, signers, signed document | send, cancel, store updates | policy, webhooks | cancellation racing completion |
| Calendar, meetings, bookings, storage (`crm/appointments.py`, `meetings.py`, `leads.py`, `document_storage.py`) | ExternalRef rows | push, remove, copy, take back, store | signals, tasks, policy | call, then save the reference; no orphans, no doubles |
| Shipments (`crm/shipments/`) | status of each shipment, tasks | check, store, correct | carriers | late readings; a delivery noted once |
| Notices, case status (`crm/notices/`) | readings, reviews, notices, deadlines | store, record, save, delete | USCIS, Work | readings out of order; a deadline follows its notice |
| Workflows (`crm/workflows/`) | phases | apply, finish, skip, remove | work items | one phase in progress |
| Matters, intake, timers (`crm/views.py`, `forms.py`, `models.py`) | records, links, submissions, time entries | forms, links, posts, start and stop | clients, the API | stale forms; a link used once, a moment billed once |
| Sign-in, two-factor, team (`crm/two_factor.py`, `crm/team/`) | accounts, device, codes, links | sign in, check, reset, invite, deactivate | identity provider | replay, lockout with concurrent attempts, whole-row saves |
| AI (`crm/ai/`, `crm/translations/`) | conversations, background runs, memos, suggestions, translations | queue, ask, answer, decide | scheduler, policy | a model's answer comes back to rows that have changed |
| API, MCP (`crm/api/`, `crm/mcp/`) | tokens, switches, request log | authorise, limit, poll, post, patch | web | what is revoked stops; a poll misses nothing |
| Imports (`crm/imports/`) | import, rows | preview, fetch, run, discard, purge | matters, contacts | an import run twice, a person twice |
| Connectors (`connectors/*`) | none of their own | pull, perform, verify, register | `base.py` | cursors: nothing skipped between pages |

## Modules

| Module | Role |
|---|---|
| `InvoiceLedger` | an issued invoice, its payments and plans, with concurrent requests |
| `SyncRuns` | the syncs of one capability of one connection |
| `OutboundPolicy` | the policy's checks and their order, as operators |
| `Outbox` | abstract: what delivering events promises |
| `Announcements` | which saves of a record announce and notify what |
| `EventDelivery` | events to one automation connection; extends `OutboundPolicy`, implements `Outbox` |
| `Connections`, `WebhookSetup` | one connection's credentials and status; its webhook at the provider |
| `StaffSignIn` | staff accounts and the ways in |
| `Communications`, `Messages` | a record in the log; consent to texts; a client's WhatsApp messages |
| `Signatures`, `Meetings`, `Calendars`, `DocumentStorage`, `Shipments` | things at providers and the rows that stand for them |
| `WebhookInbox`, `DueChecks`, `Pulls`, `Bookings` | how things come in |
| `ProviderCalls`, `Reminders`, `OnlinePayments` | how things go out, and what comes back of them |
| `Notices`, `Workflows`, `CaseFile`, `Imports`, `FrontDesk`, `Drafts` | what staff and clients do in the office |
| `Assistant`, `BackgroundAI`, `Translations` | what AI models do for them |
| `ApiAccess`, `ApiSync` | scripts and assistants from outside |
| `PaymentProofs`, `SyncRuns`, `EventDeliveryProofs`, `IntegrationsProofs`, `ConnectProofs`, `ProviderProofs`, `OfficeProofs`, `AIProofs` | theorems |
| `MCInvoiceLedger`, `MCConnect`, `MCIntegrations`, `MCOffice` | instances for TLC |

`MCConnect`, `MCIntegrations` and `MCOffice` each hold several modules that share no state.
The initial state chooses the part that moves; the others rest, so the run is the union of
the parts' state spaces and not their product. Some parts also choose a variant there: the
provider, the carrier, the discipline of a cursor. `SyncRuns` and `Meetings` need no
definitions beside their configurations.

Definitions headed `Slip:` are wrong variants of the definition below them (a missing
check, an off-by-one). They are used nowhere; substituting one shows that a property
notices it.

How the modules are written. A request or task is a record with its step and what it has
read. It takes one step for each stretch between two points where another process can come
in: a query and the write that relies on it, a call to a provider, a commit, a task on
commit. Where the code saves a whole row it read earlier, so does the model; where it saves
some fields, or updates with a condition, so does the model. Ghost variables (`crossed`,
`mixed`, `stale`, `clash`, `mishap`, ...) record that a certain race has happened; a
property then says exactly which race the code leaves open, and that nothing else can break
it. What such a race does is listed under "Races the code leaves open".

### InvoiceLedger

Each request or sync task `req[r]` is a transaction at READ COMMITTED with an explicit
step: it reads what is committed then, holds the rows it has written or locked, and its
writes become visible at once when it commits. `HoldsInvoice`, `HoldsPlan` and
`HoldsPayment` give the locks by how far the holder has come. `record_payment` and
`create_plan` take the invoice with `select_for_update` before they read it;
`void_payment`, `void_invoice` and `cancel_plan` read first and lock by writing.

| Code | Actions |
|---|---|
| `record_payment`, from the form or `store_one` | `BeginRecord`, `AcceptPayment` or `RefusePayment`, `CommitPayment` |
| `void_payment`, from staff or a refund | `BeginVoidPayment`, `ReadForVoid`, `SaveVoidStatus`, `CommitVoidPayment` |
| `void_invoice` | `BeginVoidInvoice`, `CheckNoPayments` or `RefuseVoidInvoice`, `CommitVoidInvoice` |
| `create_plan` / `cancel_plan` | `CreatePlan` / `BeginCancelPlan`, `CommitCancelPlan` |
| `refresh_status`, `schedule`, `split_amount`, `sync_plan` | operators `StatusFor`, `InstallmentPaid`, `InstallmentAmount`, `SyncPlan` |
| deadlock, broken constraint, process exit | `Fail`, `Rollback` |

Two reads share a step only when no other request can tell them apart. `stale` and
`overlapped` are history variables: a request is stale once another has committed after
it read, and `overlapped` says that a stale request has committed. They state exactly
how far the code's consistency goes: until that happens, everything agrees
(`SerialLedger`, `SerialPlan`); what the locks guarantee holds whatever happens
(`NeverOverpaid`, `PaymentsOnlyOnOpenInvoice`).

`paid` stands for the SUM that `Invoice.amount_paid` computes, so that theorems can be
about any number of payments; `LedgerAddsUp` checks that it is that sum. Left out: the
account a payment goes to, due dates, the audit log, and staff who complete a reminder
by hand.

### SyncRuns

`Look`, `Create` and `Enqueue` are the three moments of `queue_due_syncs` or
`start_syncs`: reading the last run, committing a row, and queuing its task on commit.
`Skip`, `Begin`, `Receive`, `Deliver`, `Succeed` and `FailSync` are `run_sync`. The
provider's items are numbered and a cursor is a number. `Receive` may return any prefix
of what is new, which stands for a connector that stops early with a warning. Age is
abstract: `new`, then `due` (the interval has passed), then `stale`
(`STALE_RUN_AFTER`, which no connector's interval exceeds). Rows that no query returns
any more are reused, so that a behaviour may have any number of runs; with two rows and
an abandoned or a finished one always free again, the runs that matter (the last, the
previous one, one given up) can be there together.

### EventDelivery and OutboundPolicy

`Evaluate` returns the code of the first check that holds, in the code's order. In
`EventDelivery`, a web request announces an event (`Emit`), and then creates the row and
queues the task in two steps; a worker takes the task with the connection as it is then
(`Take`), counts and decides (`Decide`), calls (`Accepted`, `NotAccepted`: the receiver
may have taken the event all the same), records the request (`Log`), saves the delivery
(`Save`) and queues a retry (`Requeue`). Retry delays are left out: a retry may come at
any later time. Payloads are left out. `SampleSettings` is TLC's choice of connections.

`Outbox` says what this amounts to: a delivery is pending until it is settled once and
for good, it may arrive any number of times meanwhile, and it is `sent` only if it has
arrived. The mapping sends `queued` and `retrying` to `pending`.

### Announcements

What comes before a delivery: savers open a contact, matter, work item or invoice, and save
their copy, all of it or some fields, once or again, in a transaction (the API, services) or
outside one (pages). The signals compare the copy with what it held when it was loaded, and
mark on the copy what is pending (`EventsOf`, `Merged`); a hook makes the event after the
commit (`RunHook`). The same copy tells a new assignee (`Tells`), except in a hand-over by
`deactivate`, which tells the successor at the end. `happened` keeps what really changed,
which saves were made by a saver that had not seen the last one, and which were cut short:
the code announces by what its copy held, so those may tell of a change that another saver
had made or hidden, and `EventsTold` and `GiftsTold` say that nothing else may. A copy is
not saved again after a rollback, as no page or request does so.

### Connections and sign-ins

| Module | Code | Left out, or simplified |
|---|---|---|
| `Connections` | `access_token` (`LockRow`, `Spend`, `SaveRenewed`, `MarkRefused`), `authorization_url` and `finish` (`StartSignIn`, `ExchangeCode`, `SaveSignIn`), `check_connection` (`CallPasses`, `CallFails`, `SaveTest`), `disconnect`, `enable_webhooks`; `Crash` | a token's age is fresh or expired; a grant is a number |
| `WebhookSetup` | `connection_webhooks` (`Enable`, `MakeHook`, `SaveHook`), `connection_config`, `disconnect`, Microsoft 365's `renew_subscriptions`; one record per provider says what it takes for a webhook | the secret is known or not |
| `StaffSignIn` (provider) | `start`, `callback`, `staff_account` (`OpenLinked`, `MatchAccount`, `LinkAndOpen`) | the signature of the identity token is good or not |
| `StaffSignIn` (second step) | `check_second_factor` under the device's lock, `confirm_device`, recovery codes, `reset_two_factor`, the pages and the middleware | a code is its time step |
| `StaffSignIn` (team) | `invite`, `deactivate` (`LookForWork`, `HandOver`), `reactivate`, `person_detail`, `profile`, the password links | what an account may see |

### Providers' things and the CRM's rows

| Module | Code | Left out, or simplified |
|---|---|---|
| `Communications` (log) | `store_one`, `keep_stored_values`, `contact_saved` and `link_unmatched`, `send_text` and `log_sent`, links by hand | the body, numbers other than the record's |
| `Communications` (consent) | `store_one`'s words, `set_texting_opt_out`, `contact_update`'s full save, `send_text` with `texting_opted_out` | |
| `Messages` | WhatsApp's `handle_webhook`, `fetch_media`, `keep_attachments`, `can_text_freely`, `send_template`, `save_to_matter`, `communication_delete` | bodies; template texts |
| `Signatures` | `send` and its row, `cancel` and `finish`, Documenso's events and `store` | |
| `Meetings` | `push_meeting` (`BeginPush`, `DropStale`, `CallProvider`, `EndPush`), `appointment_saved`, `appointment_deleted`, the form | one pusher at a time in the run |
| `Calendars` | `push_appointment`, `remove_event`, `sync_calendar` and `store_event`, `appointment_saved` and `appointment_deleted` | attendees; an etag is a number |
| `DocumentStorage` | `matter_folder`, `copy`, `rename_folder`, `trash_copy`, `copy_pending`, the signals that queue them | contents; chunks |
| `Shipments` | `record_reading`, the carriers' `status_of`, the form | deleting a shipment |

### In and out

| Module | Code | Left out, or simplified |
|---|---|---|
| `WebhookInbox` | `receive_webhook` and `process_webhook_event` | a signature is good or not |
| `DueChecks` | `receipts_to_check`, `shipments_to_check`, the `sync` of USCIS, UPS, USPS, FedEx; their `access_token` and what is sent again under a new one | what a reading says |
| `Pulls` | the cursors of Gmail, Graph and Google Calendar, IMAP, Twilio and Dialpad, LawPay | pages within one sync; `SyncRuns` has the runs |
| `Bookings` | Calendly's and Cal.com's events, `store_booking`, `save_appointment`, `store_lead`, `match_contact` | one person |
| `OnlinePayments` | `amounts_due`, `links_needed`, `create_links`, Stripe's and LawPay's events and syncs, `store_one` | one charge in the run; the theorem is about any number |
| `ProviderCalls` | `policy.send` with `ProviderClient.request`; a record per provider gives method, retries, idempotency key | pauses |
| `Reminders` | `queue_due`, `send_reminder`, `send_system_email` | the text |

### The office

| Module | Code | Left out, or simplified |
|---|---|---|
| `Notices` | `store_reading`, `request_review`, `status_record`; `save_notice`, `sync_item`, `delete_notice`, changes in Work | `apply_to_matter` |
| `Workflows` | `apply_workflow`, `finish_phase` (`LockPhase`, `FinishPhase`), `remove_workflow` (three steps) | templates |
| `CaseFile` | `matter_update`, `work_update`, `work_toggle`, the API's PATCH (`check_form`), MCP's `complete_work_item`; `next_matter_number` (`LockProfile`, `TakeNumber`), `matter_create`, `firm_settings` | columns nothing depends on are one; the prefix of a number |
| `Drafts` | `add_line`, `add_time_to_invoice`, `issue_invoice`, `delete_draft`, `invoice_notes`, `billing_settings` | amounts |
| `Imports` | Clio's `sync` list by list, `build_import`, `Planner.plan_row` row by row, `run_import` with `add_parties`, `import_discard`, `purge_uploads` | formats; rows past `MAX_ROWS` |
| `FrontDesk` (intake) | the form's editing (with `slugify`'s keys), links, `public_intake`, reviews | answers |
| `FrontDesk` (timers) | `timer_start`, `timer_stop`, `time_entry_delete`; `first_run_setup` | billing of the time |
| `Assistant` | `respond`, `answer`, `decide`, `conversation_send`, `conversation_decide`, `is_working` | which tools |
| `BackgroundAI` (suggestions) | `run_is_due`, `queue_due`, `run_background`, `last_cursor`, `new_communications`, `suggest_for`, accept and dismiss | text |
| `BackgroundAI` (memos) | `needs_memo`, `prepare`, `prepare_memo`, `consult_memo_prepare` | text |
| `Translations` | `run`, `save` (a deletion and a creation), DeepL's `batches`, the AI translation's one call | a text is its size |
| `ApiAccess` | `authenticate`, `require_scope`, `check_hourly_limit`, `mark_used`, token pages; MCP's sign-in, `handle`, `call_tool` | arguments |
| `ApiSync` | `since`, `paginate`, a full save; `communications` with an external ID | serialisation |

## What the runs show

| Run | Instance | Result |
|---|---|---|
| `invoice_ledger` | 2 requests, payments of 1, 2 and 1 cents on 3, 2 plans of 2 installments | holds (0.6 million states) |
| `requests_finish` | 2 requests, 2 payments, 2 plans, strong fairness | holds |
| `void_race` | as above | violated: a payment stays live on a void invoice |
| `part_paid_plan` | as above | violated: all installments done, invoice not paid |
| `sync_runs` | 2 run rows, scheduler and one staff member, 2 workers, 2 items, 1 crash | holds (0.3 million states) |
| `two_starts` | as above | violated: two syncs under way |
| `event_delivery` | 2 events, 2 workers, limit 1, 3 attempts, 1 crash, connection ready, in preview or disconnected | holds (65 thousand states) |
| `lost_delivery` | 1 event, 1 worker, 1 crash | violated: a delivery nobody takes up |
| `connect_parts` | 14 parts, each with 2 processes | holds (1.3 million states) |
| `integrations` | 8 parts, with fairness | holds (0.2 million states) |
| `office_parts` | 21 parts, each with 2 processes | holds (1.6 million states) |
| `pasted_link` | 1 pusher, 1 meeting | violated: a pasted link is replaced |

The properties of the three larger runs each join those of several parts; the parts' own
modules state them, under these names:

| Property | Says |
|---|---|
| `RequestAsSigned` | `FiledOnceSigned`, `OutcomeKnown`: a signature request ends as its envelope did |
| `SignInsKept` | `CodesWorkOnce`, `OneAccountEach` |
| `ProvidersMatch` | `MeetingMatches`, `CopiesMatch`, `HooksInOrder`, `MessagesInOrder`, `CalendarsMatch`: what is at providers and what the CRM knows of it agree |
| `CredentialsInOrder` | `CredentialsMatchStatus`, `SpentOnce`: a refresh token is spent once |
| `ConsentKept` | `ConsentFollowsWishes`, `NoTextAfterOptOut` |
| `LogInOrder` | `WaitsOnlyIfUnclear`, `StatusMovesForward` |
| `TeamInOrder` | `AccountInOrder`, `BackIfReactivated` |
| `ReportsInOrder` | `ReadingsKept`, `MovesExplained` |
| `NothingPassedOver` | no connector's cursor passes what has not been read |
| `BookedAsMeant` | `AppointmentAsBooked`, `OneContactEach` |
| `PaidOnlineKept` | `TakenIsBooked`, `DueIsBalance`, `OneLinkEach` |
| `SentAsRecorded` | `DoneAsRecorded`, `RemindersInOrder`, `StaleTokenRenewed`: a lookup fails only under a token granted for it |
| `InboxKeeps` | `HandledOnce`, `AckedIsKept`: an event is handed out once and kept until then |
| `NothingWaitsForEver` | `InboxSettles` and `NobodyStarves`, under fairness: events are settled, and a number that stays tracked is checked again and again |
| `OfficeIsTold` | `ChangesReviewed`, `DeadlineFollowsNotice`, `EventsTold`, `GiftsTold` |
| `WorkflowInOrder`, `InvoicesInOrder`, `ImportedOnce`, `InStepBothWays` | one phase in progress; numbers without gaps; every person and matter once, a matter with the client and the other contacts the fetch had read, as far as one contact has an email and phone; polls and posts |
| `AIInOrder` | `ActsAsDecided`, `SuggestionsInOrder`, `MemosKept`, `TranslationsKept` |
| `FrontDeskInOrder` | `IntakeInOrder`, `TimeCountedOnce`, `OneFirstAdmin` |
| `FileAsLeft`, `AccessKept` | no writer undoes what it did not see, and `NumbersFit`: the sequence never falls behind the matters stored, unless one of the races below set it back; access ends when staff end it |

Bounds. Two requests are enough for every race in the ledger, since each conflict is
between two transactions; three payments let the invoice be part paid, paid and
overpaid, and the second plan lets a plan be made after a canceled one. Two items
separate "skipped" from "not yet"; two workers let runs overlap. With two workers and a
limit of one, the limit can be passed by one, and `recent` may start anywhere up to the
limit, so that the last hour's earlier sends count. `MaxAttempts` is 3 rather
than 7: first, middle and last attempts are what differ. `MaxCrashes` bounds how many
processes go away. In the larger runs, two processes are what a race takes, and the
counters (`MaxGrants`, `MaxHooks`, `MaxEvents`, `MaxReadings`, `MaxEdits`, ...) leave room
for one thing, its replacement, and one more change while either is under way. Limits the
code sets high (`BATCH_SIZE` 300, `KEEP_RUNS` 50, `MAX_FAILURES` 3) are one or two, so that
reaching them is an ordinary case. The larger runs follow a behaviour no further once a ghost variable says that nothing more
is claimed of it (`StillClaimed` of `MCConnect`, `beside` in `MCOffice`); the theorems are
about the parts without that cut. `Meetings` and `Calendars` have one pushing task, with
any number of pushes one after the other; two tasks at once break both, as listed below.
Deadlock checking is off where the system may stop: all payments are
made, or all events settled. TLC's own deadlock check is not what shows that requests
do not block each other; `RequestsFinish` is.

Fairness. A request that waits for a row is served in the order of PostgreSQL's lock
queue, and deadlocks are broken, so `Proceed(r)` is strongly fair; nobody has to start a
request. The scheduler thread ticks for ever and survives exceptions, and workers loop,
so their steps are weakly fair; time passes; and a connector is assumed to answer in
full again and again (strong fairness of `Receive(w, published)`), since with a provider
that always fails nothing arrives. A staff member need never act. In `WebhookInbox`, a
request that has committed runs on and workers take tasks and finish them, except that a
process may go away; the provider need not repeat anything. In `DueChecks`, the scheduler
starts checks and a check goes on (weak fairness), a number that is asked about again and
again is answered for or refused again and again (strong fairness: a check may fail as a
whole, for want of a token, but not each time), and a number becomes due as time passes.
The properties of `connect_parts` and `office_parts` are safety properties and assume no
fairness.

## Findings

- **void_race**: `void_invoice` checks for payments without the invoice's lock
  (`services.py:181`), against its docstring.
- **part_paid_plan**: a plan made for a partly paid invoice splits the remaining balance,
  but `schedule` applies all that was ever paid (`models.py:321`): installments read as
  paid that nobody has paid.
- **two_starts**: `start_syncs` promises no second sync while one is under way, but
  looking and creating are separate statements. `NothingSkipped` and
  `EveryItemArrives` hold all the same, so the cost is repeated work.
- **lost_delivery**: a delivery is said to be retried until it settles, but one whose
  process goes away between its two writes is not.
- **pasted_link**: `meetings.py:8` says that a link staff pasted is never replaced; one
  pasted on an appointment that has a meeting already is, by `set_link` (`meetings.py:107`,
  `131`).

### Races the code leaves open

These were met while modelling. Each is what a ghost variable of its module excuses, or
what the module's comment excludes; none has a run of its own.

*Docs that promise more than the code keeps*
- `ai/suggestions.py` says that nothing is skipped, but pruning to `KEEP_RUNS` failed runs
  can delete the last successful run's cursor, after which two days are looked at; and a
  communication linked to a contact after a run has passed its time is never reviewed
  (`BackgroundAI`, `excused`).
- `billing/reminders.py:6` says that nothing is sent once the due date has passed, but
  `send_reminder` does not look at the date again.
- `docs/SPREADSHEET_IMPORT.md:31` says that a row whose email and phone match two contacts
  is skipped. `plan_row` looks for two only when no row before it has the row's email or
  phone (`spreadsheet.py:540`): where another row has added a contact with its email and
  a contact of the CRM has its phone, its matter goes to the former. Two matters of one
  client of the other system may so come to two contacts (`Imports`, `OneHas`).
- `docs/API.md:89`: polling with `updated_since` misses what commits late, what another
  table changed, and what moves from one page to another (`ApiSync`, `missed`).
  `docs/API.md:107`: a post repeated while the first is still being stored makes a copy
  (`resent`). `docs/API.md:94`: a PATCH saves every column as it read it (`CaseFile`,
  `retaken`).
- `document_storage.py:9`: documents that can never be copied stay first in `pending` and
  hold up the rest.

*Stale copies of a row*
- A refused refresh, a test, a webhook set-up or a changed setting saves over a sign-in or
  disconnection it did not see (`Connections`, `revived`, `lost`; `WebhookSetup`, `crossed`);
  a Graph renewal can cross a registration; Dialpad's webhook stays when its subscriptions
  fail; webhooks can be set up from an old page of a disconnected connection.
- Forms save whole rows: contacts (with consent), billing settings (with the next number),
  firm settings (`crm/views.py:1186`), staff accounts, API switches.
- `confirm_device` does not look again whether a device was confirmed meanwhile
  (`StaffSignIn`, `redone`).
- A hand link loses to a record stored again (`comms/records.py:120`), a status that comes
  before its text is logged is lost (`texting.py:116`), and texting templates are read from
  a copy up to five minutes old (`texting.py:44`).
- A matter whose year was read before it waited for the profile's lock (`models.py:217`), at
  New Year, sets the sequence back to the old year's, as firm settings saved from an old page
  do: later matters get numbers that are taken, and are refused until the sequence has
  passed them (`CaseFile`, `upset`).

- LawPay's events may be read again after a later one was handled: a payment that there was
  no room for, of which staff were told, is recorded if there is room by then, although it
  has been refunded meanwhile (`connectors/lawpay/__init__.py:258`, `records.py:61`;
  `TakenIsBooked` excuses what staff were told of). It takes two charges.

*Two at once*
- Two pushes of one appointment make two events or meetings; two copies of one document
  make two files; two requests for payment links make two, and links that are replaced stay
  open at Stripe.
- Two saves of a translation leave two rows; one cut off between its deletion and its
  creation leaves none; a late answer for an older text replaces a newer one.
- Two `timer_start`s, or two `first_run_setup`s, at once end in an error of the database,
  which keeps the rows right; a stop that read an entry before a start stopped it
  overwrites its end.
- Two readings of one receipt number stored at once may both make a review task.
- `oauth.post_form` and the HTTP client ask again over a lost answer, also where the
  request is not idempotent: a refresh token or an email may be used twice.

*Calls and rows that come apart*
- A crash between a provider's answer and the saved reference leaves an event, copy, folder,
  envelope or link that nothing points to. The results of `remove_event` and `trash_copy`
  are ignored and the reference is dropped.
- An appointment that is deleted or unassigned while its first push is in hand leaves an
  event nothing points to, and a later sync gives it back to the former owner. A sync that
  stores an old reading reverts staff's time; one that reads an event a push is removing
  leaves the appointment without one. An appointment linked to an owner's event and the
  CRM's follows whichever is read last; edits of a finished one are undone by a sync.
- An old title renames a folder back.
- A client's file is lost if handling breaks between the log and the file; a repeat adds
  another "could not be fetched"; a document saved from a message that is being deleted has
  no activity.
- An intake form edited under an open page loses the answers to changed questions; links of
  a form no longer offered still work.
- A `BackgroundRun` row that was pruned while it ran is put in again by `run.save()`.

## What is proved

For any number of requests, payments, plans, runs, workers, items, events, records and
settings, under the named `ASSUME`s on the constants. The proof modules extend the MC
modules, so that a theorem can name a property as the runs check it: a theorem about a part
(`InboxSpec => []HandledOnce`) and, where the property of the composition joins several,
one about `Spec`, which follows since every step of `Spec` is a step of one part and leaves
the others' variables alone.

**PaymentProofs**, the invoice ledger: `TypeCorrect`; `Overpayment` (`NeverOverpaid`);
`OpenInvoiceOnly` (`PaymentsOnlyOnOpenInvoice`); `LedgerSettles` (`SerialLedger`);
`PlansFollow` (`SerialPlan`). `NeverOverpaid` alone is not inductive. The invariant adds what a request
that has accepted a payment knows while it holds the invoice's lock: the payment still fits
and is not there yet, and only one request holds the lock. Voiding only lowers what is
paid, so it cannot break this. For `SerialLedger` and `SerialPlan` the invariant adds that
a request that is not stale has read what is still so, and that its writes go with that.
`TotalKept` (`LedgerAddsUp`): a payment becomes live once and ceases to be live once, so the
stored total is the sum of the live ones.

What clients pay online: `PaidOnlineStays` (`PaidOnlineKept`). Which of a charge's events
were handled says what is recorded of it; the events are numbered as they came; what the
live payments and those by hand add up to is at most the invoice; what a request is about
to ask for no link asks for, unless two asked at once.

Both rest on lemmas about sums (`SumAdd`, `SumWithout`): a sum over a finite set, which
`MapThenSumSet` computes by a recursive function chosen by `CHOOSE`, grows by what a new
element gives and shrinks by what one that leaves it gave. The prover cannot be given an
induction rule, whose parameter is an operator; the lemmas argue by the least number at
which they would fail (`LeastOf`).

**SyncRuns**, at its end: `SyncTypes`; `NoItemSkipped` (`NothingSkipped`). The invariant says
of every worker, abandoned or not, that all items up to the one it delivers next have
been received. So whichever run finishes last, its cursor is safe.

**EventDeliveryProofs**: of the policy, `AnswersWithCode` and `AllowsOnlyWhatPasses`: what
it allows has passed every check. The first check that holds exists because the naturals
are well-founded. Of the deliveries, `TypeCorrect`, whose invariant says that each delivery
is in one place at most (its request, the queue, one worker), is pending while it is there,
and has a retry left; `LimitOvershoot`, whose invariant counts sends under way like rows;
`PromiseKept`: the refinement of `Outbox`, step by step.

**IntegrationsProofs**, what comes in and goes out:

| Theorem | Property | What the inductive invariant adds |
|---|---|---|
| `InboxKept` | `InboxKeeps` | where a webhook event's task can be: about to be queued, waiting, with a worker or tried, and in one of these at most; the payload is kept until an attempt has processed it |
| `RemindersKept` | `RemindersInOrder` | a reminder has a task only before it was emailed: the claim outlives the task |
| `CallsKept` | `DoneAsRecorded` | what was made for the call under way went unheard, once for each attempt at most; every thing made has the key of its own call |
| `TokensKept` | `StaleTokenRenewed` | a refused token is asked for anew once, and the repeat goes out under the new one |
| `PullsKept` | `NothingPassedOver` | the cursor, and the position a sync under way will leave in it, leave out nothing that is not stored or given up; what that means depends on the discipline (`Passed`) |
| `BookedKept` | `BookedAsMeant` | the events so far tell which booking is in force after each; while they are handled in order, just that one is open, so that the event that replaces or cancels it finds it, and what its task has read is still so |
| `SentAsRecordedKept` | `SentAsRecorded` | those of the reminders, the calls and the tokens together, in the composition |

**ConnectProofs**, connections and accounts:

| Theorem | Property | What the inductive invariant adds |
|---|---|---|
| `CredentialsKept` | `CredentialsInOrder` | one request holds the row; a copy says of the row only what a holder has read; a new token is nobody else's until it is saved, and the token in the row is spent only while its successor is about to be saved |
| `WishesKept` | `ConsentKept` | while one handler is at work the flag is as it read it |
| `LogKept` | `LogInOrder` | what a task read of a record that was not there has no status, and whose calls are being linked has the number |
| `SignedAsKept` | `RequestAsSigned` | where the news of an envelope's end is until the request shows it: in an event not handled, or a report not stored |
| `CodesKept`, `AccountsKept`, `SignInsKeptAll` | `SignInsKept` | where used codes are kept: under the device's counter, or out of the spare ones; an account is opened with its link only |
| `AccountsAsLeft` | `TeamInOrder` | while no request saved over a row that had changed, the account has the newest password hash, so that an older invitation is dead |
| `MessagesStay` | `MessagesInOrder` (a part of `ProvidersMatch`) | who still has to keep a file: a task that did not find the message stored, and only one of these unless two did not at once |
| `HooksStayInOrder` | `HooksInOrder` (a part of `ProvidersMatch`) | work that nothing crossed is alone, so that the row is as it read it, and what it has removed and made so far is all that changed |
| `ReadingsStored` | `ReadingsKept` (a part of `ReportsInOrder`) | arrivals noted are at most the forms opened again, and one more if the row is settled |

**ProviderProofs**, what the CRM keeps at providers; it extends `ConnectProofs`:

| Theorem | Property | What the inductive invariant adds |
|---|---|---|
| `MeetingsStay` | `MeetingMatches` (a part of `ProvidersMatch`) | while there was no mishap one push at most is in hand, and what it has made, linked or dropped is all that links and providers differ by; nothing waits to be removed while there is an appointment |
| `CopiesStay` | `CopiesMatch` (a part of `ProvidersMatch`) | each copy not in the trash is linked, waits to be trashed or is in the hand of the task that made it; the folder has the name its link says, or one that a task about to note it gave it |
| `CalendarsStay` | `CalendarsMatch` (a part of `ProvidersMatch`) | while nothing slipped one push at most is in hand, and each live event of the CRM's is linked, waits to be taken off or was just put there; appointment and event agree, or a push waits, a report comes or an owner's change went astray |
| `MovesStayExplained` | `MovesExplained` (a part of `ReportsInOrder`) | the linked events that are as the CRM put them show what was last saved or pushed, so that only an owner's change moves the appointment |
| `ProvidersKept`, `ReportsKept` | `ProvidersMatch`, `ReportsInOrder` | the invariants of the parts together: the part that moves takes its step and the others rest |
| `TypesKept` | `TypeOK` of `MCConnect` | the bounds of each part beside what is proved of it above (`ConsentTyped` to `CalendarsTyped`): an envelope has had one event for each signature and one for each end, no request of the team's has read a hash still to come, a task copies a batch at most |

**OfficeProofs**, the office:

| Theorem | Property | What the inductive invariant adds |
|---|---|---|
| `WorkflowKept` | `WorkflowInOrder` | the phase whose row is locked is the one in progress, the holder is alone, and a removal under way has found every open deadline unless a phase was finished meanwhile |
| `InvoicesKept` | `InvoicesInOrder` | while nothing was saved over, exactly the issued invoices have numbers, each its own and none above the counter; who deletes has read a draft |
| `FileKept` | `FileAsLeft` | a request that does not name a field will save it as it read it; who holds the profile's figure is alone, and what was taken by itself is not after the sequence |
| `FrontDeskKept` | `FrontDeskInOrder` | what a client posted waits to be accepted as the form read it; every entry that runs was begun last, but for those a stop overran |
| `AccessStays` | `AccessKept` | a request that is late gets no further than its sign-in; rows and requests that were let in are together fewer than the limit and the callers |
| `ChangesTold` | `ChangesReviewed` | unless readings crossed, one worker stores one, and what it read before is still so |
| `DeadlinesKept` | `DeadlineFollowsNotice` | no item is there that was not made yet |
| `ChangesAnnounced` | `EventsTold`, `GiftsTold` | an open copy knows what the row holds or is older; what is to be told has been, or is lost with its process, or is with a request that will tell it |
| `OfficeTold` | `OfficeIsTold` | the three above, in the composition |
| `ImportsKept` | `ImportedOnce` | what a plan and the CRM hold together has people with numbers of their own and no common email or phone, one matter of each number, and clients linked to, and fetched matters of, somebody with the client's email or phone; a client without any keeps the first contact; the clients of an import's rows are linked, or two contacts have their keys; one fetch at most waits to be confirmed. Files, fetches and a changing system are mixed here, which the run keeps apart. `PlanOf` is a recursive function: that each row keeps this is shown along the rows, by the least row at which it would not (`PlansExist`, `PlanRowKeeps`, `PlanOfRight`) |

**AIProofs**, the AI features and the two-way copy:

| Theorem | Property | What the inductive invariant adds |
|---|---|---|
| `SuggestionsStay` | `NothingUnreviewed`, `OffersInOrder` | all that was logged before a run's cursor is dealt with; a run under way has read all up to where it will end |
| `TranslationsStay` | `TranslatedInOrder` | the answers a request has and the texts it still has to send make up the texts it read, in order; a language no save was cut short in has one translation; one that no two requests were for has the newest |
| `MemosStay` | `MemosKept` | while no two drafts met, the draft under way began from the memo as it still is, and from records as new as any |
| `DecisionsKept` | `DecidedOnce` | the conversation is in one hand: a request that will send, a task queued, a task in its turn, or requests that each decide a change of their own; a call that is asked is still to be answered by the task in its turn |
| `AIKeepsOrder` | `AIInOrder` | the four above, in the composition |
| `StaysInStep` | `InStepBothWays` | a poll has given the other system what lies before its offset. A record's place in the list is the number of those before it, and it falls by one at most when another record is saved (`OnePulled`), which is why one re-read page is enough and a push between pages is not |

What a theorem says of a record that several write is always up to the races the code
leaves open; the ghost variables that say so are in the property, not in the assumptions.
The assumptions are about constants only, and the code gives each: a question has a label
and there are two different ones that staff may ask (`IntakeAssumption`), the callers of the API are finitely many (`ApiAccessAssumption`), the rows of a list are finite
and numbered from 1 (`ApiSyncAssumption`), another system has finitely many contacts and
matters, whose numbers are not receipt numbers, and the CRM may hold a contact at least
(`ImportsAssumption`), a document is sent to one signer at least and to no more than
`MAX_SIGNERS` (`SignaturesAssumption`), and the values that stand for "no reading" and
"no date" are not readings or dates (`CaseStatusAssumption`, `NoticesAssumption`).

Only model-checked:

- the liveness properties (`RequestsFinish`, `EveryItemArrives`, `SettlesUnlessCrashed`, and
  `InboxSettles` and `NobodyStarves` of `NothingWaitsForEver`): liveness under fairness is
  beyond the prover;
- `TypeOK` of `MCIntegrations`, whose part `DueChecks` takes the oldest of a filtered
  sequence;
- `TypeOK` of `MCOffice`, whose bounds on counters and sequences come from the guards that
  keep TLC's instance small (the theorems above include the types of the parts they are
  about, in their invariants).

## Not modelled

Forms, templates, reports, search, research, custom fields and the settings
pages have no protocol of their own: a request reads or saves one row. So do the AI
providers, research services and website forms among the connectors; the other adapters'
formatting of requests and answers is left out, and so is the authenticity of signatures
and tokens beyond being good or not. Events of records that
are only ever created (payments, notes, submissions) and the emails of notifications are
not in `Announcements`. PostgreSQL, `django-tasks`, django-axes, the providers and
the receivers are external and appear as the code relies on them: row locks,
READ COMMITTED visibility, unique constraints, a task table without retries, and calls
whose answers may be lost. Each component is listed in `PROJECT.json` with what of it is
left out.

## Plan

1. Proofs: the bounds in the types of the parts of the office, and with them `TypeOK` of
   `MCOffice`.
2. That a webhook inbox and a sync both implement an abstract channel that brings each
   record at least once.
3. MCP client connections.

## Running

    tlc -workers 2 -config MCInvoiceLedger.cfg MCInvoiceLedger
    tlc -workers 2 -config MCConnect.cfg MCConnect
    tlapm PaymentProofs.tla
    tlapm OfficeProofs.tla

Every run of `PROJECT.json` names its module and configuration.
