# PUDA workflow engine: TLA+ models and proofs

This directory is a verification project for the e-governance back end in
`src/apps/api`: citizens submit applications for a service, officers move them
through the stages of the service's *pack* until they are approved or rejected,
and the decision is closed with an output document. The models describe what
the TypeScript code does to its PostgreSQL tables, with the interleavings and
failures that its transactions leave open.

Contents: [Inventory](#inventory) · [Plan](#plan) · [Modules](#modules-and-their-correspondence-to-the-code) ·
[Runs](#runs) · [Findings](#findings) · [Proofs](#proofs) · [Not modelled](#what-is-not-modelled)

## Inventory

All paths are relative to `src/apps/api/src` unless they start with `src/`.
The API is a Fastify server; its only shared state is PostgreSQL (READ
COMMITTED, pool of `db.ts`) plus an object store. Every HTTP request is a
process: between two of its statements or transactions any other request runs.

| Component | State it keeps | Operations | Talks to | What is hard | What makes it correct |
|---|---|---|---|---|---|
| **Workflow engine** `workflow.ts` | `application.state_id`, `data_jsonb.statusHistory`, SLA columns, `audit_event`, outbox of notifications | `executeTransition` (lock row, guards, update, actions, safety net, complete officer's tasks, audit, notify after commit) | tasks, queries, decisions, inspections, notices, notifications | two requests transition the same row; packs that omit an action; actions declared "non-blocking" in the same transaction | a state that needs a task has one; one decision; history and audit agree; stages in the pack's order |
| **Tasks** `tasks.ts`, `routes/task.routes.ts` | `task` rows (PENDING, IN_PROGRESS, COMPLETED, assignee) | `assignTask`, `takeActionOnTask`, post-decision output and closing transition | engine, outputs, documents | the task is read without a lock and acted on later; claim race; output and close run after commit | no task is taken from its holder; only a holder decides; a decided application is closed |
| **Applications** `applications.ts` | `application` row with `row_version`, `data_jsonb`, `submission_snapshot` | create, save draft, submit, respond to query, list, search | engine, documents, fees | optimistic concurrency; validation before the transaction; answer to a query reads before it locks | no lost draft; what is submitted was validated; answer leaves exactly one re-review task |
| **Decisions, outputs** `decisions.ts`, `outputs.ts` | `decision`, `output` | `createDecision`, `generateOutput` | documents, storage, PDF | fallible steps after commit; a download of the no-due certificate generates too | one output at most of a decision, saying what was decided; a download generates only when there is none |
| **Service packs** `src/service-packs/*`, `service-packs.ts`, `service-version.ts` | JSON transitions, forms, fees, document rules | load, publish a version, resolve the version of an application | engine | thirty hand-written packs | every stage has its decisions; the safety net covers a missing ASSIGN_NEXT_TASK |
| **Documents** `documents.ts`, `storage.ts` | `document` versions with `is_current`, `citizen_document`, blobs | upload, re-upload, verify, issue, reuse | storage, ClamAV hook | max(version)+1 without a lock; blob and row written separately | versions distinct, one current, every row has its blob |
| **Fees, payments, refunds** `fees.ts`, `payments.ts`, `routes/fee-*.ts`, `providers/payment-gateway.ts` | `fee_line_item`, `fee_demand`, `payment`, `refund_request` | assess, demand, waive, initiate, gateway callback, record cash, refund | gateway | callbacks repeated, late or reordered; a waiver meets a payment in flight; idempotency by gateway id | demand paid = credited payments; no double credit; refunds within what was paid |
| **NDC ledger** `ndc-payment-status.ts` | dues and payments inside `property.data` JSON | compute dues, post payment | payments | read–modify–write of JSON | no posting lost |
| **Inspections** `inspections.ts` | `inspection.status` | schedule, complete, cancel | engine | status guards read before UPDATE | terminal statuses stay terminal |
| **Complaints** `complaints.ts` | `complaint.status`, evidence | file, add evidence, update status | storage | unconditional UPDATE; count before INSERT | closed stays closed; evidence cap |
| **Notices, notifications** `notices.ts`, `notifications.ts`, `notification-log.ts`, `transports/` | `notification`, `notification_log`, `notice_letter` | send on events | SMTP, SMS | sent after COMMIT; failures reported as failures of a committed transition | a committed transition is not reported as failed |
| **SLA** `sla.ts`, `sla-checker.ts` | due dates, breach marks | compute due date over the holiday calendar, periodic scan | engine, notifications | overlapping scans on several instances | one breach event per task |
| **Audit chain** `audit-chain.ts`, `src/apps/api/migrations/017…020` | `audit_event.event_hash`, `prev_event_hash` | insert trigger, verify | everything | concurrent inserts read the same tail | chain is linear, verification accepts it |
| **Authentication** `auth.ts`, `routes/auth.routes.ts` | users, OTP rows, reset tokens | login, OTP send/verify, reset, Aadhaar | SMS | attempts counted by separate statements | an OTP is accepted once; the limit holds |
| **Step-up MFA** `mfa-stepup.ts` | `mfa_challenge` | create, verify, assert | task routes | read, compare, consume | a challenge is consumed once |
| **Token revocation** `token-security.ts`, `middleware/auth.ts` | denylist, per-user cutoff, cached postings (30 s) | revoke, check | every route | stale caches | a revoked token is refused from then on |
| **HTTP client** `http-client.ts` | in-memory circuit breaker | request with retry | gateway, providers | half-open probes; retries of non-idempotent calls | opens after N failures, closes after a success |
| **Pool** `db.ts` | connections | query, transaction | everything | a transaction that asks for a second connection | the pool cannot deadlock |
| **Profile** `profile.ts`, `routes/profile.routes.ts` | `profile_jsonb` of the user row | patch sections, verify Aadhaar, verify PAN | eKYC and PAN adapters | a request is several UPDATEs that fail separately; tabs overlap | a verified flag stands for something a service confirmed |
| **Properties** `properties.ts` | `property`, `application_property` | find or insert by UPN, link, check for duplicates | applications | statements without a transaction, and again inside the submission; unique index on the UPN | what was submitted is linked to its property; a duplicate is reported |
| **Feature flags** `feature-flags.ts` | cache per instance, Redis, row | evaluate, update | — | two caches one behind the other | a replaced definition is forgotten in time |
| **Citizen's front end** `src/apps/citizen`, `src/packages/shared` | React state, localStorage | open, edit, save, submit, reload; pages of a new application, of one application, of the locker, the profile, complaints | applications, documents, payments, profile, complaints | answers late, lost or reordered; copies of one row loaded separately; forms shared by reference; offline | no unseen edit overwritten; what was typed is what is sent; what is paid is what is shown |
| **Officer's front end** `src/apps/officer` | React state, cached inbox | list, open, claim, preview, act, go back | tasks, documents | the same, with overlapping clicks | what is shown is what its title names |
| **Dashboard** `src/apps/citizen/src/Dashboard.tsx`, `cache.ts` | shown parts of the page, its copy in localStorage with a time | load, show the copy, go off- and online, leave | four list routes | six answers shown one by one; overlapping loads; a page that is left while it loads | a stored copy is whole and as new as its time says |
| **Client telemetry** `src/apps/citizen/src/cacheTelemetry.ts`, `routes/telemetry.routes.ts`, `routes/admin-reports.routes.ts` | counters in localStorage and what was sent of them; audit events | count, flush, retry, record, report | audit events, sessions | nothing keeps flushes apart; the end of a session clears the counters under them | every fallback is reported or about to be, and not twice unless an answer was lost |
| **Seeding** `src/apps/api/scripts/seed.ts`, `src/apps/api/migrations` | the rows of the test citizens, reference data | clean up, fill, restart numbers | every table | statements that commit one by one, killed anywhere, beside a server in use; the order of foreign keys | it can be run again, and spares everybody else's rows |
| Declarations, retention, administration, reports, AI, observability | — | — | — | record keeping, CRUD, display | — |

Hazards, each with its line in the code and the properties that would catch it,
are in `PROJECT.json` under `hazards`.

## Plan

The order follows what the system is for: an application must get through the
review, the money must be right, and nobody's data may be overwritten; then the
records beside the workflow, who may act at all, and the resources they share.

Done:

1. `ServicePacks`, `WorkflowEngine`, and `ApplicationLifecycle`, which the
   engine is shown to implement; `WorkflowEngineProofs`.
2. `FeePayments`; its proofs are in `MCDeskProofs`.
3. `ApplicationDraft`.
4. `AuditTrail`, shown to implement `AppendOnlyLog`; `AuditTrailProofs`.
5. `DocumentLocker`.
6. `Identity` and `FeatureFlags`; `Credentials`, `BrowserSession` and `LoginPage`; `ConfigPage`;
   `MCAccessProofs`, about all of them.
7. `Casework` and `NdcLedger`; `MCDeskProofs`, about payments too.
8. `TransitionPool`, `TransitionPoolProofs`.
9. `CitizenClient` and `OfficerClient`; `MCClientsProofs`, about them and the pages of complaints.
10. `CitizenProfile` and `PropertyRegister`.
11. The pages: `CreatePage`, `DetailPage`, `LockerPage`, `ProfilePage`, `ComplaintPages`;
    `MCRecordsProofs`, about the locker, the profile, the properties and their pages;
    `MCApplicationDraftProofs`, about the row, the form and the page of an application.

12. `Dashboard`, checked and proved about with the other caches in `MCAccess`; `SeedScript` and
    `CacheTelemetry`; `MCOperations`, which checks these two beside the engine with one request
    at a time.

The circuit breaker of `http-client.ts` was planned and dropped: only the AI
help and the creation of a gateway order go through it.

## Modules and their correspondence to the code

Every definition that stands for code has an entry in `PROJECT.json` under
`map` with its file and lines. Common to all state machines: a database
transaction that locks the row it decides on is one atomic step; a read outside
a transaction, or before the lock, is a step of its own whose result the request
carries; anything may run in between. Definitions marked *Fault* are not part of
the specifications: each is a mutated form of the definition that follows it,
with which a run's property is shown to fail.

**`ServicePacks`** builds the transitions of a pack from its stages and roles:
all thirty `workflow.json` files have the shape of `Pack` (a chain of two to five
stages, each with QUERY, REJECT and FORWARD or APPROVE), and differ in the
stages, their owners and whether `ASSIGN_CLERK` names its task. Three packs are
instantiated: the no-due certificate (three stages), the registration of an
architect (two), the DPC certificate (two, `ASSIGN_CLERK` without
`ASSIGN_NEXT_TASK`, so that the safety net of `executeTransition` creates the
task).

**`WorkflowEngine`** — `workflow.ts`, `tasks.ts`, `routes/task.routes.ts`,
`decisions.ts`, and submission and answer from `applications.ts`.

| In the model | In the code |
|---|---|
| `db.app[a]` | `application`: `state_id`, `sla_paused_at`, `disposal_type`, the length of `data_jsonb.statusHistory` |
| `db.task`, `db.query`, `db.decision`, `db.output` | the tables of these names, an output with what its document says and whose it is (a decision's or a download's); `db.audit`, `db.locker` count `audit_event` rows and issued `citizen_document` rows |
| `Permitted`, `Fire` | `executeTransition`: the checks under `FOR UPDATE`, then every write of the same transaction |
| `WithNextTask`, `NeedsTask` | `ASSIGN_NEXT_TASK` and the safety net |
| `Completed` | the UPDATE that completes the acting officer's open tasks |
| `Submit` | `submitApplication`: SUBMIT and ASSIGN_CLERK |
| `AssignTask` | `POST /tasks/:id/assign` |
| `Receive`, `Claim`/`ClaimRefused`, `Act`/`ActRefused`, `ProduceOutput`, `Close` | one `POST /tasks/:id/actions`: read of the task, conditional claim, transition, output and locker, closing transition, in the order of the handler |
| `AskDownload`, `CheckOutput`, `RenderOutput`, `InsertOutput`, `DownloadFails` | `GET …/output/download` of a no-due certificate (`routes/application-detail.routes.ts:133-182`): the application is read, an output looked for, and one rendered and inserted when there is none. The other packs' downloads only read, and their instances have no `Downloader` |
| `RequestFails` | the request dies between two steps |
| `ReadForResponse`, `CheckQuery`, `Respond`/`RespondFails` | `respondToQuery` |

**`ApplicationLifecycle`** is the abstract specification: two variables, no
tasks, queries or requests. `ImplementsLifecycle` instantiates it with
`phase <- state_id` and `outcome <- disposal_type`; `SUBMITTED` and
`RESUBMITTED` are never visible because both transitions of a submission, and of
an answer, are in one transaction.

**`FeePayments`** — `fees.ts`, `payments.ts`, `providers/payment-gateway.ts`.

| In the model | In the code |
|---|---|
| `demand`, `payment` | `fee_demand`, `payment` |
| `handler[h]` | a gateway callback or `POST /payments/:id/verify`: `Callback` or `OfficerVerifies` (the row is found without a lock), `Check` (locked, validated), `Commit` |
| `attempt` | what happened at the gateway (external): an attempt to pay an order is declined, or captured |
| `RecordImmediate`, `RecordOnline` | `recordPayment`, under the demand's row lock |
| `Credited`, `Exceeds` | `updateDemandPayment` |
| `MarkFailed` | a FAILED callback |
| `Withdraw` | `waiveDemand`, `cancelDemand` |

Amounts are whole numbers: the code compares with a tolerance of 0.000001 on
amounts with two decimals. `Check` and `Commit` are separate because the
duplicate check reads *other* payments, which the transaction does not lock.

**`ApplicationDraft`** — `applications.ts` as the citizen's browser sees it.

| In the model | In the code |
|---|---|
| `row[a]` | `application`: `state_id` (stages together as `IN_REVIEW`), `row_version`, form fields of `data_jsonb`, `submission_snapshot` |
| `query[a][i]` | `query`: status and `unlocked_field_keys` |
| `view[s]` | the body of the API's last answer to a session, from which it takes the `rowVersion` it sends |
| `BeginSave`, `WriteSave`, `Return` | `updateApplicationData`: read, conditional UPDATE, read back |
| `BeginSubmit`, `Submit` | `submitApplication`: read and validation, then the transaction |
| `BeginAnswer`, `CheckAnswer`, `Answer` | `respondToQuery` |
| `Review`, `Ask` | what officers do to the same row (the engine), with `row_version` counted up |

The two models of `applications.ts` overlap on purpose: `WorkflowEngine` keeps
tasks, queries and audit of an answer and drops the form; `ApplicationDraft`
keeps form, version and snapshot and drops the tasks.

**`AuditTrail`** — the trigger of `src/apps/api/migrations/017…020`,
`audit-chain.ts`, `sla-checker.ts`, `telemetry-retention.ts`, and the audit insert
of `workflow.ts`.

| In the model | In the code |
|---|---|
| `log`, `position`, `advisory` | committed `audit_event` rows, the chain position sequence, advisory lock 982451653 |
| `Chained` | the trigger: the predecessor is the greatest position (`LastOf`) among the rows that the transaction sees under the lock, its own earlier ones included |
| `tx[p]` | a transaction under way, with the rows it has inserted; gone with them when it fails |
| `BeginTransition`, `WriteAudit`, `CommitTransition` | a transition: row lock, then the audit insert, then COMMIT |
| `Scan`, `InsertBreaches`, `CommitScan` | one batch of the SLA scan: overdue tasks without a breach event, the inserts, then the update of the applications, in an order opposite to a transition's; `Collides` is the unique index of the breach events |
| `BreakDeadlock` | PostgreSQL resolves the deadlock of a scan and a transition by failing one of the two |
| `AppendEvent`, `Purge` | a single-statement event; the retention job's DELETE of client telemetry |

A hash is represented by the chain position of its row, which is as unique as
the hash is. **`AppendOnlyLog`** is the abstract specification: rows are only
ever added at the end, each once, except that telemetry may be deleted, which leaves
the others in their order.

**`DocumentLocker`** — `documents.ts`, `storage.ts`, the document routes. No
operation opens a transaction, so a request is a list of single statements and
one file write: `StartUpload`, `OpenFile` (the version is read and the file
opened), `StoreFile`, `UnlistOld`, `ListNew`; `StartAttach`, `DetachOld`,
`AttachNew`; `IssueDocument` for an output; `OpenDocument` and `VerifyDocument` by
an officer. `Dies` leaves the request's later statements undone. `stage` follows the application as far as the
routes look at it.

**`Identity`** — `token-security.ts`, `middleware/auth.ts`, `mfa-stepup.ts`, one
statement per step. A request arrives (`Arrive`: the token is checked), has its
officer's postings loaded from the instance's cache (`UseCachedPostings`) or the
table (`AskPostings`, `ReadPostings`, `StorePostings`, where the cache entry's
time counts from the question), and then logs out, asks for a challenge, or
answers it (`CheckCode`, `CountWrongCode`, `ConsumeChallenge`). **`FeatureFlags`** —
`feature-flags.ts` and the update route: per-instance cache, Redis, row, with
commands to Redis that are not awaited and may be lost. **`Credentials`** —
`auth.ts` and `routes/auth.routes.ts`: a login code is sent (`SendCode`), read and
compared (`ReadCode`), counted (`CountWrongCode`) or deleted (`DropCode`) by
statements of their own; a login compares the password and may renew an old hash
afterwards (`Authenticate`, `Renew`); a reset token is read, the password set, the
token deleted (`ReadReset`, `SetPassword`, `DropReset`).

**`BrowserSession`** — the two `AuthContext.tsx`, and `middleware/auth.ts` as far as
it chooses between the cookie and the header: tabs of one browser share a cookie
and, per portal, an entry of localStorage; `Hear` is the `storage` event.
**`LoginPage`** — `Login.tsx`: the form's mode and step, the number that is typed, the code
that was sent, the dialog for a forgotten password with its timer. **`ConfigPage`** —
`ServiceConfigView.tsx`, the configuration routes of `app.ts`, `version-diff.ts`: the
services, versions and one version in detail, and two comparisons, each an answer
that is stored whatever has been selected since; `Diff` is what a comparison
answers.

**`Casework`** — `complaints.ts`, `inspections.ts`, `notices.ts`, the refunds of
`fees.ts`: each handler as its unlocked read (`Start…`) and its conditional
statement (`Finish…`); the upload of evidence as file write, locked count and
insert, commit with a lost answer, and cleanup. **`NdcLedger`** —
`ndc-payment-status.ts`: `ReadProperty`/`PostPayment` read and write the whole JSON,
which may hold imported payments of any date; interest is `Rate` for each day of delay.
Two history variables beside the column say which dues were settled by a posting
(`posted`) and which were since written over by a stale copy (`overwritten`). A
download generates only when nothing is owed (`AllPaid`); `WorkflowEngine`, which
does not know the dues, lets every download find them paid.

**`TransitionPool`** — `db.ts`, the transaction of `workflow.ts`, `sla.ts`,
`notifications.ts`.

| In the model | In the code |
|---|---|
| `Connect` | `pool.connect()`; `TimesOut` is `connectionTimeoutMillis` |
| `LockRow`, `Decide`, `AskHolidays`, `ComputeDue`, `InsertTask`, `Commit` | the statements under the row lock; the second connection for the holiday calendar is waited for with the lock held |
| `Aborted` | a statement whose failure is logged and ignored leaves PostgreSQL's transaction aborted, and the later ones fail |
| `Notify`, `Store`, `Send` | the notification after COMMIT, on a connection of its own while the first is still held; its failure makes the caller answer that the transition failed |

**`CitizenClient`** — `src/apps/citizen/src/App.tsx`, `cache.ts`, and the same
routes of `applications.ts` as `ApplicationDraft`, seen from the browser: every
fetch is sent, served and answered in separate steps, in any order, or lost.
`page` is React state plus the cached details in localStorage; handlers that set
state several times in one synchronous stretch are one action; a handler that
awaits is cut at each await, with the values it captured before in the call.

**`OfficerClient`** — `src/apps/officer/src/App.tsx`, `TaskDetail.tsx`, and the
routes of `tasks.ts` they call, built the same way. `page` is what the officer
sees: the view, the selected task, the application whose data is loaded, the
inbox and its cached copy, the preview.

| In the model | In the code |
|---|---|
| `ClickTask`, `AnswerOpen`, `AnswerClaim` | `handleTaskClick`: select, load the application, then claim, each awaited |
| `ClickFound`, `AnswerFound` | a search result is opened read-only |
| `JumpToTask`, `AnswerJump` | the browser's history returns to a task |
| `ClickAct`, `AnswerAct` | the action form: post, then go back to the inbox and list it anew |
| `ClickPreview`, `AnswerPreview`, `ClosePreview` | a document's blob is fetched and shown under the name that was clicked |
| `Claim`, `MayAct`, `Acted`, `Inbox` | what the API does to `task` rows, which `WorkflowEngine` models in full |
| `OtherOfficer` | a colleague of the same posting claims or acts |

**`CitizenProfile`** — `profile.ts`, `routes/profile.routes.ts`. A section patch is
one UPDATE that merges JSON into the row (`Write`). A request is a list of patches
(`Patch`, `VerifyAadhaar`, `VerifyPan`), which `Fail` cuts off after any of them.

**`PropertyRegister`** — `properties.ts`, and where `applications.ts` calls it.
`Find`, `Insert` and `Link` are the statements of
`upsertPropertyFromApplication`, made one by one when an application is created
and in the submission's transaction when it is submitted (`Commit`); an `Insert` that meets the
unique index fails, and inside a submission aborts it. `StartCheck` and
`AnswerCheck` are the check for duplicates; `Rename` is a draft whose data name
another property.

**The pages** are built like the clients: one variable for each piece of React
state that a guard reads, one step for a click or a synchronous stretch of a
handler, one for the server, one for the answer. A page that shows several
copies of a row (or of a form) has a variable for each.

| Module | In the code |
|---|---|
| `CreatePage` | `form-renderer.tsx` and the create view of `App.tsx`: `objects` and `data` are the form and the references to its groups, which an update copies only at the top (`Written`); `Lookup`/`AnswerLookup` are `handleUpnLookup` with the form it captured; `Effect` is the effect that loads a property's payments |
| `DetailPage` | `ApplicationDetail.tsx` and `openApplication` of `App.tsx`: `current` and `detail` are the two copies App keeps, `form` is `responseData`, `Reset` the effects on a change of the application |
| `LockerPage` | `DocumentLocker.tsx`: the unfolded history, the preview, the upload that a card begins |
| `ProfilePage` | `Onboarding.tsx`, the profile view and the editor of `App.tsx`; `profile` and `verification` are App's copies, `draft` is the page's |
| `ComplaintPages` | `ReportComplaint.tsx` and `ComplaintManagement.tsx`: the form and the dictation that fills it, the open complaint, the officer's status and photographs |

**`SeedScript`** — `src/apps/api/scripts/seed.ts`, whose order of statements is `Main`,
against the foreign keys that the migrations declare (`Keys`, `Cascades`).

| In the model | In the code |
|---|---|
| `rows` | what an application has in each table: `<<table, application>>` |
| `base` | reference tables that are filled (`Fill`: authorities, designations, versions, users, postings, holidays, flags) |
| `PurgeTable`, `InsertRow` | the deletes of the test citizens' rows, in the order of `Cleanup`, and the inserts of their applications |
| `PurgeHeld`, `PurgeProperty`, `FindProperty`, `WriteProperty`, `Hold` | properties and who holds them: looked up, then updated or inserted |
| `PurgeEvidence`, `PurgeComplaint`, `InsertComplaint`, `ResetNumbers` | the complaints, with fixed numbers, and `setval(…, 100)` |
| `Kill`, `Try` | the script is stopped, or a statement fails and ends it |
| `Work`, `WorkBeside`, `Look`, `File`, `AddEvidence` | what the server does meanwhile: work on the test data, another's application for one of the properties, a lookup, complaints |

**`Dashboard`** — `Dashboard.tsx` and the cache entries of `cache.ts`. A load sends its
requests at once (`Fetch`), has them answered in any order (`Answer`) and reads and shows the
answers one by one (`Show`); only when none was refused is the copy written (`Finish`).
A load outlives the page it was made for (`Leave` makes it `old`) and then still writes the
copy. `Offline` and `Fail` show the copy instead.

**`CacheTelemetry`** — the counters of `cacheTelemetry.ts`, the route that records what a
flush sends, and the report that adds the records up (`Added`). A flush reads what is stored,
sends the difference to what was sent before, and marks it as sent when it is
answered (`Send`, `Record`, `Finish`); `Retry` reads again. Flushes overlap as they may,
and `EndSession` clears counters and mark while they are under way.

**Composition.** Modules that share no state are checked side by side rather than
multiplied: `MCDesk` (`FeePayments`, `NdcLedger`, `Casework`), `MCRecords`
(`DocumentLocker`, `CitizenProfile`, `PropertyRegister`, `LockerPage`,
`ProfilePage`), `MCClients` (`CitizenClient`, `OfficerClient`,
`ComplaintPages`), `MCApplicationDraft` (`ApplicationDraft`, `CreatePage`,
`DetailPage`) `MCAccess` (`Identity`,
`FeatureFlags`, `Credentials`, `BrowserSession`, `LoginPage`, `ConfigPage`, `Dashboard`) and
`MCOperations` (`WorkflowEngine`, `SeedScript`, `CacheTelemetry`) take a behaviour of one of them, as a variable set initially says, and list the
actions of all; `MCClients` restates the citizen's fairness for the behaviours in
which the citizen's browser moves. Where components do interact —
engine and officers' requests, drafts and queries, audit log and transitions and
scans, browser and API — the interaction is inside one module.

## Runs

`tlc -config <run>.cfg <module>`, where the module is the one `PROJECT.json` names for the
run (the pool and the audit trail are checked without an MC module); all runs together take about twenty
minutes on two workers. Deadlock is not checked: an application that is closed, a
demand that is paid and an exhausted bound are legal ends, and lack of progress
is the subject of `NoDeadEnd` and the liveness properties instead.

| Run | Instance | Distinct states | Shows |
|---|---|---|---|
| `engine_races` | architect pack, 2 officer requests, 1 answer, 1 query | 663 000 | `NoDeadEnd`, `DecisionMatchesDisposal` (and the SLA pause that ends with the wait), `ClaimsAreFinal` while two requests race on the same or different tasks; `DecidedEventuallyClosed` under weak fairness |
| `engine_failures` | no-due certificate, 1 officer request, 1 answer, 1 download at a time, 1 query, failures at every step, replays on completed tasks, queries without message | 1 120 000 | `OutputsAccountedFor` (what a decision and the downloads generate), `ImplementsLifecycle` |
| `operations` | DPC pack, 1 officer request, 1 answer, 2 queries, failures; or 2 seeded applications of 1 test citizen with 1 property, 2 runs of the script, 2 uses; or 1 source, 2 flushes under way, 3 in all, 1 end of a session | 1 120 000 | when requests do not overlap: either one open task or one open query has the file (`OneSideToMove`), and history, audit log, decision and tasks agree (`RecordsAgree`), with the safety net alone; `SeedingIsRepeatable`; `ReportsAddUp` |
| `fee_double` | smallest that fails | — | counterexample, see Findings |
| `draft_races` | 1 application, 2 sessions, 2 fields of 2 values, 2 queries; or the form of a new application with 2 properties, 2 edits, 4 clicks; or the page of 2 applications, 3 calls under way, 3 clicks | 2 419 000 | `LockedFieldsKept`, `NothingOverwritten` (no save is lost, and the snapshot stays); `FormsKeepWhatWasTyped`, `PaymentsAsShown` |
| `audit_scans` | 2 applications, 1 transition, 2 scans, telemetry, 1 failure | 232 000 | `ChainIsLinear`, `OneBreachPerTask`, `ImplementsLog`; `OverdueIsNoticed` under fairness |
| `access_races` | 2 tokens, 2 requests, 1 change of posting; or 2 nodes, 1 evaluation, 1 update of a flag; or 1 account, 2 requests, 2 passwords, 2 codes or reset tokens; or 2 citizen tabs, 1 officer tab, 2 citizens, 2 sign-ins, 1 lost answer; or the login form; or the page of configurations with 2 services; or a first page of 2 parts, 2 loads, 2 visits | 1 699 000 | `EndedStaysEnded`; `CachesLagBounded`; `SecretsHold`; `PagesActAsShown` |
| `record_races` | 2 requests of one citizen, 2 types, 1 application, 1 officer; or 3 profile requests, 2 cards; or 2 applications, 2 properties, 4 requests; or the pages of the locker and of the profile | 1 690 000 | `FilesMatchRows`, `VerifiedAsInspected`, `DocumentInForce`; `VerifiedAsConfirmed`; `SubmittedIsLinked`; `DocumentsShownAsNamed`; `SavesWhatWasTyped` |
| `desk_races` | 1 demand, 3 payments, 2 verifications, 2 orders, 2 attempts; or 2 dues, 2 requests, 4 days; or 2 officers, 3 photographs | 714 000 | `DemandBooksBalance`, `CreditsAreBacked` with waivers, declines and repeated orders; `PostedIsSettled`; `EvidenceKept`; `OutcomesAreFinal` of payments, demands, dues, inspections, notices and refunds |
| `client_races` | 1 edit here, 1 elsewhere, 2 applications, 2 calls under way, 1 lost; or 2 tasks of 2 applications, a colleague, 2 documents, 3 clicks; or the pages of complaints | 967 000 | `OverwritesOnlyFetched`, `SavingConverges` under fairness; `ShowsWhatItNames`; `FiledOnce` |
| `transition_pool` | 3 transitions, 2 connections, 2 applications | 95 000 | `AllOrNothing` (what is made is made whole, and an answer of success is true); `EveryRequestEnds` under fairness |
| `posting_lost` | that of `desk_races` | — | counterexample, see Findings |

Bounds and why they are enough:

- *One application* in the engine, fee and draft runs. No step there reads or
  writes two applications. The theorems hold for any number. `audit_scans`,
  `transition_pool`, `client_races` and the register of `record_races` have two,
  because there a scan's batch, the pool, the browser's current application and a
  shared property relate them.
- *Two officers*, one with the clerk's role alone and one with every role of the
  pack: a claim race, a request refused for its role, and one officer who holds
  tasks of several stages all occur. A claim race needs two requests, a
  replay on a re-entered stage two requests and one query; `MaxQueries` 1 or 2
  lets the citizen's loop run once or twice.
- *One download at a time* of the certificate, as often as one likes: it meets the
  decision at each of its steps. Two that overlap are covered by the theorem
  `OutputsAlwaysAccountedFor` only, and so are two officers' requests by
  `EngineImplementsLifecycle`; two answers race in `draft_races`.
- *Two sessions*, *two fields* (one mandatory), *two values*: one save races one
  submission or answer, and a locked field exists beside an unlocked one.
  `MaxVersion` 7 admits a save, a submission (three versions), and a query with
  its answer (three more).
- *Three payments* on a demand of two units, amounts of one and two: part
  payments, the exact balance, one too many, and the empty demand (total 0).
- *Two scans, three tasks*: two scans collide on a task, and one deadlocks with
  the transition that completes it; a further task becomes overdue after a
  failure.
- *Life, CacheTtl, CodeTtl* of two time units and a clock of four: everything
  that can expire does so while something else is under way. `Delay` is one
  unit, what a query may take.
- *Evidence cap* 2 with three photographs; *two dues*, one overdue on the second
  day, imported payments below and above the due, dated on the first day or later
  than some postings.
- *Three profile requests* of two tabs, *two cards*: a verification between the
  patches of another, and a second card over the first. *Two properties, two
  applications, four requests*: two submissions insert the same property at once,
  and a draft changes its property between creation and submission.
- *Three clicks* of the officer with two calls under way: a task is opened while
  another is still loading, and a preview or an action answers after he has gone
  elsewhere.
- *Pages*: two things of each kind that can be shown in each other's place (two
  properties, two applications, two documents, two complaints), one lost call, and
  as many clicks as it takes to open one, start something, open the other, and
  start something there.
- *Two runs of the script, two uses*: the second run finds the remains of the first,
  ended anywhere, and what the server did before or amid it. *Two parts, two loads, two
  visits*: a load that was left behind ends under the next. *Two flushes under way,
  three in all, two fallbacks*: they overlap, one is tried again, and the session ends under
  one. The model of `CacheTelemetry` lets a delta be too large only beyond `MaxDelta`.
- *Three requests for two connections*: two transitions that hold one each and
  want a second are the smallest pool that waits on itself.
- Symmetry is declared on requests, responders, downloads, handlers, orders, attempts,
  sessions, loads, flushes, tokens, nodes, officers and photographs, which no definition
  distinguishes, and in no run with a liveness property.

`MayFail`, `StaleTasks`, `BlankQueries`, `SharedOrders`, `Declines` and
`Withdrawals` switch on what the code allows at all times; a run leaves one off
where its properties do not depend on it, or to say under which discipline of the
clients a property holds (`operations`). The `StaleTasks` and
`BlankQueries` runs matter because neither the task's status nor the message is
checked by the code.

**Fairness.** A step of a request is a statement the event loop awaits; once the
lock or connection it waits for is released the promise resolves, and the handler
goes on whatever anybody else does. So the engine's `FairSpec` adds
`WF_vars(Serve(r))` for each accepted request, and
`TransitionPool` likewise (a wait for a connection ends by itself after its time
limit). `AuditTrail` has weak fairness of the start of a
scan, which its interval repeats whatever happened to the one before, and strong
fairness of the steps that wait for a lock, because PostgreSQL serves the waiters
of a lock in their order. `CitizenClient` has weak fairness of serving and
answering each kind of call, and it says of the citizen what `SavingConverges` is
about: that he goes on saving a changed form and takes the reload that is offered.
Elsewhere no fairness is assumed of officers, citizens, administrators or the
gateway. `MayFail`, `Dies` and `Fails` are crashes or timeouts after which nobody
resumes the request.

## Findings

Two are runs; the others are properties that the modules define and no run
lists, because they are false: adding one to the run named here gives the
counterexample within minutes.

1. `fee_double` — two verifications of two payments that share an order, at the
   same time, credit one capture twice (`payments.ts:254`):
   `OneSettlementPerCapture`.
2. `posting_lost` — a posting writes the whole JSON column back as it was read, so
   that an overlapping posting to another due of the property disappears, though
   its citizen was answered with success (`ndc-payment-status.ts:454`; the page says
   it "posts settlement entries against selected dues", `locales/en.ts:235`):
   `PostingsAreKept`.
3. A second request that read its task before a query loop acts on it after the
   loop: the task's status is not looked at again, the transition is permitted
   because the state is the same one as before, and only the acting officer's
   open tasks are completed. The task created by the loop stays open on a closed
   application (`workflow.ts:190`; `WORKFLOW_TEST_CASE_SUITE.md:204` expects none):
   `NoOpenTaskAfterClosed` on `engine_races` with `StaleTasks`.
4. `respondToQuery` writes back the `data_jsonb` it read before its transaction;
   the status history loses what was added since (`applications.ts:562`, against
   the comment at 559): `RecordsAgree` on `operations` with a second responder.
5. The closing transition has a transaction of its own and is not repeated when
   it fails (`routes/task.routes.ts:259`; `WORKFLOW_TEST_CASE_SUITE.md:169`):
   `DecidedEventuallyClosed` with `MayFail`.
6. The late FAILED callback of an earlier attempt replaces the reference of a
   verified payment (`payments.ts:366`, against 243): `VerifiedByCapture` on
   `desk_races`.
7. A save between the validation and the transaction of a submission is submitted
   unvalidated (`applications.ts:457`; `BRD_Change_of_Ownership.md:240`):
   `SubmittedWasValidated` on `draft_races`.
8. The telemetry purge deletes rows from the middle of the hash chain; their
   successors name a predecessor that is gone, and verification reports the chain
   broken (`telemetry-retention.ts:30`): `AuditChainVerifies` on `audit_scans`.
9. Handlers of inspections answer with the row found after a statement that
   matched nothing, so that a request overtaken by another one is told that it
   was done (`routes/inspection.routes.ts`): `AnswersTellEffect` on `desk_races`.
10. A flag may decide by a replaced definition for nearly two cache lives, not one,
   because an instance stores what Redis stored a life before
   (`feature-flags.ts`; `ARCHITECTURE_REVIEW_2026.md:222` says fifteen seconds):
   `StaleForOneLife` on `access_races`.
11. The officer's inbox asks for `status=PENDING`, and opening a task makes it
    IN_PROGRESS (`src/apps/officer/src/App.tsx:170`, `tasks.ts:140`): a task that was
    opened and left is in nobody's inbox, its holder's included:
    `InboxOffersHeldTasks` on `client_races`.
12. A download of the no-due certificate generates one as soon as the dues are paid,
    whatever the state of the application unless it was rejected, and the document
    of an undecided one says APPROVED (`routes/application-detail.routes.ts:159`,
    `outputs.ts:279`). `BRD_no_due_certificate_PUDA_v1.0.docx.md:52` says "issued (PDF)
    on approval"; the citizen's page offers it directly (`locales/en.ts:229`). A
    certificate may so precede, and outlive, a rejection: `CertificateOnApproval` on
    `engine_failures`.
13. The check for duplicates names the states in progress and
    leaves out seven that packs use, among them `PENDING_AT_SUPERINTENDENT`
    (`applications.ts:820`; `BRD_regularisation_of_water_connection_PUDA_v1.0.docx.md:402`
    wants a warning): `Register!DuplicateIsReported` on `record_races`.

Observed while modelling, without a property of their own:

- An application may have several outputs, and its locker as many documents: the
  decision's is generated without looking for another (`routes/task.routes.ts:229`),
  and two downloads may both find none (`routes/application-detail.routes.ts:150`).
  `output` has no unique index on the application; readers take the newest.
  `OutputsAccountedFor` says how many there can be, and not that there is one.
- A browser that opens B while A's detail is on its way sets B's row version from
  A's (`App.tsx:607`), so that B's next save may pass for current; the comment at
  `applications.ts:336` promises that stale saves are refused.
  `OverwritesOnlyFetched` is the part of the promise that does hold. A conflict's
  reload leaves the form dirty; a double-clicked save conflicts with itself;
  saving is disabled offline, so the queue of offline drafts is never fed.
- An officer who clicks a second task before the first has loaded may see one
  application under the other's task, and the blob of a preview that answers late
  appears under another document's name; `ShowsWhatItNames` says when this cannot
  happen. After the late answer of an action whichever task is open is closed.
- A citizen's PATCH may change the name, Aadhaar or PAN after their verification;
  the flags stay. An application whose data changed its UPN before the submission
  is linked to two properties, and readers take one by `LIMIT 1` without an order.
  A unique violation on the property aborts the submission around it, despite the
  comment "Non-blocking" (`applications.ts:445`).
- `notify` runs after COMMIT inside the transition's `try`: its failure is
  answered as a failed transition, and output and closing are skipped
  (`workflow.ts:237`). A swallowed failure of a "non-blocking" statement aborts
  the PostgreSQL transaction; the audit insert after it fails and the whole
  transition is rolled back (`workflow.ts:469`).
- The due date is computed with a second connection while the first is held; a
  pool full of such transitions waits for its own two-second limit and then
  computes the date without holidays (`workflow.ts:284`).
- *New application.* Changing the number of a property by hand keeps the details
  of the property before it, and so does a lookup for what the register leaves
  empty (`form-renderer.tsx:255`). A lookup that answers late drops the groups
  that were made meanwhile; the others survive because the copy shares their
  objects (`form-renderer.tsx:286`). A posting answered after another property
  was chosen shows its ledger and enables the button there
  (`App.tsx:1299`); `PaymentsAsShown` excludes that case. Save Draft is disabled
  offline, so the queue of offline drafts is never fed.
- *One application.* After an answer only the detail is loaded again: the page
  goes on to show QUERY_PENDING (`App.tsx:2659`). Opened from the cache, or
  overtaken by another session, the form puts back an unlocked field nobody
  touched (`ApplicationDetail.tsx:395` sends all of them). Between opening an
  application and the answer about its payments the ledger of the previous one is
  shown, with buttons that pay the new one's dues; the message of an answer and
  the panel of a declaration are carried over to the next application.
- *Locker.* Two overlapping uploads of one type and one file name read the same
  version and so get the same storage key: the second opens, and truncates, the
  file of the first, and both rows refer to it (`documents.ts:216-225`).
  `FilesMatchRows` fails on `record_races` with equal `Names`; the theorem about it
  says what excludes this. One pending file serves all cards: dropped on one and confirmed on
  another it is uploaded as the other's type (`DocumentLocker.tsx:478`):
  `UploadedAsDropped` of `LockerPage` fails. A late history shows under the type
  unfolded since.
- *Profile.* A card verified in the wizard, then "Skip for now": App's copies are
  not told, and the next save of the editor puts back the name and PAN from before
  (`App.tsx:2724`, 1345). `onReVerifyAadhaar` only removes the badge, because the
  summary is shown as long as there are data.
- *Complaints.* Dictation that is parsed late refills a form already filed, and
  what is typed while filing is cleared; the reload after a photograph returns the
  citizen to a complaint he has left; a list that answers late shows under another
  filter (`ReportComplaint.tsx:226`, 333, 378).
- *Signing in.* Sending a new code lifts both the count of wrong attempts and the
  lock; a late wrong attempt on the replaced code is counted on the new one
  (`auth.ts:236`). Two overlapping resets with one token both succeed, and other
  reset tokens of the account stay valid. The renewal of an old hash writes the
  password it compared, over a reset made meanwhile (`auth.ts:163`).
- *Browser.* The server prefers the cookie to the header, and the citizen's and the
  officer's portal share it: a sign-in that the portal refuses for its account type
  has already replaced the cookie, and after a reload the page shows that account.
  A logout whose answer is lost keeps the cookie, with which the next load signs in
  again; one whose answer is late clears the cookie of a newer sign-in
  (`middleware/auth.ts:148`, `AuthContext.tsx:60`, 89).
- *Login form.* The number can be edited while its code is being sent. The timer of
  a successful reset closes the dialog even if it was opened anew, and the message
  of a sent link outlives its dialog.
- *Configurations.* A version whose detail could not be loaded leaves a page without a
  button back (`ServiceConfigView.tsx:690`): `WayBack` of `ConfigPage` fails. A
  comparison that answers late shows under the versions chosen since, and the chosen
  versions of one service are offered for the next.
- *Seeding.* The script sets the sequence of complaint numbers back to 100 whatever
  numbers citizens' complaints have, after which filing one may fail on the
  unique number (`seed.ts:1376`). A property that only a test citizen's application named is
  deleted, and with it the links of other citizens who looked it up.
- *Dashboard.* Going offline during a load, or overlapping loads, can show parts
  that are older than the time shown with them (`Dashboard.tsx:331`); `CopiesAreWhole` says when
  it cannot happen, and that the stored copy is never affected.
- *Telemetry.* The counters' keys begin with `puda_citizen_cache_`, so the end of a
  session deletes what was not reported yet; a flush that outlives its session marks as sent
  what the next session has yet to count. A flush that overlaps another, or whose answer or mark
  is lost, is reported twice. A difference above a million is refused at every attempt. The report strips
  the counter's name from its sources and so adds the same page up across
  counters (`admin-reports.routes.ts:215`).
- A settled due that is posted again later is charged interest up to the later
  date, and one that is posted with a date before that of an imported payment still
  owes the interest between the two (`ndc-payment-status.ts:185`, 439), so `PostedIsSettled`
  speaks of dues with a posting dated no earlier than the payments it joined, and not
  written over since (finding 2). `audit_event.arn` has no foreign key; `invalidatePostingsCache` and `resetVerificationOnReupload` have no
  callers.

## Proofs

Proved with TLAPS for all values of the constants that satisfy the named
assumptions; none of the finite bounds of the runs is used. Each module of proofs
follows the same pattern: an inductive invariant, which implies the
properties and is stronger because a property of the tables depends on what the
requests under way carry; one lemma for each action, or for each group of actions
that change the same things; and the theorems, which put these together with
`PTL`.

**`WorkflowEngineProofs`** (`ActorsAssumption`, `PackAssumption`).
`TypeCorrect`: one lemma for each action, resting on `FireType`, which has one step for
each table a transition writes. `NoDeadEndAlways`: the invariant
`TypeOK /\ NoDeadEnd` is inductive. The argument is that `Fire` into a stage
either appends an unassigned task — which the completion of the officer's own
tasks leaves alone — or found an open task of that stage; and no other step
changes a state or closes a task. `PackAssumption` says what all packs have in
common; the part that matters here is that an officer's transition into a stage
names `ASSIGN_NEXT_TASK`. It is needed: with the safety net alone, a task found
open may be one the officer holds and is about to complete. TLC evaluates the
assumption on the three packs of the runs.

Decisions, outputs and claims (the lifecycle under `RouteAssumption` too):

- `DecisionAlwaysMatches`: `FireMatches` shows that one transition keeps a row's
  decision, disposal, state and pause in agreement; a submission and an answer
  fire twice.
- `OutputsAlwaysAccountedFor`: the invariant `OutputInv` adds that a request about to
  produce an output is the only one for its application, which has been disposed of and
  has no output of a decision yet (`OneProducer`, `NoneBy`), and that a download which
  has found no output has made none for the application, so that what it inserts is its
  only one (`DownloadsInv`). A request gets to its output only by the transition that
  decides, and a second decision would find the disposal made; `OutputWriters` says
  which steps write outputs, and the others are shown to leave them alone.
- `ClaimsAlwaysFinal`: a request may start a task it read as PENDING only if it saw
  itself as the holder, and a held task is never PENDING (`TasksConsistent`), so that
  its late start cannot reopen what was completed meanwhile; the claim's own
  condition is evaluated by the UPDATE.
- `AlwaysDecidedByTaskHolder`: the request that acts passed `Gate` for a task that
  stays its officer's, and its own transition completes the task.
- `EngineImplementsLifecycle`: `Submit`, `Act`, `Respond` and `Close` each map to a
  step of `ApplicationLifecycle`, the others to a stutter (`LifecycleStutters`).
  `RouteAssumption` says where transitions lead: from a stage to stages,
  decisions or the citizen, SUBMIT from DRAFT, closing from a decision, and a
  single stage in which a review begins and begins again. It is true of all
  thirty packs; TLC evaluates it on three.

**`TransitionPoolProofs`** (`PoolAssumption`; nothing on the size of the pool). The invariant is
`TypeOK` with: who works in a transaction has the application's row and has
written what its position says, unless it is aborted (`WorksUnderLock`); the row's
columns agree (`RowsComplete`); a request after its COMMIT announces a transition
nobody was told of (`Announces`), of which no other is the author (`Alone`); and
what was told is true (`ToldIsTrue`). Each action is first shown to have one of
seven shapes (`Ends`, `Starts`, `Moves`, ...), and each conjunct to survive every
shape. `AllOrNothingAlways` follows.

**`MCDeskProofs`** (`AmountsAssumption`, `BoundsAssumption`, `NoneAssumption`,
`RequestAssumption`, `DuesAssumption`, `ImportAssumption`, `LimitsAssumption`): payments,
the dues of a property and the casework. `StepOfEachPart` shows that a step of the
desk is one of each part, or leaves it alone.

- Payments: `TypeCorrect` includes the references between tables and from
  requests to payments. `BooksAlwaysBalance` goes row by row: `CreditedRow` shows
  that a credit that does not exceed the balance keeps a row balanced, and the two
  places that credit (`recordPayment`, `updateDemandPayment`) check the balance
  of the row they have locked. `SettledAlwaysFinal` (the part `SettledIsFinal` of
  `OutcomesAreFinal`) rests on `ChecksHold`: the payment a verification has checked
  is still INITIATED when it commits, and no other verification has checked it,
  because both hold its row.
- `PostedAlwaysSettled`: the invariant `LedgerInv` says that a due that was posted and
  not overwritten is covered on every day. A posting that settles covers its due from
  the copy it read (`PostedCovers`: the total grows with the day, `TotalGrows`); a due
  whose payments in that copy are not the column's counts as overwritten, and every other
  one is written back as it was (`PostingStep`). Nothing is assumed of the copy, so the
  theorem says nothing of the dues that a stale copy takes back: `posting_lost` shows
  that there are such.
- `SettledStaysUnlessOverwritten`: what was paid stops the interest on the day it was
  paid, and a due without any payment is settled only when it is nothing, which bears
  none (`DuesAssumption`: interest is a share of the amount).
- `EvidenceAlwaysKept`: an upload that may still insert its row holds the complaint's
  lock, and so counts alone (`StoringInv`); no two uploads have a photograph in
  common, and one that cleans up has no row unless its COMMIT got no answer
  (`UploadsApart`), so that it deletes nobody's file.
- `OutcomesAlwaysFinal`: the conditions of the statements keep closed inspections,
  letters and refunds as they are (`InspectionMoves`, `RefundMoves`); the part about
  payments is `SettledAlwaysFinal`, the part about dues `SettledStaysUnlessOverwritten`.

**`MCApplicationDraftProofs`** (`DataAssumption`; `PagesAssumption`: `None` is neither a
property nor a form). The properties of the row are not
inductive by themselves: whether a late write is harmless depends on what the
requests in flight carry. The invariant `Inv` is their conjunction with

- `LoadedExists`: what a session has loaded is not `NEW`;
- `SavesReachDrafts`: a save whose version is still the row's meets a draft,
  with the data its session saw if it names its version;
- `AnswersKeepLockedFields`: the data an answer carries agrees with the snapshot
  on every field that is still locked.

Each step is summarised by three facts — what it may do to a row (`RowStep`), to
a request (`RequestStep`) and to a view (`ViewStep`) — and each conjunct of
`Inv` is shown from these. `VersionsNameData` and `LockedFieldsAlwaysKept` are
conjuncts; `NoSaveIsLost` is an action property that follows from
`SavesReachDrafts`. `LockedFieldsAlwaysKept` is the reason why the unlocked
write of an answer (finding 4) loses history entries but never a locked field:
queries only add to what is unlocked. `SnapshotAlwaysKept` is read off `RowStep`.
`NothingIsOverwritten` puts the two action properties together for the run's
specification, in which the pages move too and leave the row alone.

The form of a new application and the page of one, in whatever order their calls
are answered or lost (`PagesInv`):

- `FormsAlwaysKeepWhatWasTyped`: a lookup that answers late puts back the groups it
  remembers, which does no harm because they are the form's own objects: no object is
  of two groups, all copies share the property's, and the purpose they remember is the
  form's unless it was made meanwhile (`FormShape`). On the page of an application,
  an answer carries the form of its own application (`Carries`), and a field in it that
  was not typed is still the row's when the server accepts it. That needs `Awaited`: the
  page waits for one answer at a time, which has the form on the page as long as that
  was not opened anew, so that accepting it leaves the form equal to the row
  (`FormOfShown`), and a query number that never decreases (`CarriesAfter`): a row that
  went on accepts no older answer.
- `PaymentsAlwaysAsShown`: one posting is under way at a time, and unless it overlapped
  the choice of another property or application, the payments that are fetched and
  posted are of the one chosen (`DueCall`, `PaidForShown`). What says that dues are
  settled is right, since nothing unsettles them.

**`AuditTrailProofs`** (`ProcessAssumption`, `AppAssumption`: there are finitely many
applications, so that a scan's batch has a last row). The invariant `Chain`
says that the committed rows are one chain (`WellChained`), and that the rows
which the holder of the advisory lock has inserted continue it
(`Continues`): committing such rows keeps the chain (`CommitKeepsChain`), and since
nobody else inserts meanwhile they still continue it then. The rows of a batch
are ordered by a bijection with `1..n` (`OrderOfBatch`). `OneBreachAlways`
uses that only the holder has uncommitted breach events, and `Collides` compares
them with the committed ones. `TrailImplementsLog` shows the refinement: every step
leaves the log alone, adds rows behind all others (`Grows`), or takes telemetry out
(`Shrinks`). The mapping `Ordered` puts a row at its rank, the number of rows before it;
because positions are distinct, ranks are a bijection with `1..n` (`RankTaken`), a
longer log with later rows is an extension (`LaterRowsAppended`), and a smaller one
keeps its order (`OrderShown`).

**`MCAccessProofs`** (`SettingsAssumption`: lifetimes are numbers, at least one
attempt is allowed, the requests are finitely many; `LifetimesAssumption`: the lifetimes
the code falls back to when a setting is no positive number; `PublishedAssumption` and
`AccountsAssumption`: `None` names no service, version or account; `PartsAssumption`: nor a part's state).

- `EndedAlwaysEnded`: an ended token is on the denylist, or issued no later than the
  cutoff, or has expired (`Over`); the cleanup removes only what has expired, and
  nothing is issued in the future (`Past`), which is why a cutoff by the second
  suffices.
- `CachesAlwaysLagBounded`: what a cache of postings holds *or a request is about to
  store* expires within `CacheTtl` of the question, and, when the posting has been taken
  away since, of that change (`Lag`). The expiry must count from the question; counted
  from the answer the invariant fails in `StorePostings`. Flags pass two caches and two
  delays: `Held` says until when the version an entry, a command to Redis or a call holds was
  the current one, and each hop (`LocalHeld`, `RedisHeld`, `PipeHeld`, `CallHeld`) adds
  one lifetime or one delay to it. The copy of the first page (`CopyInv`) is as new as its
  time says because what a load is answered is no older than the load (`TimesTrue`), also when
  its page was left; what is shown is so because the one load of the page began no earlier
  than the time beside it says and has shown what it is past (`OneLoad`).
- `SecretsAlwaysHold`: for the step-up challenge, `Limits` counts the wrong codes recorded
  together with the requests that have compared one and not recorded it yet, and likewise
  for right ones. What is drawn is a code or a token; a code is gone from the
  row before its request is answered, a token when it is, and what is gone stays gone
  (`OncePerSecret`, `GoneStaysGone`). A row's lock ends no earlier than any lock its
  code ever had (`LocksKept`). A renewal under way carries the chosen password
  unless a reset overtook it (`ResetsCount`).
- `PagesAlwaysActAsShown` has one invariant for each page. `BrowserInv`: what a portal
  stores some tab of it shows (`StoredShown`), an answered sign-in made its session
  (`Answers`), a page waits for its one check before it asks anything else
  (`CheckFirst`), a tab that signed out is out of the reach of calls under way
  (`OutOfReach`, `Emptied`), and, unless accounts met, cookie, storage, tabs and checks
  are all one account's (`OneAccount`). `LoginInv`: each flag of the form keeps a second
  call of its kind away. `ConfigInv`: as long as nothing of a kind was
  asked twice at once, the call under way is for what is selected (`Fits`), so that its answer
  may be shown; `DiffTurns` shows that a comparison turns the one content into the other.

**`MCRecordsProofs`** (`KeysAssumption`, `StagesAssumption`, `CardsAssumption`: `None` is
no state, card or PAN). The step of the composition is one of each part
(`RegisterSteps`, ...), so each part has an invariant of its own.

- `DocumentAlwaysInForce`: `AllInForce` names for each application and type the
  request that owes it a document. `FilesAlwaysMatchRows` and `VerifiedAlwaysAsInspected`
  are proved from `[]NamesApart`: of the uploads of one type that are between opening a
  file and listing it, no two have the same file name. The condition is necessary (see
  Findings, *Locker*), is what the run's instance satisfies, and depends on the citizen
  only. Under it `FilesKept` is inductive: the file of an upload under way is its own and
  complete once stored, no listed row has its key, and every listed row's file has the
  row's checksum; `Inspected` adds that what is on an officer's desk is the file the
  row was listed with.
- `SubmittedAlwaysLinked`: a request names a property its application has named, and one
  that is about to link it has found or made the row (`RequestsName`); a submission
  whose insert collides is aborted, and so never reaches the COMMIT without its link.
- `VerifiedAlwaysAsConfirmed`: what a request has yet to write is the citizen's own, or
  the rest of a verification (`TodoIs`), and once the number is written, and only then, the flag
  may follow (`AfterNumber`, `AfterPan`).
- `DocumentsAlwaysShownAsNamed`: as long as nothing of a kind was asked twice at once,
  the one call of that kind is for what is unfolded or previewed (`HistoryNamed`,
  `PreviewNamed`), and an answered list covers what the page was told when it asked
  (`ListCovers`), because what it is told is stored (`ToldIsStored`) and it asks again
  with each thing it is told.
- `SavesAlwaysWhatWasTyped`: where requests do not overlap and none is lost, a draft
  field that was not typed is the stored one, or the one a call under way brings
  (`DraftCurrent`), and App's copies are current or the wizard knows of a card that
  App does not (`CopiesCurrent`), which is why leaving it then counts as walking away.

**`MCClientsProofs`** (`ClientAssumption`: the edits of the two sessions differ;
`PagesAssumption`: bounds are numbers, and `None` is no answer). One of the three sides
moves and the others rest, so each has its invariant.

- `OnlyFetchedAlwaysOverwritten` (`CitizenInv`): a version the browser holds is older
  than the row, or what the other session had written there by then was fetched
  (`Held`); the copies in answers, caches and the editor are of versions the row
  had (`Kept`), and rows only get newer (`Onward`). `RowsFit` counts the applications that are
  being made, so that the server always has a number for the next.
- `ClientsAlwaysShowWhatTheyName`: in the officer's page (`OfficerInv`), unless flows
  overlapped, one flow is under way and it leads to what is shown (`OneFlow`), and a
  preview that was not overtaken waits for its own document (`PreviewOwn`). In the
  pages of complaints (`PageInv`), the list, the text of the form and the photograph
  belong to what is shown or to the one call that was not overtaken (`NamedRight`).
- `ComplaintsAlwaysFiledOnce`: one filing at a time is of the form on the page
  (`FilesForm`), and a form that has no answer yet has one filing fewer than its losses
  allow (`FiledInv`): the answer, or its loss, makes up for it.

Only model-checked:

- the liveness properties (liveness, and `ENABLED` in its fairness, are beyond the
  prover);
- `CreditsAreBacked`, which sums over a set with a fold: a proof needs induction
  over data;
- `OneSideToMove` and `RecordsAgree`, which hold only while requests do not
  overlap (findings 3 and 4 are their counterexamples otherwise), a condition that is
  one of the run's instance and not of the model;
- `SeedingIsRepeatable`: it is about the order of one list of statements against one list of
  foreign keys, which TLC walks through; and `ReportsAddUp`, whose sum over
  sources is a fold.

## What is not modelled

- *Service versions, the working-day arithmetic of due dates.* A task is overdue
  or not; an application keeps its pack.
- *Other pack actions*: the `GENERATE_OUTPUT_*` names of the packs are ignored by
  `executeAction`; outputs come from the handler (`ProduceOutput`) and from downloads
  (`InsertOutput`). The checklist
  gate of the water and sewerage packs is left out.
- *Line items, discounts and the fee schedule*: a demand is its total.
- *The client's profile data* under `data_jsonb.applicant`, merged on each write.
- *Hashing, signing and the strength of secrets*: a code or a password is right or
  wrong.
- *Delivery of notifications* by mail or SMS: nothing in the system reads it.
- *Master data of a property*, merged column by column, and the citizen's own list
  of properties; *completeness* of a profile, which is arithmetic on the row.
- *Validation, filters and layout* of the front ends; their offline queue, which is
  never fed.
- *The seeded values* (passwords, profiles, dues, packs' contents), two scripts at
  once, and the runner of the migrations, of which only the keys are modelled.
- *Time buckets* of the report on cached data, who is signed in, and stored
  values that do not parse.
- *The circuit breaker*, declarations, administration, reports, anonymisation by
  age, deployment: record keeping, display or configuration without a protocol of
  their own.
