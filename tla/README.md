# ZOUSEEKING: specifications, model checks and proofs

This directory holds TLA+ specifications of the ZOUSEEKING backend
(`src/backend/app`, its operational scripts under `src/scripts`, the publisher
under `src/src`, PostgreSQL tables under `src/supabase/migrations`), the TLC
instances that check them and TLAPS proofs about them. Paths in this file are
relative to the repository root; paths without a directory are those of
`PROJECT.json`.

Contents: [the system](#the-system) · [modules](#modules-and-how-they-follow-the-code) ·
[runs](#runs-what-each-checks-and-its-bounds) · [fairness](#fairness) · [proofs](#proofs) ·
[divergences](#where-code-and-documents-disagree) · [limits](#what-is-only-checked-and-what-is-left-out) ·
[plan](#plan)

## The system

The product sells market reports on Japanese property. A FastAPI process serves
members, organisations and the back office; three loops run beside it
(`deploy/docker-compose.prod.yml`): one report worker, one collection worker and
an hourly scheduler that feeds collection runs, sweeps stale ones and applies
retention. Everything they share is in PostgreSQL, at READ COMMITTED. A payment
provider (Stripe), an identity provider (Supabase Auth), a geocoder and an image
model are called over HTTP; Stripe calls back with webhooks. All services restart
when they die. Beside the service there are programs that people run: the
publisher, the importer of transactions, backups and restore drills.

What is hard here is neither threads nor messages but *transactions*: several
processes read, decide and write in separate statements and commits, are
repeated by clients, by the provider and by leases, and may stop anywhere.

| Component | State | Operations | Meets | Hard because | Must hold |
| --- | --- | --- | --- | --- | --- |
| Report pipeline (`main.py`, `report_worker.py`) | queries, generation_jobs, property_reports, report_generation_outbox | submit or restart a query, run a legacy job; claim, generate, save, charge, finish, fail | usage quota | leases, stale workers, crashes between commits, resubmission | one charge per key, delivery before completion, fenced finish, open rows resolve |
| Usage quota (`usage/quota.py`) | plan_entitlements, usage_quotas, usage_events, usage_idempotency | consume one unit | every metered route, billing, back office | concurrent retries, limit edits, period change, lock order | tables agree, no double charge, never past the limit, no deadlock |
| Usage ledger (`usage/ledger.py`, `db_ledger.py`) | usage_reservations beside the quota tables | reserve, commit, release, consume | tests only | replays, a change of period, lock order, broken connections | counters are sums, a reservation ends once, never oversold |
| Webhook ledger (`billing/service.py`, `store.py`) | payment_events, failure rows of audit_events | claim, process, record a failure | subscription mirror, refunds | duplicate and concurrent deliveries, owner dies, retry budget | applied once per claim, marker true, 2xx only when done |
| Subscription mirror (`billing/store.py`) | subscriptions, membership tier | apply an event, refund events included | webhook ledger, refunds, quota limits | out-of-order and repeated events, several subscriptions, a refund that cancels what the provider goes on with | tier follows payment |
| Refunds (`billing/store.py`) | refunds, payment_orders | apply a refund event, recompute the order | webhook ledger, mirror | concurrent recomputation | order status is the sum of its refunds |
| Subscriber's requests (`billing/service.py`, `routes.py`) | customers, subscriptions' cancel flag | checkout, status, portal, cancel | provider, mirror | a remote call between reading and writing; late events; lost answers | a cancellation reported was accepted; the pages agree |
| Checkout and refund requests (`billing/service.py`) | payment_orders, refund requests | checkout of a report, completion, request and approve a refund | price book, refunds | prices edited while a session is open, double clicks | an order has a price that was active, orders only move forward |
| Price book (`admin/`, `billing/catalog.py`) | prices, billing regions, plan limits, the cached catalogue | edits by finance, reads by buyers | checkout, quota | cache, concurrent edits, several active versions | versions are unique and the newest active one is sold; one limit in force; the catalogue shows a price that was |
| Back office (`admin/`) | role_assignments, profile columns, collection_sources, admin audit rows | grant, revoke, edit, register, create; lists | every component | the roles are read on another connection than the change | every change audited once, by someone who had the role |
| Service tasks (`service_tasks.py`) | service_tasks, task_applications, contact_consents, task_status_history | create, apply, withdraw, match, consent, complete, confirm | organisations, back office | three parties in any order | one match, addresses only on mutual consent, complete history |
| Collection queue (`collection/`) | collection_runs, terminal audit rows, snapshot files | feed, enqueue, claim, run, record, sweep, verify | back office | slow and dead workers, several writers of one row and one file | one outcome per run, cadence, runs end |
| Organisation seats (`org/routes.py`) | organization_invitations, organization_members | create, revoke, accept | subscriptions (seat limit), account deletion | counting seats without a lock | seats within the limit, an invitation ends once |
| Invite codes, rate limit (`invites.py`, `rate_limit.py`) | invite_codes, redemptions, hourly counters | reserve, complete, release | identity provider | failure after the remote effect | uses count redemptions and open claims |
| Account deletion (`services/account_deletion.py`, retention sweeper) | account_deletion_requests and all private rows | submit, resume, sweep | identity provider, every table | repeated and concurrent submission, owner still at work, rows without a foreign key | completed leaves no row that refers to the user |
| Intake (`intake/`, `routes/intake.py`) | analysis_sessions, project_inputs, fields, previews, properties, private files | create, confirm, upload, preview, convert, expire | quota, storage | expiry and erasure against requests that have passed their checks; storage outside the transaction | a converted session stays whole; files are known |
| Free preview and renovation estimate (`intake/`, `renovation/`) | none | completeness, costs, comparables; merge and price observations | intake, an image model | boundaries of tiers, ambiguous wards; answers in any order | the sums are those of the rules and the evidence |
| Exports, analysis, regional statistics (`exports/`, `analysis/`, `region_stats_routes.py`, `org/routes.py`) | usage tables, exports, answers | export, organisation export, analyse, read statistics | quota, subscriptions, importer | check, charge and answer in separate steps | exports are paid and limited, statistics are paid or refused |
| Transaction importer (`scripts/import_mlit_transactions.py`) | mlit_transactions | import a file in chunks | regional statistics | stops between chunks and is run again | a rerun completes the import and counts nothing twice |
| Publisher (`src/src/jp_property_publisher`) | data set, registry, snapshots, four output files | prepare, quality-check, report | people | the files are written one after another | what is published is evidenced |
| Backups and drills (`scripts/backup_database.py`, `restore_drill.py`, `database_recovery.py`) | archives, manifests, remote copies, drill databases | back up, prune, upload, restore, drop | live database | failure between any two stages, two retentions, a prune that stops half way; two drills | an announced backup is kept for its retention; a passed drill restored |
| Recognition, authentication, front end, acceptance scripts, deployment | – | – | – | sequential, stateless or presentation | – |

`PROJECT.json` lists the same components with their status, and every hazard at
the line where it bites.

## Modules and how they follow the code

One module per component, one action per transaction or, where another
transaction may come between, per statement. Action names are the code's
function names or the statement they stand for, and the comment above an action
says which one. Operators marked `Mutant:` are plausible bugs; `PROJECT.json`
names, for each property, the mutant that breaks it. A property that a run checks
is often a conjunction of named parts (for instance `WorkIsAccounted`); the parts
carry their own comments and are what the proofs are about.

**ReportContract**, **ReportPipeline** (`MCReportPipeline`). The contract is what
a member may rely on, over three facts per query: the phase of the work (open,
completed, failed), the report and the charge; a query is charged once when it is
created, and a report is delivered and charged before its work completes. The
pipeline has the rows of the five tables per key, the lease and backoff as two
flags of the outbox row, and per worker the program counter through
`process_once` and `run_generation_job`. Every commit is an action and a worker
may crash between any two. Resubmission, restart of a failed job and the
three-statement legacy run are the API's actions. `ImplementsContract` maps the
outbox row to the contract's phase.

**UsageMeter**, **UsageQuota** (`MCUsageQuota`). The meter is the atomic counter
per period that callers think they have. UsageQuota is
`consume_current_entitlement` statement by statement: advisory lock on the
idempotency key, lookup, plan read, counter insert and row lock, check, event,
registry and counter. What a transaction has written stays in its record until it
commits; unique indexes make an insert wait for the row of an open transaction
and abort on a committed one. Plan edits, billing's counter upsert and the
calendar interleave.

**Ledger**, **PostgresLedger** (`MCOperations`). Ledger is the in-memory
reference: reserve, commit, release and consume, each under one lock and so each
one action. PostgresLedger is the database ledger that says it mirrors it, as
concurrent transactions with their row and advisory locks; `ImplementsLedger` is
the refinement. A reservation keeps the period it was made in.

**WebhookLedger** (checked as it stands). `handle_webhook` with its three
transactions, per concurrent delivery. Side effects are abstracted to how often
they were committed. The count of failure rows and the class of the last are read
in one step, in commit order.

**SubscriptionMirror**, **RefundSync**, **Subscriber** (`MCBilling`). What a
subscription or invoice event does to the mirror row and the tier, one event per
transaction, while the provider changes several subscriptions of a user and its
events arrive in any order or twice; `inOrder` remembers whether one overtook
another, so that properties can tell what holds always from what holds for
ordered delivery. A refund event is one of them: when the order of its charge
becomes refunded, the store cancels every row of the user's product and closes
the tier, whether or not the provider has ended the subscription
(`RefundOfOrder`; `store.py:1127-1151`). `revoked` has the subscriptions of which
a refund is the last news. RefundSync is the refund handler at statement level, because
its defect is there: the update of the order reads the sum of succeeded refunds
from its statement's snapshot and then waits for the row. Subscriber has the
user's own requests against the same rows: a cancel request reads, calls the
provider with no transaction open and then flags whatever is newest; answers get
lost, events arrive late, and status pages read different rows.

**ServiceTasks** (`MCOperations`). One task. Every handler locks the task row
first, so a handler is one action; refusals, idempotent answers and transactions
aborted by a constraint change nothing and are no action. The last kind matters:
after an administrator has moved a matched task to `in_progress`, the second
consent would leave `granted_at` null and the table's check aborts it, so
`grant_one` excludes it.

**CollectionRunners**, **CollectionQueue** (`MCCollectionQueue`). Runners are
operators: which configuration a source key resolves to, the aggregate and its
entries, the payload, its fingerprint, and how the sweeper judges a file. The
queue has the rows with their terminal audit rows, one file per source, the
workers with their interruptions, the feeder's open transaction, operators who
replace inputs, and a clock. The runner replaces the snapshot file as its last
act; afterwards the terminal write may find the row already ended. Cancellation
has no code in the repository; the worker's guard is written for a trusted
operator, who is an external action.

**Identities**, **InviteCodes**, **OrganizationSeats**, **Accounts**
(`MCAccounts`). The identity provider is external and shared by three modules:
registration (hourly counter, claim, provider call, completion or release, a
process that dies between any two), seats (statements of create, revoke and
accept with the locks they take, limits that change with the plan), and in
Accounts the two composed with deletion: submissions go through their stages
while the user still works, is invited and accepts; the sweeper follows. Rows that
refer to the identity go with it; usage counters (`counted`) only spell the user's id
out as text, so the anonymisation takes those it finds and the deletion of the
identity none.

**BackOffice**, **BackOfficeViews**, **PriceBook**, **Checkout**,
**AdminConsole** (`MCAdminConsole`, `MCOperations`). A back-office request reads
the caller's roles on one connection and changes something on another; BackOffice
has both halves as steps, with the role assignments, profile columns, source
registry and audit log. Views reads lists page by page while they change.
PriceBook has the pricing tables as concurrent edits and the cached catalogue
with its fallback; Checkout has one report of one user, from the session and its
completion event to refund requests, approvals, refunds made at the provider's
console, in part or in full, and refund events. An order's status is recomputed from
its rows both ways (`RefundStatus`), and an approval marks its row succeeded whatever
status the provider has answered (`MarkSucceeded`). AdminConsole composes them.

**FreePreview**, **Intake**, **RenovationEstimate** (`MCIntake`). FreePreview is
pure: completeness, acquisition costs, comparables and currency conversion of the
confirmed fields. Intake has the sessions, their rows, the private bucket and the
requests, each from the check of its session to its last write, beside cleanup,
erasure and conversion. RenovationEstimate is one request for an estimate: the
visitor's or the provider's observations of photos, merged per component and room
by a fold in the order in which they come, then priced.

**RegionStatistics**, **Statements** (`MCStatements`). RegionStatistics is pure:
normalised names, rows made from downloaded records, quartiles, series, rent
references, evidence. Statements has the metered reads as transactions in steps,
the importer in chunks, and subscriptions that come and go. A trend is charged and
read in one transaction (`ChargeTrend`) and judged after it (`AnswerTrend`), so a
series that is refused has been paid for. An answer is recorded with who saw it and
in which month, a charge with the digest of the request only.

**QualityGate** and **BackupDrill** (`MCOperations`). The publisher judges rows
against registry and snapshots and writes four files one after another; people
edit the three meanwhile, and a run may die. `prepare` and `report` are
given a directory each. A backup counts, dumps,
writes its manifest, prunes, uploads and prunes remotely, with a retention of its own and
one object after another, where the first failure leaves the rest; two drills restore, compare and
drop, in databases whose names may be equal.

## Runs: what each checks and its bounds

The suite is kept to a dozen runs that finish in minutes on two cores. Where
components share no variable, one run explores them side by side: its behaviours
stay in the *world* they enter, so each world is explored as if it were alone. No
interleaving of the modules is lost by that, because each models every writer of the
rows it has. In the code two of the billing worlds do meet: the refund handler
also writes subscriptions and the tier. The mirror's world therefore has that writer
itself (`RefundOfOrder`), and only what makes an order refunded, the sum of its
refunds, is the other world's (RefundSync).

| Run | Asks | Bounds and why they suffice |
| --- | --- | --- |
| `report_jobs` | Is a key charged once, are stale workers fenced, does the pipeline implement its contract, are open rows resolved? | Two worlds (`MCReportPipeline`): one key, two workers, two attempts, where a lease is lost to the other worker and comes back late and a retry can be the last; and two keys racing for the last unit under one worker, as deployed. |
| `report_unlock` | (violation) Does a paid report stay unlocked? | One key, allowance 1: the last unit is the first. |
| `quota_requests` | Do three tables agree, is nothing charged twice or past the limit, is every request answered? | Two transactions suffice for each pairwise conflict on key, fingerprint or counter; limits 0 and 1 put every charge at the boundary; two periods for the change of month. |
| `webhook_events` | Are side effects, marker and acknowledgement consistent, and does every event settle? | A valid, an invalid and an unsupported event, two deliveries, two attempts, one crash: first try, retry and dead letter all occur. |
| `webhook_owner_dies` | (violation) Does redelivery resolve an event whose owner died? | One event, one crash. |
| `billing` | Does the tier never run ahead of a payment, do ordered events leave what the provider has, is a revocation earned, is a reported cancellation one? | Three worlds (`MCBilling`). Two subscriptions, three changes or refunds at the provider, two periods: buy, fail, recover or cancel, an old with a new subscription, and a refund before, between and after renewals. Two refunds making up a charge of two, two handlers. Two plans, two cancel requests, one turn in the portal: a plan that is replaced between read and flag, a lost answer and a late event occur. |
| `refund_race` | (violation) Does a full refund revoke? | The refund world of `billing` alone. |
| `collection_runs` | Does a run have one outcome and one audit row, keep its cadence, and end; does the hash check report only replaced files? | Two runs, two workers, one source with three inputs (an old record, a newer one, none), one crash or signal, cadence and last tick 1: a swept worker is late while another executes, and fed runs and one of each origin occur. Sources share nothing but the workers. |
| `accounts_life` | Do codes count their redemptions, do seats hold, does a completed deletion leave nothing? | Two registrations and one code with one use; two accepts for one seat, limits two and three; two submissions of one user, who works on meanwhile; usage is counted from the moment a deletion is asked for. Two requests are open at a time, in any pairing (`MCAccounts!Bounds`). |
| `intake_sessions` | Are converted projects whole, files known, estimates right? | Two sessions, two requests, one cleanup pass that takes one session, one file (`Lives`); or one session that is only filled in, with prices around every tier and four addresses (`Estimates`): wards with a snapshot, one whose name contains that of an earlier one, and one without; or one renovation request of up to three photos with every answer the provider may give. |
| `statements` | Are exports billed, statistics paid for, imports whole, statistics right? | Two users, two organisations, two requests, limits 1 to 3; either two exports meet, or statistics are read while a file of nineteen records is imported in chunks of six, cut short and run again. One source has no version on record and one member a report without provenance, so evidence is refused too. |
| `operations` | Publisher, backups, drills, service tasks, reservations, back office and checkout | Five worlds (`MCOperations`). Three rows and two runs of the publisher; two backups within four days, kept for two days on disk and one in the bucket, so that each ages past either, and two drills with one target name, of every pair of programs but two of a source's inventory or two with owners missing; three organisations, one caller with one and one with two; two transactions over nine requests with two keys, two periods and limits two and three; two administrators, two requests, two audit rows, and finance with three prices against one buyer with two clicks and two refunds of a charge of two units, so that halves, a whole, a failure and a second row for one refund occur; there are three refund rows at most. |

What each property that is a conjunction says:

| Property | Parts |
| --- | --- |
| `WorkIsAccounted` | `TypeOK`, `ClaimsDistinct`, `RetryHasBudget`, `PendingJobHasRow`, `CompletedIsPaidFor`, `MetersExact`, `CompletedJobAgrees` |
| `ChargesAreTrue` | `TypeOK`, `TablesAgree`, `ChargedOnce`, `AnswersAreTrue` |
| `EventsAreKept` | `TypeOK`, `AppliedIsMarked`, `FirstTryIsExclusive`, `AcksAreEarned` |
| `NeverAhead` | `NoTierWithoutPayment`, `MirrorNeverAhead` |
| `RefundsAreTrue` | `SyncTypeOK`, `RevocationIsEarned`, `SerialEventsConverge` |
| `RunsAreAccounted` | `TypeOK`, `OneOutcome`, `OnlyCrashesAbandon` |
| `RegistrationsCount` | `TypeOK`, `UsesAreRedemptions` |
| `SeatRules` | `SeatsRespected`, `InvitationsEndOnce` |
| `EstimatesAreSound` | `PreviewsAreSound`, `RenovationsAreSound` |
| `ExportsAreBilled` | `ExportsArePaid`, `OneOrgExportAMinute` |
| `PublicationIsSound` | `PublishedIsEvidenced`, `MetricsAreClean`, `VerdictAfterNumbers` |
| `DrillsAreHonest` | `PassedDrillsRestored`, `OwnTargetsDropped` |
| `ContactIsMutual` | `TypeOK`, `MatchAgrees`, `WindowIsMutual` |
| `BooksAreRight` | `TablesOK`, `LocksNeverCross`, `CountersAreSums`, `ReservationEndsOnce`, `MeteredOnce`, `NeverOversold` |
| `ConsoleIsAccountable` | `DeskTypeOK`, `AuditIsComplete`, `AuthorityIsGranted` |
| `ViewsAreComplete` | `PagingIsExhaustive`, `AuditAnswersAreFull` |
| `SalesAreTraceable` | `PricingIsUnambiguous`, `OrdersAreReal` |

`CHECK_DEADLOCK FALSE` stands where the bounds, or the end of a task, stop the
system. The quota, webhook and statements runs check deadlock: there, everybody
waiting for everybody is a real hazard.

Symmetry is used only in runs without liveness, on sets whose elements only
occur as indices.

Bounds written into guards or MC modules, none of them in the code unless said:
`MaxAttempts` (the code's own), `MaxCrashes`, `MaxInterruptions` (faults);
`MaxChanges`, `MaxPending`, `MaxQueued`, `MaxTurns` (events and portal visits);
`MaxRuns`, `MaxRows`, `MaxLive`, `MaxBackups`, `MaxFiles`, `MaxAudit`,
`MaxPrices`, `LastInvitation`, `LastImport` (rows, runs and files that are ever
made); `LastPeriod`, `LastTick`, `LastHour`, `LastWindow`, `MaxDays` (clocks).
`Batch`, `PageSize`, `AuditLimit`, `ChunkSize`, `RowFloor`, `SeatCap`, `Cadence`
`RetentionDays` and `RemoteRetentionDays` are the code's parameters, made small so
that they are reached. `EventRows`, `Refunds` and `Cost` bound a checkout's refunds.

## Fairness

- **ReportPipeline.** Weak fairness of each worker's steps (`run_worker` loops,
  the container restarts) and of time passing (lease, backoff). Nothing forces
  a fault, a crash or a request.
- **UsageQuota.** Strong fairness of each transaction's steps: PostgreSQL's lock
  queues are first come, first served, so a transaction that can proceed again
  and again does. No client is forced to ask.
- **WebhookLedger.** Weak fairness of each handler and strong fairness of
  delivery while an event is unacknowledged: the provider redelivers for days
  with backoff. `EventSettles` excuses behaviours in which a process has
  crashed, because there the code does not deliver (`webhook_owner_dies`).
- **CollectionQueue.** Weak fairness of each worker (`--loop 0`), of the hourly
  sweeper and of a running row growing old. Neither the feeder nor an operator
  is forced.

All other modules are checked for safety only: their progress is a provider's or
a person's, or one request's that a client may abandon.

## Proofs

TLAPS checks, for every number of keys, workers, transactions, events and for
every limit:

- **ReportPipelineProofs**: `WorkAccounted`, `FinishIsFenced`,
  `DeliveryIsPaidForOnce`, `RetriesArePossible`, `CompletionIsFinal` and
  `Implementation` (of ReportContract).
- **UsageQuotaProofs**: `ChargesTrue`, `WithinLimit` and `Implementation` (of
  UsageMeter).
- **BillingProofs** (the mirror, refunds and a subscriber's requests):
  `NothingAhead`, `TierHolds`, `RefundsHold`, `CancellationsHold`, `PagesHold`.
- **CollectionQueueProofs**: `RunsHaveOneOutcome`, `FeederKeepsItsCadence`,
  `SnapshotsMatch`.
- **AccountsProofs** (registration, deletion, seats): `UsesAreCounted`,
  `CompletionErases`, `SeatRulesHold`.
- **ServicesProofs** (the webhook ledger; the back office, prices, sales and
  views; metered reads and the importer): `EventsKept` and `SettledFinal`;
  `ConsoleIsSafe`, `SalesAreSafe`, `OrdersAreSafe` and `ViewsAreSafe`;
  `ExportsAreCharged`, `StatisticsAreMetered` and `ImportsAreSafe`.
- **OperationsProofs** (the components the `operations` run puts side by side):
  `BooksHold` and `LedgerImplemented` (the database ledger implements the
  in-memory Ledger); `ContactStaysMutual` and `HistoryIsWhole` of service tasks;
  `PublicationIsSafe` of the publisher; `BackupsAreSafe` and `DrillsAreSafe`.
- **IntakeProofs**: `ConversionsAreSafe` and `FilesAreSafe`.

Where a run checks a conjunction, the theorem of the conjunction rests on one
theorem for each of its parts (`TypeCorrect`, `TasksAreTyped`,
`LedgerConsistent`, `FirstTryExclusive` and so on), which can be read and cited by themselves.

Each follows one argument: an invariant stronger than the properties (`IInv`,
or named for its part of the module) holds initially, is preserved by each action
(one lemma per action or group of conjuncts), and implies the property; the
temporal step is PTL. Every such invariant was checked by TLC on the instance of
its run before it was proved.

*Report pipeline.* The safety properties are not inductive: that a finish is
fenced depends on tokens never coming back, and that completion is paid for on
what a worker has done so far. `TokensFresh` says that the newest token of a row
is the one of its running claim and that a worker holding it knows the row's
attempts; `ProgressRecorded` says what is on record for each position of the
worker; `RowsExist` ties the rows of a key together. `CompletedJobAgrees` needs
what a first claim means for its worker (`FirstClaimStep`). The refinement maps
every step to a contract step or a stutter under this invariant.

*Usage quota.* `LocksExclude` (no two transactions hold the advisory lock of one
key, or one counter's row) and `ChecksHold` (what a transaction has read and
checked still holds at its commit) strengthen `TablesAgree`; the cardinality
facts are those of the library's FiniteSetTheorems.

*Webhook ledger.* `FailuresAreRecorded` and `OwnerHoldsReceived` (an owner's
event is in a state it owns) make exclusiveness and acknowledgement inductive.

*Service tasks.* The match and the window need `ConsentFits`: without a consent
row nobody has granted. `HistoryIsComplete` is inductive; its step is one lemma on
an appended row (`HistoryRowKept`), and each action's part is that the transition
table allows its step.

*Usage ledger.* `LedgerInv` adds to the sums what the three locks protect:
`LocksExclude` says that no two transactions hold one request key, one reservation
or one counter's row, and `KnowsItsRow` that what a transaction has read under them
(the key is new, the reservation has these units in this period and has not ended,
the limit is the row's) is still so when it commits. A commit then adds an event to
one sum or moves a reservation's units from one to the other (`UnitsAdd`,
`UnitsRemove`). Only a commit writes the tables (`OnlyCommitsWrite`), and under the
invariant it is a method of the in-memory ledger (`CommitIsAMethod`). That locks
never cross is shown for the order in which they are taken: the transaction that is
furthest along it waits for nobody (`SomeoneGoesOn`).

*Subscription mirror.* What events under way say has to stay true until they are
applied, however late: `PendingIsTrue` says that a live status or a paid invoice
among them implies a payment, and a canceled one that the provider has canceled.
It is preserved because the provider never leaves `canceled`; one lemma
(`ChangeKept`) covers all its changes, another (`PendingAfter`) the sequence left by
an acknowledgement. A row may be canceled ahead of the provider in one case, a refund of
a charge that has an order, and `MirrorNeverAhead` names it. That ordered events leave
mirror and tier as the provider has them, or canceled where a refund is the last news, is
not inductive while events are pending. `FollowInv` says that an event which makes the row
comes before the invoices that need it (`RowsCome`), that a charge's order comes before its
refund (`OrdersCome`), that a subscription whose last news is a refund is canceled or has the refund under
way (`RefundsCome`), and
that the last event about a subscription says what the provider, or the refund, has made
of it (`Following`).

*Refunds.* `SyncInv`: what a handler has summed up is at most what ever succeeded, so
a revocation is always earned (`Earned`); and while refunds are handled in order and
one at a time, the last event of a refund, or else the handler at work on it, or else
its row, has the provider's status (`LastWord`). The race of `refund_race` is not
excluded, and `SerialEventsConverge` says so by its premise.

*A subscriber's requests.* `SubscriberInv` follows a cancel request from its read to
the provider's answer and to the flag: every trace of a cancellation is of a plan
whose cancellation the provider accepted, or that became the newest in between
(`EndsAreTold`).

*Collection queue.* `RunsAreHeld` ties a worker to the one run it executes, and
`AuditsAgree` a status to its audit rows. What the feeder has found due stays due until it
inserts (`DueStaysDue`), because nobody else inserts runs of its own. The file of a
source is of a run that was executed, whose recorded fingerprint is the file's as
long as no other run has replaced it (`FilesAccounted`).

*Back office.* `AuditIsComplete` says that the tables follow from the log, entry by
entry. It is inductive with what a request holds between its two transactions:
a profile that was read for update is as it was read and nobody else has read it
(`ReadsHold`), and an actor who changes roles has been empowered by an entry that is
in the log already (`CallsFit`), however often roles are revoked in between. The
lemmas on the log as a value say once what an appended entry changes of what it
tells, and each operation cites them. Prices and sales have invariants of their own
(`PriceInv`, `OrderInv`): the versions of a product are numbered upwards and none
occurs twice, though two edits may run together and leave several of them active; a
purchase keeps the version it was offered at each of its positions; a refund row with an
id of the provider's is of a refund accepted for its order, and says succeeded only of
money that was paid out or that an approval has asked for (`RowsHold`); no refund has
two rows (`ProvidersDiffer`); an approval that has its answer has a refund of its row's
order (`ApprovalHolds`). The three share no variables,
so a step of one leaves the others' invariants alone. Reading is a fourth
(`ViewInv`): the rows a reader has are the first pages of the list, unless it was
changed under him, and an audit answer is cut after the filter.

*Intake.* `IntakeInv` says why cleanup and conversion do not meet although neither
waits for the other: no pass has taken the files of a session that has time left, is
locked or has been converted (`KeptAreStored`), because a pass skips locked rows and
the clock only goes on. `LocksHold` gives a locked row to the one request that converts
it and keeps its status while it does; `FilesHeldOnce` says that a file is recorded by one
session or held by one upload, so nothing else deletes it; `PreviewsCharged` carries
the charge from the request to the session. `PropertiesHold` is the converted project itself.

*Metered reads and the importer.* `StatementsInv` has a part for each.
`ReadsInv`: the key of a user's export is one of the numbers given out so far, and that
of an organisation's names its minute, so a new key is new (`KeyFits`); there is
one charge for each export and no other for rows (`ChargesHold`), and a counter is the sum
of its month's charges, counted in units (`MeterHolds`). While a transaction holds the
lock of an organisation's key nobody else holds it and nothing is exported under it
(`KeysLocked`); it is why the charge before the insert is never a replay. A request
between its charge and its answer has a charge under the key of what it asks
(`AnswersPaid`), whatever its retry does, and no scope has two charges of one key; that
a key stands for one request is what makes different requests cost different charges.
`ImportInv`: all usable records of the file under import are among its rows, and those
before the next chunk are in the table, where merging a row never changes its key. An
import that dies leaves the table with one row of each key, which is all the next one
needs.

*The publisher.* `GateInv` says that every file holds the judgement of what its run had
read, and that no file is of a later run than the one written before it
(`RunsAgree`). That a judgement which passes is sound is proved of the judgement
itself, for every sequence of rows, registry and disk: what each rule rejects, which
rows a metric may count (`MetricHolds`), what an eligible trend is made of
(`TrendHolds`).

*Backups and drills.* `FilesInv` has the files at each step of a run (`StepsHold`) and
what is kept of an announced backup (`KeptLocally`, `KeptRemotely`); the hard step is
pruning, where what is removed must be older than anything announced within the
retention, that of the disk for local files and that of the bucket for remote ones. The
remote part says nothing of what is older than the remote retention, which may be the
shorter one, and an archive and its manifest may then part. `DrillsInv`: while a drill
works on a database it is its own; the manifest it started from stays what it was
(`Settled`); and evidence passes only at the end of a drill that has seen every
assertion pass.

*Accounts.* `ClaimsAreHeld`: a request that has claimed a use and neither completed
nor released it has the reservation of its address, and has it alone; so uses stay
the number of redemption rows. `DeletedIsErased`: a deleted identity keeps no row that
refers to it, and every completed request is about one. Usage counters refer to nobody
and are no part of it: one that is counted between the anonymisation and the deletion
outlives both. For seats, `AcceptsExclude`: one transaction
accepts at a time, and the seat it has found stays free until it takes it.

Assumptions are the named `ASSUME`s of the modules; TLC evaluates them in every run.
They say that limits, amounts, cadences and bounds are naturals, some of them
positive; that users, workers, sources and refunds are finite sets, because the
code counts their rows, and staff one too, because it lists them; that `NoKey` and the
like are outside their sets, and ids of rows that clicks and events insert differ; that
both retentions are positive; that assertions are a sequence of row counts
(`AssertionsAreListed`), and that rows and snapshots are what the publisher's parser
makes of text (`RowsAreRead`); that memberships, reports and downloads are lists, that
monthly limits are naturals and of metered kinds, and that no organisation is the absent
one (`StatementsAssumption`); that a lock's holder is a request (`RequestsAreNamed`);
and, for `LedgerAssumption` of the usage ledger, what `_validate_common` enforces of a
request: positive units, and a reservation key exactly where the operation has one.

## Where code and documents disagree

Three disagreements are runs with expected violations (see `findings` in
`PROJECT.json`): the report paid for with the last unit is locked
(`report_unlock`), two partial refunds handled together are not a full one
(`refund_race`), and an event whose owner died is never resolved
(`webhook_owner_dies`). Others met while modelling, visible in the models but
without a run of their own, because a property that holds had the better claim to
the slot. The models follow the code in each of these but the one marked
*outside the models*.

Reports and usage

- *Exhausted rows* (`report_worker.py:92`). Resubmission sets a row to `pending`
  and keeps its attempts; with none left no worker may claim it. A crash in the last
  attempt leaves `running` for good in the same way (`report_worker.py:52`).
  `OpenRowsResolve` therefore speaks of rows with attempts left. The
  architecture contract says that a row is retried or failed.
- *Resubmission resets a running row* (`report_worker.py:92`,
  `main.py:835-856`): its worker goes on unfenced until its finish, and the row
  is generated twice, though charged once.
- *A stale worker's failure* marks job and query failed without checking its
  claim (`main.py:711`); a row that was claimed more than once can be completed
  and have a failed job. `CompletedJobAgrees` speaks of first claims.
- *Delivered and unpaid* (`main.py:699`): the report is saved before the
  allowance is charged, and stays when the charge is refused.
- *Legacy requests* (`main.py:936`): dying between its three commits leaves a
  running job whose row has failed, answered `wait` for ever once a report exists.
- *Replays are free*: the keys of analyses and regional statistics contain neither a
  user nor a period (`region_stats_routes.py:36`, `analysis/routes.py:263-274`), so one
  charge of a scope answers the same request for every member of an organisation
  and in every later month. For analyses, which read the caller's own reports, these
  are different statistics. `docs/operations/first-week-observation-dashboard.md:34`
  and `:38` demand a difference of 0 between answers and events. `StatisticsArePaid`
  is about different requests, and says so.
- *Two scopes*: members of a subscribed organisation are charged on its scope,
  while `/member` and `/usage` show their own; the row cap of exports follows the
  personal plan, so their exports are cut silently.
- *Statistics charged without an answer*: the charge of a region's figures is committed
  before the rows are read. That of a trend is committed with the read
  (`region_stats_routes.py:282-309`), but the series is made and its evidence judged
  afterwards (`329-345`, `425-426`), so a refused series keeps its charge. With the
  importer's single source id (`SOURCE_ID`) neither a refusal nor the status
  `incomparable_periods` is met; the models have both.

Billing

- *Webhook retries* (`store.py:499-505`): the re-claim of a failed event ignores
  the row count of its update, so two redeliveries may both own the retry.
  `FirstTryIsExclusive` stops at the first failure.
- *Subscription events*: a late `invoice.paid` opens the tier of a
  canceled subscription; a late `subscription.updated` revives its row; a late
  checkout event clears the cancel flag (`store.py:867`). With two subscriptions
  the tier follows the last event, not the living one (`store.py:953`), against
  `docs/superpowers/reports/2026-09-11-zouseeking-per-report-currency-task-report.md:27`.
  `TierFollowsMirror` requires order and a single subscription.
- *A refund ends what goes on*: when the order of a subscription charge becomes
  refunded, all the user's rows of the product are set canceled and the tier closes
  (`store.py:1127-1151`), whichever subscription was charged, while the provider's
  goes on; its next invoice opens the tier and its next event the row.
  `MirrorNeverAhead` and `TierFollowsMirror` name the case.
- *Refunds*: a late `refund.created` takes a succeeded refund back to pending,
  and a succeeded refund that fails later does not reopen its order.
  `BillingGatewayError` is no `TransientBillingError`, so `approve_refund` never
  reaches `mark_refund_retry` with the HTTP gateway, although
  `docs/architecture/2026-09-11-system-architecture-and-logic.md:477` says that
  temporary failures are recorded for a retry; no route calls it; and it marks a
  request `succeeded` and its order refunded whatever status the provider answers
  (`service.py:400-408`), so a refund that is pending or fails there counts as paid
  back. A double click makes two pending requests despite the docstring's guard.
- *Refunded orders go back*: the order is recomputed from the rows that say succeeded
  at that moment (`store.py:1157-1165`). After a success was taken back by a late event or
  a failure, the next success of a part takes the order from refunded to partially
  refunded. `OrdersMoveForward` only excludes a return to paid.
- *Several active prices*: two edits of a price at once leave both versions active;
  the higher one is sold. No index forbids it.
- *Cancellation* (`billing/service.py:338`): the newest row at the time of
  recording is flagged; if another plan has become the newest, it is flagged without
  anybody having asked the provider, and the next request answers "already
  requested". `CancellationsAreReal` names the exception.
- *Pages*: `/subscription` shows the newest row even when it has ended; two
  checkouts opened before the first completes make two customers, of which the
  portal reaches the last.
- *Currency*: `payment_orders` admits no SGD (migration 20260905000500, line 55)
  while `billing/catalog.py:83-95` sells in it and
  `docs/release/phase-one-release-checklist.md:12` lists it: the completion event of
  an SGD session always fails. Sessions paid in full by a promotion code leave no
  order, delayed payments stay pending.

Organisations, accounts, back office

- *Consent* (`service_tasks.py:298`): the transition table lets an administrator
  move a matched task to `in_progress` without anybody's consent, and then the
  second consent is aborted by a table check for ever
  (`service_tasks.py:343`). The transition test is named
  `test_frozen_transition_matrix_requires_consent_before_progress`. The 72-hour
  lapse of a match described in the migration has no code.
- *Backups of deleted accounts*: a completed deletion nulls the request's `user_id`
  (migration 20260920000300) and `_primary_data_is_anonymized`
  (`account_retention_sweeper.py:112`) answers false without one, so
  `backup_expired_at` is never recorded; `docs/data-dictionary.md:129` says that the
  sweeper records it once.
- *Deletion answers* (`routes/privacy.py:87`): 503 "no account data was changed"
  may follow the anonymisation. The append-only trigger of `audit_events` blocks
  the deletion of users it names. `usage_quotas` has a text `scope_key` and no foreign key
  (migration 20260905000300, lines 38-71), so a counter written between the
  anonymisation and the deletion of the identity survives a completed deletion, though
  `account_deletion.py:126` and `account_retention_sweeper.py:134` count it as the
  user's data. Rows of `analysis_sessions` are removed without
  their private files (`account_deletion.py:123`).
- *Last administrators*: two super-admins can revoke each other, while the
  docstring of `revoke_role` says that only the database can lock the console out.

Intake, estimates, statistics

- *Expired sessions* (`intake/repository.py:556`): `expire_sessions` selects
  sessions that have already expired, oldest first and at most 100, so the files of
  later ones are never deleted once there are 100
  (`docs/data-dictionary.md:94`).
- *Wards* (`intake/market_engine.py:198`): the first snapshot whose ward name occurs anywhere
  in the address is taken (東住吉区 is answered with 住吉区); the docstring at
  `completeness.py:166` says "Never approximates across wards." `ComparableFits` admits
  an earlier listed ward whose name is a part of the address's own, and nothing else.
- *Prices*: `_numeric_value` strikes out 万, so "3,980万" is 3980 yen, and costs use an asking
  price that nobody has confirmed.
- *Trust*: manual evidence is always `unreviewed`, so `source_trust` is always empty and a
  `conflict` cannot occur.
- *Projects*: two sessions with addresses that normalise to one but are spelled
  differently may both pass the duplicate check.
- *Image answers* (`renovation/vision.py:81`): ids are compared as sets; an answer that
  names a photo twice passes and then fails as an unhandled validation error
  instead of the documented 503.
- *Imports*: a corrected record, or one transaction from both CSV and API, has another
  key and is counted twice.

Operations

- *Snapshot check* (`collection/sweeper.py:392`): every recent succeeded run is
  compared with the one file of its source, so older runs alarm as soon as the
  content changes, and a swept run's late write does the same for the newest. The
  sweep exits 1 after any ordinary update.
- *Drill clean-up* (`restore_drill.py:191`): prints `CLEANUP_FAILED` and returns 0 with
  the drill's database left; `docs/operations/database-recovery-runbook.md:28` and
  `:47` say that a failed clean-up exits non-zero. `PassedDrillsRestored` admits a
  database left behind by this program only; `database_recovery.py` keeps the promise.
- *Remote objects*: the runbook's line 9 says that the script never deletes remote
  objects; `backup_database.py:190-247` prunes them. The remote retention is a
  setting of its own (`backup_database.py:141-149`, `265`, `293`) that
  `--retention-days` does not change. Where it is shorter and a deletion fails, the
  manifest of a backup that is still kept on disk can stay in the bucket without its
  archive. `AnnouncedBackupsAreKept` holds each place to its own retention.
- *One directory for two commands* (`cli.py:108-122`), outside the models: `report` writes
  `monthly_metrics.csv` and `summary.json` as `prepare` does; given one output
  directory, it replaces judged files by unjudged ones.
- *Manifests*: rows are counted before the dump, so a write between the two makes a
  good archive fail its drill.

## What is only checked, and what is left out

- Liveness under fairness (`OpenRowsResolve`, `RequestsEnd`, `EventSettles`,
  `RunsSettle`) is model-checked only: TLAPS has no support for it here.
- What folds and recursive functions compute for every input (medians, merges,
  fees, completeness) is compared with a set-based reference for the inputs of
  the runs, not proved: the library's induction theorems need an operator parameter.
- So two invariants that speak of nothing but medians, merges and estimates are
  model-checked only: `EstimatesAreSound` and `StatisticsAreSound`.
- Contents: reports, prices, snapshots, addresses and messages are model values, small
  records or absent. Audit rows are modelled where they are read (webhook failures)
  or compared (collection outcomes, the back office).
- Partly modelled: the subscription mirror (no organisation scope, no orphan rows
  for want of a price snapshot); organisation routes (seats, invitations, exports
  and tasks, not the lists); exports and account reads (what is charged and capped,
  not the format).
- Not modelled: image recognition (one image, one remote call, no state);
  authentication, token checks, observability and logging (stateless); the acceptance,
  release-consistency and sample scripts (run by hand, nothing depends on them); the
  web front end; deployment, which enters as the number of processes and their
  restarts; row-level security, which the service role bypasses.

## Plan

Done: every component that keeps state. What would add most next, in this order:

1. Compositions. WebhookLedger over SubscriptionMirror (a retry whose side effects
   are applied twice), and ReportPipeline over UsageMeter (UsageQuota implements it
   already, so the pipeline's charge becomes the meter's step).
2. Organisation scope of the mirror, and the lists of the organisation routes.
