# A verification model of TurnoGo

TurnoGo (repository `turnobot`) is a multi-tenant appointment system: a Flask
application with a public booking form, a booking assistant, an administration
panel per business and a platform panel. Production runs several worker threads
and processes on PostgreSQL; SQLite is a development fallback in which
`BEGIN IMMEDIATE` serialises every writer. This directory holds TLA+ modules
that model the program, TLC configurations that check them on small instances,
and theorems that TLAPS proves for every instance.

## The system

Almost every operation is scoped to one business, so the models have ONE business:
two businesses share no row and no lock key (`pg_advisory_xact_lock(business, key)`).
`Domains`, where hosts are unique across businesses, has several.

| Component | State | Operations | What is hard | What makes it correct |
|---|---|---|---|---|
| Appointments (`services/appointments.py`) | table `appointments` | create, reschedule (client, panel), cancel | READ COMMITTED transactions that check and then act, on intervals no unique index can express; advisory locks on contacts and days | no double booking, the quota of each contact, no deadlock, one booking per key, answers that match what happened |
| Status changes (`update_appointment_status_scoped`) | the same table | confirm, cancel, complete, no-show | a status read before a lock | a cancelled appointment stays so; nothing is confirmed over another appointment |
| Hours, services, resources (`routes/admin.py`, `get_available_times`) | weekly hours, grid, services, resources | save, toggle; offer free times; accept a time | no lock covers the panel's writes; what is offered and what is accepted are computed apart | a time that is listed is accepted; nothing is written outside the hours |
| Pool and transactions (`database/pg_pool.py`) | connections, open transactions | checkout, commit, rollback on close, lock timeout | crashes and timeouts in mid-transaction; a second checkout while one is held | locks never outlive their transaction; the pool does not starve |
| Notifications (`services/notifications.py`, two cron scripts) | `notification_log` | claim, send, record, retry, remind | a crash between claim and result; stale claims taken over; late results | each e-mail at most once per claim, bounded retries, nothing stuck |
| Loyalty (`services/loyalty.py`) | accounts, ledger, rewards, redemptions, settings | award, adjust, redeem, recalculate, save | a cached balance next to a ledger; an award in a transaction after the status | points never negative, one award per appointment, one payment per key, a balance that is the sum of the ledger |
| Accounts (`services/platform.py`, `routes/auth.py`, `routes/invitation.py`, `routes/superadmin.py`) | business, users, tokens, sessions | register, approve, suspend, invite, accept, reset, log in and out | tokens used twice or after revocation; several transactions per operation | a token works once; a reset ends the sessions that were open; an approval invites the owner |
| Memberships (`services/memberships.py`) | `business_users` | add, change role, remove | two owners at once; the actor's role changes meanwhile | a business keeps an owner |
| Domains (`database/business_domains.py`, `routes/business_domains.py`) | `business_domains` | add, rotate, verify, inspect, activate, deactivate, revoke, elect | DNS and TLS between a read and a write | a host is owned only with the last token; a primary host is live |
| Tenant resolution (`application/tenant.py`) | none | resolve a visit | rows change between visits | a custom host reaches only the business that proved it |
| Assistant (`services/ai.py`, the chat route) | the loop of one message | answer, call tools, retry | a language model that answers anything, for ever, or fails | bounded calls, one change per message, confirmed only if made |
| Conversations (`services/conversations.py`) | conversations, messages, question counters | find, create, store, hand off, resolve | two first messages at once; a cookie written by overlapping answers | one conversation per phone; a visitor goes on in his |
| Migrator (`database/pg_migrator.py`, `_init_postgresql`) | executed and recorded migrations | plan, adopt, execute; bootstrap | two runners and an application at once, of different releases; crashes; lost records | each migration once, in order, as recorded |
| Rate limits, CSRF, knowledge, metrics, onboarding, backups, factory, pages | - | - | queries, formatting, files | - |

The routes call the services in the request's own thread. Components meet in the
database: bookings and status changes meet on the table and the locks; a booking
reads the hours that the panel writes; it is followed by notifications, a completed
appointment by an award of points, each in a transaction of its own after the first
has committed. The assistant's tools call the appointment services and write the
conversation. Cron scripts run next to the web workers; the migrator and the
bootstrap of a starting application meet on one lock.

`PROJECT.json` lists the components with their status and every hazard at the line
where it bites, with the properties that would catch it.

## Modules

| Module | What it is |
|---|---|
| `Rows` | rows, instants, overlap of intervals, the slot grid, the closing check, the count of upcoming appointments |
| `Calendar` | abstract: an agenda whose every change is one legal atomic step |
| `Booking` | the appointment code as it runs, one action per SQL statement and the Python after it |
| `BookingClaims` | what docstrings, comments, tests and answers say of that code, where the code does otherwise |
| `BookingProofs` | type correctness, no circular wait, no double booking, the quota, the refinement of `Calendar` |
| `Hours` | the panel's configuration, the free times that are offered and a booking's checks against both; an instance of `Rows` |
| `Notifications` | the claim, sending, recording and retrying of the e-mails about appointments |
| `NotificationProofs` | type correctness and the bounds on e-mails sent |
| `HoursProofs` | what is offered is accepted; bookings are inside the hours |
| `Points` | abstract: points that never go below zero, earned once and spent once |
| `Loyalty` | awards, adjustments, redemptions, recalculation, rewards and settings |
| `LoyaltyProofs` | the ledger, the caches, the refinement of `Points` |
| `Roster` | abstract: members that always have an owner, tokens that are spent once |
| `Accounts` | the business, its users, members, tokens and sessions |
| `AccountsProofs` | owners, tokens, sessions, approvals, the refinement of `Roster` |
| `Reception` | abstract: a message joins one conversation, makes one change at most and gets no confirmation of another |
| `Assistant` | the chat route, the loop of tools, the conversations and the panel's page of them |
| `AssistantProofs` | bounded calls, conversations kept, the refinement of `Reception` |
| `Lifecycle` | abstract: the life of a custom domain, as `docs/custom-domains.md` has it |
| `Domains` | the operations on custom domains, DNS, certificates and the tenant of a visit |
| `DomainsProofs` | tenants are proven, the refinement of `Lifecycle` |
| `Migrations` | the runner of migrations and the bootstrap of an application |
| `MigrationProofs` | the record tells the schema, plans stay valid |
| `MC*` and `*.cfg` | small instances for TLC |

### How `Booking` corresponds to the code

A request `r` is one HTTP request: it is served once by its own thread and
transaction. `pc[r]` names the statement it runs next; `want[r]` is the row it
means to leave, `origin[r]` the slot it read before any lock, `wait[r]` and
`held[r]` its advisory lock keys, `reply[r]` the reason the service returns. A
request that books inserts the row whose id is `r`.

| Code | Actions |
|---|---|
| `create_appointment` (public form: `book`; panel: `manual`) | `BeginCreate`, `Acquire`, `Replay`, `QuotaPhone`, `QuotaEmail`, `OverlapCheck`, `Insert`, `Winner` |
| `reschedule_appointment` (`move`) | `BeginMove`, `Acquire`, `Reread`, `Occupied`, `OverlapCheck`, `QuotaPhone`, `QuotaEmail`, `Update` |
| `reschedule_appointment_admin` (`shift`) | `BeginMove`, `Acquire`, `Reread`, `OverlapCheck`, `Update` |
| `cancel_appointment` (`cancel`) | `BeginCancel`, `Acquire`, `Cancel` |
| `update_appointment_status_scoped` (`status`) | `BeginStatus`, `Acquire`, `SetStatus` |
| `lock_timeout`, a lost connection or a dead worker, the business clock | `LockTimeout`, `Crash`, `Tick` |

Each action reads what is committed when it runs (READ COMMITTED). Statements
that read nothing another request writes are merged with the one before them. A
write and its COMMIT are one action, because nothing the transaction has locked in
between is visible to others but the row itself. The SELECT and the UPDATE of
`cancel_appointment` are one action: both ask for `status = 'confirmed'` and both
answer `False` otherwise. The schedule is a constant here; `Hours` lets it change.

Two history variables record what the panel does outside the public rules:
`unlimited`, the rows placed without counting the quota (`manual`, `shift`), and
`reopened`, the rows a status change confirmed again without looking at the
agenda. Rules that the code does not promise for those rows exclude them by
name.

Days are ordinals, minutes are numbers, contacts and keys are model values; a
schedule is the sequence of opening blocks of each day. Contact lock keys are a
function that may collide, as a 30-bit hash may, above every day ordinal.

### How `Hours` corresponds to the code

| Code | Actions and operators |
|---|---|
| `admin_save_service`, `create_service_scoped`, `update_service_scoped` | `SaveService` (`ValidService`, `Added`, `Updated`) |
| `admin_toggle_service`: reads the row, writes it back | `BeginToggle`, `CommitToggle` |
| `admin_update_business_settings` | `SaveSettings` (`ValidGrid`, `ValidGap`, `Given`) |
| `admin_save_weekly_schedule`, `_validate_weekly_schedule_entry` | `SendWeek`, `CommitWeek` (`ValidWeek`, `Stored`) |
| `admin_create_resource`, `admin_toggle_resource` | `CreateResource`, `ToggleResource` |
| `get_available_times`, `get_available_slots` | `Offered` (`Needed`, `Occupying`, `Clear`), `Slots` of `Rows` |
| `create_appointment`: service and resource, grid, day lock, `_fits_closing`, overlap and INSERT | `BeginBook`, `CheckGrid`, `TakeDay`, `CheckClosing`, `Insert` |

No lock covers the panel's writes, so they interleave with the five steps of a
booking. Its overlap check and INSERT are one step under the day lock: how they
compete with other bookings is the subject of `Booking`. `fitted` is history: the
booking's interval was inside the hours at some moment since it has the lock.

### How `Notifications` corresponds to the code

A note is a row of `notification_log`: one type of e-mail of one appointment. A
sender is a process that goes through a batch of notes (`todo[s]`): the web thread
that has just booked, a run of the reminder script or one of the retry script.

| Code | Actions |
|---|---|
| `dispatch_booking_emails`, and its counterpart in `public_api.py` | `Dispatch` |
| `send_reminders.py`, `list_reminder_candidates_scoped` | `StartReminders` |
| `retry_failed_notifications.py`, `list_failed_notifications_scoped` | `StartRetry` (`Due`, `Batches`) |
| the reads before the claim: settings, and the appointment in `_resend` | `Pick` |
| `claim_notification_scoped` | `Claim` (`Old`, `Claimable`) |
| `get_notification_state_scoped` | `ReadCount` |
| `_send_email` | `Smtp` |
| `upsert_notification_log_scoped` | `Record` |
| the end of the batch | `Return` |
| a process killed, a status change, the switch of the panel, time | `Crash`, `CancelAppointment`, `Reconfirm`, `Toggle`, `Tick` |

Each of the four steps of `_send_and_log_notification` is a transaction of its own
(or the SMTP dialogue), so each is an action. The INSERT of a 'pending' row is
part of the claim's transaction: nobody sees 'pending', and the model has one
value, `absent`, for it. Two numbers stand for the timestamps of a row: `age`,
since the last attempt, which only the staleness test reads, and `left`, until the
next one. The unit is fifteen minutes: the base delay and the staleness limit of
the code are one unit. Of rows that are already due `left` keeps only the order in
which they became so: it falls below zero for all of them when another row joins
them (`Matures`). The listing takes the first `Limit` in that order; among rows that
became due in the same unit the code decides by the second and then by the id, the
model lets any go first. The rows of one batch are sent in any order, which contains
the order of the code. SMTP is configured and destinations exist; without them
nothing is claimed.

Three variables are history, and no action reads them: `mails`, the e-mails that
reached the recipient's server; `unsure`, the occasions that justify one more (a claim
taken over before its result was recorded, an answer of the server that was lost);
`contested`, the senders that share their note with another since a stale claim was
taken over from one that was still sending. `contested` knows nothing of lost answers.

### How `Loyalty` corresponds to the code

| Code | Actions |
|---|---|
| `admin_update_appointment_status`, then `award_points_for_completed` | `BeginStatus`, `AwardRead`, `AwardRate`, `EnterAward`, `CommitSum` |
| `adjust_points` | `BeginAdjust`, `EnterAdjust`, `CommitSum` |
| `redeem` | `BeginRedeem`, `EnterRedeem`, `CommitRedeem` |
| `recalculate_all_balances_scoped` | `BeginRecalculate`, `RecalculateSum`, `RecalculateUpdate`, `RecalculateCommit` |
| `update_loyalty_settings_scoped`, `ensure_loyalty_settings_scoped` | `BeginSettings`, `EnsureSettings`, `SaveSettings` |
| `save_reward`; `admin_recompensa_estado`: reads the reward, writes it back | `SaveReward`; `BeginToggle`, `Toggle` |
| `lock_timeout`, a dead worker | `LockTimeout`, `Crash` |

A movement is two steps: what its transaction reads under the business's lock, and
its commit, which appends to the ledger, writes the cache and, for a redemption,
the redemption. `total` is `SUM(delta)`; the movements before the start are in
`Opening`. Recalculation takes no lock: it reads and writes one account after the
other, and each row it has written stays locked until its commit (`RowFree`).

### How `Accounts` corresponds to the code

| Code | Actions |
|---|---|
| `provision_business` | `Register` |
| `approve_business` | `BeginApprove`, `Unpend`, `Open`, `FindOwner`, `IssueToken` |
| `superadmin_negocios_activar`, `_desactivar`; `_reinviar` | `SetActive`; `BeginResend`, `RevokeTokens`, `IssueToken` |
| `create_staff_invitation` | `BeginInvite`, `LookUp`, `CreateUser`, `RevokeTokens`, `IssueToken` |
| `admin_usuarios_invitar`, `invite_member` | `BeginInvite`, `LookUp`, `CreateUser`, `RecheckAdd`, `Join` |
| `request_password_reset`, `create_password_reset_token` | `BeginForgot`, `RevokeTokens`, `IssueToken` |
| the two pages of an invitation; `reset_password` | `BeginSpend`, `Spend`; then `ResetSessions` |
| `_authenticate_login`, the login route, the logout route | `BeginLogin`, `LoginMember`, `OpenSession`; `Logout` |
| `change_role`, `revoke_membership` | `BeginManage`, `EnterManage`, `Manage` |
| expiry, `lock_timeout`, a dead worker | `Expire`, `LockTimeout`, `Crash` |

Nearly every statement is a transaction of its own, on a connection of its own, so
nearly every step is one action. A token or a session is named after the request
that made it. `before[r]`, a history, is the set of requests that had ended with a
token or a session when `r` began: what "older" means in two properties. The page
that shows an invitation is part of the step that begins to spend it. A business
with two owners, one of the initial states, is what the tests of
`tests/test_membership_hardening.py:151` start from. The superadmin's own
session, `seed_auth` and the e-mails are left out.

### How `Assistant` corresponds to the code

| Code | Actions |
|---|---|
| the chat route: cookie, `get_or_create_…_session_scoped`, `add_conversation_message_scoped`, `track_question_scoped`, the request for a person | `Send`, `FindSession`, `InsertSession`, `Store`, `Track`, `Intent` |
| `ask_ai`: a call of the model, its retries, its limits | `Respond`, `CallFails` |
| a text: `_safe_text_response`, `add_conversation_message_scoped`, `_detect_needs_human` | `Text`, `Escalate` |
| `execute_tool` and the executors; the answers for their results | `RunTool` (`Outcomes`), `ReadResult` (`Verdict`) |
| the panel: resolve, set a status | `Resolve`, `SetStatus` |
| a statement that fails, a dead worker | `Fault`, `Crash` |

The language model is external and may answer anything in `Responses`: texts of
each class that the code tells apart, and calls of `Tools`, among them `unknown`,
which stands for every name that is none. A text has two sides. `text` is what the
code sees: `known` has one of the twelve wordings of
`_MUTATION_CONFIRMATION_PATTERNS` (ai.py:289), `unsure` one of
`_detect_needs_human`, `malformed` is a response whose parts cannot be read
(ai.py:1579), `plain` is every other. `says` is the change that it asserts, if any,
whatever its wording: a `plain` text may say that an appointment is booked, and
`Safe` lets it through, as the code does. What a client hears in such a text is
`Hearsay`, whether true or not.

A tool has any of the outcomes its executor can return; a booking may be made and
the read after it fail (`broken`), and a change may be made and the reads that format
its confirmation fail (ai.py:1670, outside any `try`): then the route answers an
error (`Fault`). What the tools do to appointments is `Booking`'s. Prompts, history
and wording are left out.

### How `Domains` corresponds to the code

| Code | Actions |
|---|---|
| `create_business_domain`, `rotate_business_domain_token` | `Add`, `Rotate` |
| `verify_business_domain_dns`: row, DNS, `verify_business_domain` | `BeginVerify`, `CheckDns`, `CommitVerify` |
| `verify_business_domain_tls`: row, certificate, `set_business_domain_tls_status` | `BeginTls`, `CheckTls`, `CommitTls` |
| `set_business_domain_active`, `revoke_business_domain` | `SetActive`, `Revoke` |
| `set_primary_business_domain`: row, then the rows of the business | `BeginPrimary`, `CommitPrimary` |
| whoever controls the DNS, time, the superadmin, a dead worker | `Publish`, `Expire`, `Suspend`, `Crash` |
| `load_current_business`, `resolve_business` | `Tenant` (`Resolve`, `Serves`) |

`CheckHolds` is the conjunction of the CHECK constraints of migration 003, tested at
every write, and a write that violates them is an error. The audit record that each
change writes in its transaction is read by nobody and left out; nobody sets
`PLATFORM_HOSTNAMES`, so the instance reserves no host.

### How `Migrations` corresponds to the code

| Code | Actions |
|---|---|
| `migrate_pg.py`, `discover_migrations` | `Start` |
| `_acquire_lock`: taken, or given up | `Acquire`, `GiveUp` |
| `plan_migrations`, `_verify_applied`, `_classify_against_baseline` | `MakePlan` (`Refuses`, `Planned`) |
| `_ensure_metadata_table`, `_record`, `_execute` | `EnsureTable`, `Adopt`, `Execute` |
| a statement that fails, the end, `_release_lock` | `Fails`, `Finish`, `ReleaseLock` |
| `_init_postgresql` | `Boot`, `Bootstrap` |
| a dead process | `Crash` |

A release is a function from versions to contents; every run and every start of an
application brings any of them. The runner reads each file twice, for its checksum
and again to execute it (pg_migrator.py:179, 419); the model has one content per
run, so a file that is changed under a running migrator is out of it. `blind` is
history: a release has adopted as its baseline a schema in which migrations it does
not know had been executed.

### The abstract specifications

None of them knows requests, locks, transactions or crashes; each detailed module
implements its own (`INSTANCE ... WITH`, the abstract `Spec` as a PROPERTY).

| Abstract | Detailed | Mapping |
|---|---|---|
| `Calendar`: a row is placed only where it fits, within the quota or recorded as unlimited | `Booking` (`ImplementsCalendar`) | the identity on the table, the clock and the two histories: checks made several statements earlier must still be true when the row is written |
| `Points`: earn once per appointment, spend once per key, never below zero | `Loyalty` (`ImplementsPoints`) | the points are the sums of the ledger, the paid and the spent are read off its movements and the redemptions |
| `Roster`: only an owner changes a member, the last owner stays, a token is spent while live and once | `Accounts` (`ImplementsRoster`) | the members themselves; a token is `none`, `live`, `spent` or `dead` |
| `Reception`: one conversation, at most one change, none confirmed that was not made, one answer | `Assistant` (`ImplementsReception`) | the conversation a request holds, the changes its tools made, what its answer confirms or passes on |
| `Lifecycle`: owned only with the token issued last, live only with a good certificate, one primary host that is live | `Domains` (`ImplementsLifecycle`) | the phase of a host is computed from the columns of its row, `primary` first: a primary host that were not live would be a step the lifecycle does not have |

## Runs

| Run | Instance | What it shows |
|---|---|---|
| `agenda` | 3 requests, 2 appointments of different resources on days 1 and 2, 3 days, 1 booking without resource, 1 client move, 3 panel moves (one reassigns, one names an inactive resource), statuses `completed`, `confirmed` and one that is not valid; two contacts collide on a lock key | `TypeOK`, `NoDoubleBooking`, `NoDeadlock`, `CheckStillHolds`, `ImplementsCalendar` |
| `quota` | 3 requests, quota 1, 1 past appointment that may be moved forward, 5 bookings that share a phone, an e-mail or a key across days, moves that take two days, a phone and the e-mail colliding on a lock key; the clock crosses midnight; fairness, no symmetry | `ContactQuota`, `RetryFindsItsBooking`, `EveryRequestAnswered` |
| `hours` | 2 requests of the panel, 2 bookings, one day of six minutes with two blocks and one that may open, 2 services, 2 resources | `TypeOK`, `OfferedIsAccepted`, `BookedInHours` |
| `notify` | 1 reminder, 2 runs of the reminder script that coincide and repeat, 1 of the retry script, 1 retry, 1 crash, staleness and delay of 1 unit; a web thread of a client without e-mail; fairness | `TypeOK`, `DuplicatesExplained`, `AttemptsBounded`, `SentReopenedOnlyAfterTakeover`, `FailuresRetried` |
| `loyalty` | 3 requests, 2 customers (4 points and 1), 3 appointments (one without a phone), 2 rewards, 2 keys, settings absent or there | `TypeOK`, `NeverOverdrawn`, `RedemptionsArePaid`, `UnpaidHasAReason`, `ImplementsPoints`, `OnlyRecalculatingDrifts` |
| `accounts` | 3 requests after 2 earlier ones, 3 users, a business that does not exist or is active with two owners, one token that may expire | `TypeOK`, `AlwaysAnOwner`, `LaterRequestRevokes`, `NoSessionSurvives`, `ApprovedOwnersAreInvited`, `ImplementsRoster` |
| `assistant` | 2 messages of a client who gives a phone or 3 of a visitor, 2 iterations, 2 attempts, the panel on the client's conversation; fairness, no symmetry | `TypeOK`, `CallsBounded`, `OneConversationPerPhone`, `VisitorsGoOn`, `EveryMessageAnswered`, `ImplementsReception` |
| `domains` | 3 requests, 2 hosts of one business (a primary one; one missing, pending or live), 2 businesses | `TypeOK`, `TenantsAreProven`, `ImplementsLifecycle` |
| `schema` | 2 runners and 1 application of any of 5 releases (one with a changed file, one with a gap) on an empty, bootstrapped, migrated, damaged or restored database | `TypeOK`, `RecordsTellSchema`, `PlanStillValid`, no deadlock |
| `resurrect` | a client cancels while the panel confirms | `CancelledStaysCancelled` fails |
| `busy` | a move that waits for a lock until the timeout | `ReportedMovesHappened` fails |
| `starved` | 2 notes that the reminders send, 1 run of the retry script at a time with a batch of one, 1 retry; fairness | `EveryFailureRetried` fails |

### Why these bounds

The instances of `Booking` have days of four minutes with a grid of one minute and
appointments of two minutes, so that appointments overlap with equal and with
different starts, touch without overlapping, and overrun the closing time. A
request conflicts with another through a row, a contact, a key or a day, so two
requests make each conflict and the third acts between two steps of them or closes
a circle of waits. Three days let a move leave one day, take another and miss the
third. With a quota of one, every second count is at the limit.

In `Hours` a service of two minutes meets blocks of two and three, a grid of one,
two or more and a break, so that a time is refused by the grid, by the closing time
or by an appointment, each alone; two changes of the panel are needed to undo and
redo the hours under a booking, and two bookings to fill a resource and the global
agenda. The second day is one that the panel can send, closed.

Notes share nothing but the batch of the retry script, so in `notify` one note with
three senders shows what a claim has to withstand: a holder that is late, one that
takes over and one that waits. There the batch is never full, and `FailuresRetried`
says only what holds then. What a full batch does is the subject of `starved`: two
notes and a batch of one are the least in which a row can keep another out. One
retry makes the first takeover spend it and the second meet the end of the policy;
the theorems of `NotificationProofs` cover any number of senders and retries.

In `Loyalty` two requests overlap and the third comes between them or repeats one
of them (a key, an appointment); four points pay one of the rewards once the other
is paid, but not both adjustments; a change of a reward's cost and of the settings
fits between a check and the movement. In `Accounts` two requests race for a
token, a member or a user and the third is the one that comes later: an answer to
"did the earlier one survive" needs the two earlier requests of the initial state.
In `Assistant` two iterations let a tool be followed by another and by the limit,
two attempts let a call fail and be retried; the third message of a visitor is the
one that follows two that overlap. In `Domains` two requests are the longest race
(read, rotate, write) and the third makes the next step of the lifecycle. In
`Migrations` two versions after the baseline are enough for a gap, an order and a
lost record, and the runs repeat without bound.

Symmetry is used on requests only, and only where no liveness is checked.

### Deadlock and fairness

Requests of `Booking`, `Hours`, `Loyalty`, `Accounts`, `Assistant` and `Domains`
are served once and the system then stops, so those runs do not check TLC's
deadlock; `NoDeadlock` states the absence of circular waits instead, where several
locks are held, and `EveryRequestAnswered` and `EveryMessageAnswered` their
consequence. The scripts of `Notifications` run for ever, so the check would only
find the states in which nothing is left to send. `schema` checks it.

Fairness in `Booking` is `WF_vars(Proceed(r))` for each request. A worker thread runs
its request to the end, and PostgreSQL grants a free advisory lock to a waiter. No
request relies on a lock timeout or a crash to make progress. Weak fairness is
enough because requests are finitely many, so nobody overtakes a waiter for ever;
with an endless stream of requests it is PostgreSQL's queue of waiters that
gives the same guarantee.

In `Notifications` time passes, a sender that has started goes on, and the timer
starts the retry script again (`WF` of `Tick`, `Run(s)` and `StartRetry(s)`:
`turnobot-retry-notifications.timer` fires every fifteen minutes). Nothing is
assumed of the web threads' or the reminders' start, of SMTP or of the panel.

In `Assistant` a message that was sent goes on (`WF` of `Prelude(m) \/ Loop(m)`): a
worker runs, and each call of the model has a timeout, after which it fails.
Nothing is assumed of what the model answers, nor that a message is sent.

### Mutants

Every property of a passing run has a mutant of the code in the modules (an
operator whose comment begins with "Mutant") that breaks it: a lock that is not
taken or is taken in another order, a check that is made once and not again, a
condition of a conditional UPDATE that is dropped, an unvalidated value, a limit one
too late, a sum taken before the insertion, a token of another use, a tool's outcome
that the answer does not look at.

## Proofs

Every safety property that a run checks is also a theorem, for every value of the
constants: the type invariants, the invariants, the action properties and the five
refinements. The assumptions are the named ones of the modules (`RowsAssumption`,
`BookingAssumption`, `HoursAssumption` and so on): the shape of the constants,
that the special values (`Nothing`, `Nobody`, `NoRow`) are none of the data, and that
the initial data are what the program's own checks let through. TLC evaluates them
on every run. Each module below has one inductive invariant, which TLC checked on
the instance of its run before the proof, one lemma per kind of step, and theorems
that read the properties off the invariant.

| Proofs | Inductive invariant | Theorems (property) |
|---|---|---|
| `BookingProofs` | `TypeInv`, `LockInv`, `AgendaInv`, `QuotaInv` | `Typing`, `NoCircularWait` (`NoDeadlock`), `NeverDoubleBooked` (`NoDoubleBooking`), `QuotaHolds` (`ContactQuota`), `ChecksHold` (`CheckStillHolds`), `RetriesFind` (`RetryFindsItsBooking`), `BookingImplementsCalendar` |
| `HoursProofs` | `HoursInv` | `HoursTyped`, `OfferedAccepted` (`OfferedIsAccepted`), `BookedInside` (`BookedInHours`) |
| `NotificationProofs` | `CreditInv`, `ShareInv` | `NotificationTyping`, `AtMostOnePerAttempt` (`AttemptsBounded`), `NoUnexplainedDuplicate` (`DuplicatesExplained`), `SentStays` (`SentReopenedOnlyAfterTakeover`) |
| `LoyaltyProofs` | `LoyaltyInv`, `Accounted` | `LoyaltyTyped`, `PointsNeverNegative` (`NeverOverdrawn`), `OnePaymentPerKey` (`RedemptionsArePaid`), `CompletedArePaidOrExplained` (`UnpaidHasAReason`), `MovementsKeepCaches` (`OnlyRecalculatingDrifts`), `LoyaltyImplementsPoints` |
| `AccountsProofs` | `AccountsInv` | `AccountsTyped`, `OwnersRemain` (`AlwaysAnOwner`), `LaterRevokes` (`LaterRequestRevokes`), `SessionsClosed` (`NoSessionSurvives`), `ApprovalsInvite` (`ApprovedOwnersAreInvited`), `AccountsImplementRoster` |
| `DomainsProofs` | `DomainsInv` | `DomainsTyped`, `TenantsProven` (`TenantsAreProven`), `DomainsImplementLifecycle` |
| `MigrationProofs` | `MigrationInv` | `MigratorTyped`, `PlansStayValid` (`PlanStillValid`), `RecordIsTrue` (`RecordsTellSchema`) |
| `AssistantProofs` | `AssistantInv` | `AssistantTyped`, `CallsStayBounded` (`CallsBounded`), `PhonesKeepOne` (`OneConversationPerPhone`), `VisitorsContinue` (`VisitorsGoOn`), `AssistantImplementsReception` |

### Booking

`NoDoubleBooking` is not inductive: it says nothing of a request that has passed
its checks and has not written yet. `AgendaInv` adds

- `Mutual`: no advisory lock is held by two requests;
- `Covered`: a request past the locking phase holds the lock of the day it is
  going to write to;
- `Stage` and `Targets`: which operations can be at which statement, and which
  row they are about (a booking its own, still absent one; a move one that is
  there, with its duration);
- `Checked`: at the statement that writes, the wanted row conflicts with no
  confirmed appointment; for the client's move, already after its first look at
  the agenda and on whatever resource (`Clear`), because its UPDATE keeps the
  resource that the row has by then, which the panel may have changed.

A row can only enter a day's agenda through a request that holds that day's lock,
so a request's check stays true until its own write (`PlaceKeepsSound`,
`RestateKeepsSound`), which then keeps `NoDoubleBooking`. The
status change is the one write that does not check; what it confirms goes to
`reopened`, and both the check and the property leave those rows apart.

`NoDeadlock` rests on the order of the keys, contacts before days and each kind
ascending: what a request holds comes before what it waits for (`Climbs`). Of
the blocked requests, one whose set of requests waiting for later keys is least
waits for a last key (`SomeIsLast`, on the well-founded order of finite sets);
whoever holds that key is not blocked.

`QuotaInv` extends the argument of the agenda from days to contacts. `Known` says
that a request that counts holds the locks of its contacts (`Contacted`), and that
a count that found room still does (`Room`) until the request writes: only a
request with the same lock could add an appointment of that contact. The
subtle part is the arithmetic: the row a move is about counts on neither side
(`Counts(...) \ {target[r]}`), a manual booking enters `unlimited`, and a day that
passes only takes appointments off. `FreshKey`, of the idempotency keys, gives
`RetryFindsItsBooking`, and `Room` with `Checked` gives `CheckStillHolds`: at the
write, each abstract step of `Calendar` is legal (`WriteIsLegal`).

### Hours

A time that is offered starts a slot of a block; `SlotsFit` shows that it fits the
first block that contains it when blocks do not overlap, which is where
`OfferedIsAccepted` claims it, and `LongestIsLongest` that the service the free
times are computed for is no shorter than the one that is booked. `HoursInv` says
what a request holds at each step and that `fitted` is set once the closing check
has passed.

### Notifications

None of the properties is inductive, because the danger is in the senders that have
claimed and not finished. `CreditInv` keeps two accounts for each note:

- e-mails sent, plus the senders between claim and SMTP, never exceed the claims
  the row has granted (`Attempts`, which is the retry count plus one);
- e-mails sent, plus the senders that may still send or still record a failure,
  plus one while the row is open to a claim without takeover (`Open`), never
  exceed one plus `unsure`.

A claim moves a unit from the row to the sender, SMTP spends it, the record of a
failure gives it back to the row, and a takeover or a lost answer creates one and
counts it. `Counted` is the arithmetic of one sender that joins or leaves a set.

`SentStays` needs no accounts but the history of takeovers. `ShareInv` says that two
senders of one note are both in `contested`, and so is whoever still sends a note
whose row is 'sent' or may be claimed again as 'failed'. A claim finds senders of its
note only by taking over a stale one, or when they are contested already
(`ClaimShares`); a record leaves behind only senders that shared the note with the one
that records (`RecordShares`). So whoever records over a row that is 'sent' is in
`contested`.

### Loyalty

What a movement read under the business's lock is still true when it commits
(`Holding`): the lock is its own, the sum it will write is the ledger's plus its
points and not negative, the appointment is not paid, the key not redeemed. A
recalculation has no lock, but it writes only the cache, which `Holding` does not
read: that is why the ledger stays right and `OnlyRecalculatingDrifts` needs an
exception for the cache alone. `Accounted` follows each completed appointment to
the request that will pay it, or to the reason why none did. `StepOfPoints` maps
the commits to the steps of `Points` and everything else to stutters.

### Accounts

`Decided` is the membership lock: what `Manageable` found (the actor an owner,
the other a member, and an owner besides him) is true until the write. `Revoked`
and `Later` are `LaterRequestRevokes` before and after the token is issued:
`before` is fixed when a request begins, those requests issue no more, and a dead
token stays dead (`Mild`). `Closed` is the same for sessions. `Approved` lists the
ways an approval may end. `RequestOfRoster` maps each operation to a step of
`Roster`.

### Domains

Each operation's effect on a row is a lemma (`VerifiedRow`, `InspectedRow`, …,
`PrimaryRow`), proved from the constraints of the table. `Sound` relates a row to
the token issued last and to `proven`, what DNS has shown; `Holds` says that a
request commits a verification only with a token that it has found, and the
conditional UPDATE compares that token with the row's: together, a verified row was
verified with the token issued last, although the row may have been rotated
between the read and the write. One induction proves the invariant and the
refinement of `Lifecycle`.

### Migrations

`Exclusive`: from the plan to the release, the lock is held. `Remaining` describes
what a run that works still has to do: its plan is the versions of its release
after the recorded ones. `RecordsTellSchema` and `PlanStillValid` are part of the
invariant and keep each other: a plan that holds records the truth, and a true
record keeps the plans valid. `blind` is where they stop.

### Assistant

`Budget` bounds the calls by `MaxAttempts` for each iteration and the attempts of
the current one. `Honest` says that a change is made only while its result is
unread: whatever the result, the message ends there, which is why a second change is
impossible and `Tell` may confirm it. No text confirms: one with a known wording is
replaced, and of the others nothing is proved, their content is hearsay. `Going` and
`Cookie` follow a visitor: the cookie names the conversation of an answered message,
unless an answer was an error (`Follows`); the request carries it as a token and
finds its conversation, because conversations are never deleted.

### Only model-checked

The liveness properties `EveryRequestAnswered`, `FailuresRetried` and
`EveryMessageAnswered`: they need fairness and ENABLED, which are out of the
prover's reach. The three runs that expect a violation have nothing to prove.

## What the code does otherwise than it says

Three violation runs:

- a cancelled appointment can be confirmed again when the cancellation commits
  while the panel waits for the day lock (`resurrect`);
- a reschedule that gives up on a lock is reported as done (`busy`);
- a failed note is never tried again when rows that the retry script skips fill its
  batch (`starved`): failed notes of appointments that are no longer confirmed are
  never sent nor changed, stay first in the order of the listing and, once they are
  as many as its `--limit` (100 in the unit file), keep it from every other failure.
  Notices to a business that has removed its address stay in the same way. The
  counterexample has two rows that become due together; with any distance between
  them, the skipped row only has to have failed first.

Met while modelling, without a run of their own. Appointments and hours:

- confirming a completed appointment again does not look at the agenda and may
  double-book; the rows in `reopened` are those.
- the retry of a booking is refused when that booking filled the quota
  (appointments.py:773 says a retry with a key never fails with `occupied`; two
  requests with one key but different days and contacts may also, when the second
  is the one refused by the overlap check).
- `_acquire_day_locks` (appointments.py:708) locks the day of origin to avoid a
  spurious `occupied`, but the origin is read before the locks, so a row that has
  moved in between leaves its actual day unlocked; such a booking is refused,
  never doubled.
- appointments.py:1711 says that a row with a resource "sigue bloqueando solo ese
  recurso"; the SELECT at 1679 refuses the move for any appointment of the
  business in that interval.
- appointments.py:1633 makes a reschedule idempotent against the slot read before
  the locks: a row that another request moved away in between is answered
  `rescheduled`.
- public_api.py:1307 handles `past_time`, which the client's reschedule never
  returns: only the panel's validates the hour.
- the free times of today include those that have passed (appointments.py:573);
  the booking refuses them.
- the panel may save blocks that overlap (database.py:1011 validates each alone); the
  closing check knows only the first block that contains the start.
- the service and the resource are validated before the locks only
  (appointments.py:852): a booking may be written for one that has just been
  switched off.
- `admin_toggle_service` (admin.py:383) and `admin_recompensa_estado`
  (admin.py:1036) write back a row read before: a duration, or a cost, saved in
  between is lost.
- `admin_create_resource` (admin.py:1074) calls `.get` on what
  `create_resource_scoped` returned after its commit; a number has none.

Notifications:

- the claim of a process that died is taken over only by another send of the same
  note, which only a repeated reminder run makes: the retry script lists 'failed'
  rows and nobody calls `list_stuck_notifications_scoped`.
- the reminders are listed once and sent one by one (send_reminders.py:94): an
  appointment cancelled meanwhile is reminded.
- retry_failed_notifications.py:83 says that the destination is the one of the
  row, "nunca se re-apunta a otra dirección"; `send_business_confirmation_email`
  takes it from the settings again.
- the state machine in the docstring of notifications.py:343 has no way out of
  'sent' ("sent → already_sent (no se reenvía)"); a sender that was overtaken and
  then fails takes the row back to 'failed' and the e-mail goes out again.
  `SentReopenedOnlyAfterTakeover` passes with that behaviour: it says that there is no
  other way out.
- send_reminders.py:91 calls `_local_today` for what the script's docstring calls
  "mañana".

Loyalty, accounts and domains:

- `recalculate_all_balances_scoped` (database.py:1774) sums and writes without the
  lock of the movements: a movement in between is lost from the cached balance,
  though not from the ledger. `OnlyRecalculatingDrifts` says that nothing else does.
- the key of the loyalty lock, 2 000 000 000 (loyalty.py:34), lies in the range of
  the contacts' keys: a contact may wait for a movement, nothing worse.
- `create_password_reset_token` (database.py:2656) revokes on a second connection
  while it holds one, and two overlapping requests may leave two usable tokens; a
  later request that ended before leaves none (`LaterRequestRevokes`). With every
  connection of the pool held by such requests each waits for the ten seconds of
  pg_pool.py:213.
- a login that has read the old password may open its session after the reset has
  revoked the others; `NoSessionSurvives` speaks of logins that had ended.
- the results of two certificate checks are written in whichever order they end
  (routes/business_domains.py:190).
- docs/custom-domains.md:26 says that the slug of a path has to be the tenant of the
  host; tenant.py:110 resolves the slug alone.

Assistant and migrator:

- docs/AUDITORIA_PROFUNDA_PLAN_MEJORAS.txt:271 calls it solved that a text with "lenguaje
  de confirmación" and no executed tool is replaced. The code knows twelve wordings
  (ai.py:289-302): "Tu turno está confirmado", "queda reservado" or "fueron
  cancelados" are none of them and reach the client with no change made. That is the
  `Hearsay` of `Reception`: the refinement promises no more than the code recognises.

- a hand-off that is asked for after a person has resolved the conversation is
  refused without a word (conversations.py:245).
- `needs_human_count` never grows: `track_question_scoped` (conversations.py:304)
  is always called with zero.
- a booking may be committed and the read that follows fail (ai.py:958): the client
  is told that it failed.
- an answer that is an error may erase the cookie of a visitor, whose next message
  then begins another conversation; `VisitorsGoOn` excepts a visitor who has been
  answered with any error, whether or not it erased a cookie.
- the baseline is adopted by names only, so a release without later migrations may
  adopt a schema restored without its record that already has them, and a later one
  executes them again (database.py:347 leaves the bootstrap unrecorded too);
  `blind` marks it.
- on SQLite a migration and its version are not one transaction (database.py:269,
  `executescript` commits).

## Not modelled

- The inside of the pool (`pg_pool.py`): creation, closing, maximum lifetime, and
  the rewriting of SQL from one dialect to the other. The transactions it gives
  are what every module is made of; nested checkouts are told above.
- Rate limits: a window of timestamps under one lock in one process, reset with it.
  Its count is its only state and no other component reads it. CSRF tokens and
  request parsing compare strings.
- Knowledge, metrics and onboarding read, count and format.
- Backups, health scripts and the copy of a SQLite file to PostgreSQL: files and
  subprocesses, run alone. SQLite itself, where every writer runs alone.
- The application factory, configuration, logging; forms, pages and messages of
  the routes; the platform's own e-mails, which keep no log.
- The language model, SMTP, DNS and TLS themselves: what they may answer is in
  `Responses`, `Smtp`, `Publish` and `CheckTls`.
- Functions that nobody in `src/` calls, among them
  `get_or_create_loyalty_account_scoped`, `insert_earn_scoped`,
  `insert_adjust_scoped`, `update_loyalty_balance_scoped` and
  `list_stuck_notifications_scoped`.

## Plan

Done: the modules above, their runs, and the proofs of every safety property and
refinement. Left: nothing of the system that the models reach is without its
proof or, where it is liveness, its run; what the proofs could still gain is

1. lemmas shared by two components (records changed field by field, locks that
   exclude) stated once, and shorter proofs of the largest steps of `Accounts` and
   `Booking`;
2. a bounded measure that every step of a request and of a message decreases, the
   part of the liveness runs that needs no `ENABLED`.
