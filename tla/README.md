# A specification of the work-record server

The repository is the NestJS server of a warehouse work-record service.  Field
workers start, pause, resume and end works on phones and shared tablets that
are often offline; the office corrects, voids, restores and inspects the
records; subscriptions, invoices, incentives and reports are computed from
them.  All state is in one PostgreSQL database, reached through Prisma by many
short-lived server instances: there is no shared memory and no queue, so
everything that can go wrong between two requests goes wrong in the database.

All paths below are relative to the repository's `src/`, and `service` is
`src/work-items/work-items.service.ts`.

## Inventory

| Component | State | Operations | What is hard | What makes it correct |
|---|---|---|---|---|
| Work items, field path (`service` 64-152, 344-560) | `work_items`, `work_assignments`, `audit_logs` | create, end, pause, resume | resent, overlapping, reordered and late calls; device clocks; instances that die | one item per key, one effect per event, times in order, ended stays ended, remarks survive |
| Work items, office path and tablet edits (`service` 850-1672) | the same, read outside the transaction | update, void, force-end, bulk versions, restore, delete, manual registration, tablet void and edit | stale reads against each other and against the field path | the audit trail explains the row, and so the end fields |
| Inspections (`src/inspection`) | `inspection_records` | single and batch creation | restores and deletes of the inspected item | a record refers to an item that is there |
| Net work minutes (`src/common/utils/net-work-minutes.ts`) | none | interval arithmetic | breaks over midnight, overlaps, open pauses | agrees with a count by half minutes |
| Subscriptions (`src/subscriptions`) | `subscriptions` | trial, plan change, activation, consultation, transitions, expiry | operator, payment and cron write over each other | no automatic demotion before its time, one trial per site |
| Invoices (`src/invoices`) | `invoices`, the period of the subscription | generate, issue, pay, cancel, overdue scan | payment against cancel, overdue and suspension; retried jobs | one notice each, a paid invoice stays paid |
| Authentication (`src/auth`) | accounts, refresh tokens, invites, codes, login history | login, rotation, reset, codes, registration, invites, deletion | a rotated token presented again, overlapping uses of codes and invites, half-done calls | families stay within what was presented, a reset ends them, codes serve once, lockout holds |
| Workers and the plan's limit (`src/workers`, `src/subscriptions/usage-limit.service.ts`) | accounts | create, change, (de)activate, delete | a count before the create | the limit holds up to the overlapping calls |
| Incentives (`src/incentives`) | policies, score runs, entries, objections | activate, score, freeze, finalize, recalculate, object | two activations, a freeze decided before a finalization, answers that race | one ACTIVE policy, one open run, no unanswered objection in a final run, scores on one scale, pay by grade |
| Sites (`src/sites`) | `sites`, settings, first accounts | create, template, clone, toggle, move, remove, migrate | counts before a removal | nothing loses its site unnoticed |
| Break configurations (`src/break-configs`) | `break_configs` | create, update (time, site, active flag), remove, clone, migrate | checks on reads of their own, or none | active periods of a site do not overlap |
| Inbound sessions (`src/inbound`) | `inbound_sessions` | enter, approve, upload | two uploads of one sheet | an upload replaces its first |
| Heat alerts (`src/heat-alerts`) | hourly records, alerts | hourly report, monthly exposure, forecast mails | records of tablets without a site, boundaries of hour, month and pause | the newest report holds, exposure counts each half minute once |
| Data protection (`src/data-protection`, the heartbeat of `src/cron`) | backup jobs, requests, warnings | report, warn, request | retry, manual call, midnight | one warning a day, one request waiting |
| Cron (`src/cron`) | job log | the jobs of the other components, three tries each | a retry after half a job, changes during a pass | nobody is told twice, the report tells what happened |
| Customer operations (`src/customer-ops`) | support cases, settings | digest, board, readiness, overview, actions | several views count the same rows in code of their own | the views agree |
| Dashboard and performance (`src/dashboard`, `src/performance`) | none | time summary, load, pivot, trend, rankings | open items, days, several workers on an item, workers of several sites | each item once, tables agree |
| Batch split, dock, ML governance, classifications, logs, AI texts | a table or none | see "Not modelled" | little | |

Components meet in shared rows: office, inspections and field path in a work
item; cron, operator and payment in a subscription; net work minutes, exposure
and dashboard read the pause history that the field path keeps in `notes`, and
the breaks; the plan of a subscription limits the accounts; cron runs a step of
nearly every component.

## Modules

`WorkItems` composes with `MobileEvents`, `Billing` joins subscriptions,
invoices and their jobs, `Roster` accounts, invites and the plan's limit,
`Dashboard` the exposure report, `Notices` several services' mails, `Console`
several views.  The remaining parts share no row that one of them decides on;
`MCAccounts` and `MCServices` put them side by side, and a behaviour moves one
of them, its `focus`, so that their state spaces add up.

| Module | Models |
|---|---|
| `WorkLedger` | the promise of the field path: an item opens once per key and each stamped event moves it at most once |
| `MobileEvents` | create, end, pause, resume in detail; implements `WorkLedger` |
| `WorkItems` | `MobileEvents` with the office path, tablet edits and inspections |
| `MobileEventsProofs` | theorems about `MobileEvents`: locks, retries, final states; times, pauses, answers and the refinement of `WorkLedger` |
| `WorkItemsProofs` | theorems about `WorkItems`, on top of these |
| `TimeProofs` | theorems about `WorkTime`, `NetMinutes`, `Exposure` and `Dashboard` |
| `BillingProofs`, `TokensProofs`, `AccountsProofs`, `ServicesProofs` | theorems about `Billing`; `Tokens` and `Lockout`; `Codes`, `Roster`, `Notices` and `Console`; and the smaller services |
| `Counting` | lemmas on the sizes of finite sets, and on sums of sizes, that these proofs share |
| `Billing` | subscriptions and invoices of a site, with the daily and monthly jobs |
| `Tokens`, `Lockout`, `Codes` | refresh tokens; login history; verification codes |
| `Roster` | registration, linking, invites, creation under the limit, deletion in steps |
| `Policies`, `ScoreRuns`, `Scores` | statuses of incentive policies; runs and objections; the month of a worker, his score and grade |
| `Sites`, `Breaks`, `Inbound`, `HeatRecords`, `Backups` | the check-then-write services |
| `WorkTime`, `NetMinutes` | interval operators of `net-work-minutes.ts`; their use for one person |
| `Exposure`, `Dashboard` | the monthly exposure report; the tables over the same rows |
| `Notices` | the evening, weekly and forecast passes of the jobs |
| `Console` | the operator's views and the centre's dashboard counts |
| `Rows` | `Present(table)`, the rows of a table that are there |
| `MCMobileEvents`, `MCWorkItems`, `MCBilling`, `MCAccounts`, `MCServices` | instances for TLC |

### MobileEvents

A *handler* is one request execution.  `row[i]` is a work item with its
assignments (`lead` is the worker of the STARTER assignment, `crew` all
assigned workers), `trail[i]` its audit rows, `lock[i]` the handler that holds
its row lock, `used` the ids already given out.  Phases of a handler:

| pc | Code |
|---|---|
| `inserting` | between the look-up of the idempotency key and the transaction of `create` (71-99) |
| `waiting` | the transaction of `withMobileEvent` asks for `SELECT ... FOR UPDATE` (537) |
| `locked` | it has read the row and its assignments (538) |
| `done` | the answer is on its way |

`LookupKey`, `Insert` and `InsertFails` are `create`: the look-up is outside
the transaction, the unique index (`prisma/schema.prisma` 172) decides in it.
`Lock`, `NotFound`, `Acknowledge`, `Apply` and `Refuse` are `withMobileEvent`
with `applyEnd`, `applyPause` and `applyResume`: site, ownership, the search
for the event's earlier audit row, the status check, the resolved time
(`work-event-time.ts`), the new row, the audit row.  `Abort` is an instance
that dies, or a transaction time-out, at any of these points; the database
rolls back.  `Reply` sends the answer, which may be lost: the device then
simply sends the call again.  Any call of `Commands` and `Events` may arrive
at any time and any number of times, so loss, duplication and reordering need
no machinery of their own.

What is abstracted: quantities, volumes, classifications, devices, batches and
the relation of workers to their status carry no control.  `notes` is a remark
and a pause history.  That it is one text column that every writer rewrites as
a whole matters, and is kept: the new value is computed from the row that was
read, and an end that brings its own remark replaces the history too, as the
code does when the app sends plain text.  The crew of an end call is a set (a
worker listed twice would only fail the transaction).  The order of answer and
commit is `done` after commit.

### WorkItems

A *desk* is an execution of an office call.  `Read` is everything before the
transaction (route roles, site and ownership checks, the status check, all on
a plain read); `Write`, `Delete` and `Inspect` are the transaction, which
waits for a row lock held by the field path but does not read again;
`DeskFails` is any failure between the two.  `Allowed` lists what each call
requires of the row it read, `OfficeRow` what it writes: only the fields the
code puts in `data`, so a concurrent change of another field survives and one
of the same field does not.  The two reads of an office call (site, then row)
are one step, since only the second one carries the status.  Bulk calls are
the single ones in a row, each with its own transaction.  `Register` (manual
registration) reads nothing that changes and is one step.  `inspections` counts
the inspection records that refer to an item.

The administrator's PIN approval of a tablet edit arrives checked
(`verifyMobileEditApproval`); the call carries who gave it.

### The check-then-write modules

`Billing`, `Tokens`, `Codes`, `Roster`, `Policies`, `ScoreRuns`, `HeatRecords`,
`Inbound`, `Sites`, `Breaks` and `Backups` have one shape.  A table is a
function from row numbers, in the order of `createdAt`, to a row or `None`.  A
call is an element of a small set of executions; its record holds a `pc` and
what it has read and decided.  A step ends where the code awaits something
another call can change: `...Read`, `...Count`, `...Find`, `...Check` read and
decide, `...Write`, `...Create`, `...Put`, `...Clean` write, by id and without
repeating the condition unless the code repeats it (a unique index, an
`updateMany` with a condition, a serializable transaction).  An interactive
transaction that is neither serializable nor locked is still several steps.
`...Dies` and `Fail` end a call between two steps and leave what it has
written.

Where the code lets a race through, the property says what holds *up to* that
race, with a history variable that marks exactly it.  These are not guards: a
step is never hidden by them (`unchecked` alone is also bounded, by
`MaxUnchecked`).

| Variable | Marks |
|---|---|
| `budget` (`Tokens`) | tokens of a family that may be live: one, and one for each call that presented a token in use or in its grace period |
| `outlived` (`Tokens`) | calls that had nothing left to ask of the tokens when the password was reset |
| `overlaps` (`Policies`) | activations written between another's replacement and its write |
| `thawed` (`ScoreRuns`) | final runs reopened by a freeze decided before the finalization |
| `crossed` (`Inbound`) | uploads that created beside a session they had not seen |
| `strayed` (`Breaks`) | rows placed or reactivated unchecked, checked on another site, or by an overtaken check |
| `young`, `late` (`Sites`) | child sites and workers that came to a site whose removal had counted them |
| `excused` (`Backups`) | days and requests of which an execution looked while another was between look-up and row, or left no row |
| `unchecked` (`Roster`) | activations by paths that do not look at the plan |
| `touched` (`Notices`) | items and centres changed since the pass began |

Each has a mutant that drops or loosens a check of the code and is caught, so that the
excuse does not swallow the property.  *Billing* needs none of them: what an
execution has read of the row it is about to write is in its record, and
`DemotedOnTime` compares that with the row.

*Billing* has one site.  A subscription is `[status, trialEnds, periodEnd, ...]`
in days, an invoice is numbered by month and subscription.  `TrialStep`,
`OperatorStep`, `JobStep` and `InvoiceStep` are the phases of `startTrial`,
`grantTrial`, `changePlan`, `transitionStatus`, the consultation, the daily
`subscription-check` with its stages (end-of-term notices, expiry of trials,
PAST_DUE, SUSPENDED, overdue invoices), the monthly generation, `markPaid`,
`issue` and `cancel`.  The job's list of rows is read once and worked off row
by row; `Retries` attempts repeat it as a whole, as `runCronJob` does.  Amounts,
tax and texts are left out.

*Tokens* has one account; a token keeps the `epoch`, the count of resets, of the
password its family was begun with.  `RefreshRead` finds the row, `RefreshRevoke`
revokes it, which fails if the row is gone, `RefreshLook` looks at the account,
`RefreshBurn` revokes the family of a replay, `CreateToken` stores the
successor.

*Lockout* keeps the login history as rows in the order they were added; `Try`
looks at the latest rows of the window and checks the secret, `Record` adds the
outcome, and a call that dies in between adds none.  *Codes* has one address:
`SendClear`, `SendStore`, `SendMail` and `ConsumeRead`, `ConsumeClear`.

*Roster*'s `InviteClear`/`InviteStore`, `AcceptRead`/`AcceptCreate`/`AcceptMark`
and `DeleteRead`/`DeleteClean`/`DeleteWrite` are the code's transactions and
single statements in their order.

*Sites* removes a site in three steps, as `remove` does: it counts the children
(`RemoveRead`), then the workers (`RemoveCount`), then deletes (`RemoveSite`), with
creations, moves and migrations between them.  *Breaks* keeps the active flag of a row:
`UpdateCheck` looks at a new time only, on the site the call names, and `UpdatePut`
writes time, site and flag whatever they are, so that a period can be reactivated over
another one or move into a site unchecked; `At` and the limit are about active rows, as
`validateNoOverlap` and `validateMaxCount` are. `Changes` bounds which changes a call
names.

*Scores* adds a month up record by record with `fix2` kept as whole hundredths;
where the code rounds an intermediate and its sum, the model rounds once.  The
weights are those of the policy, any three that add up to 100 (`Splits`); a
negative one is among them, because `createPolicyVersion` checks the sum only.  The
bands of the grades are the default ones.  It leaves the budget cap of the simple
payout and the scaling of a dry run out.

### Intervals and reports

`WorkTime` translates `mergeIntervals`, `parsePauseIntervals`, `activeWorkSegments` and
`breakOverlap` as pure operators with folds (`mergeIntervals` takes the intervals by
their starts, the loop of the code after its sort); time is in half minutes, the
coarsest unit in which the final rounding shows.  `NetMinutes` and `Exposure` build
every set of rows up to a bound one row at a time, and their properties compare the
calculation with an independent count over single half minutes.  `Dashboard` reads the
rows of `Exposure`; every item has volume one, and the averages per day of the week of
the load profile are left out.

Breaks are looked up by site: its own ones if it has any, the global ones
otherwise (`restsFor`, the `forSite` of `net-work-minutes.ts`).  The code does not
always ask for the same site: the time summary asks for the worker's own
(`dashboard.service.ts` 786), exposure, statistics and rankings for the starter's
(`heat-alerts.service.ts` 963, `dashboard.service.ts` 154, `performance.service.ts`
235).  `placed` says who belongs to the site that has breaks of its own, and who to
none or to one without any; two sites with different breaks of their own are left
out, since all that matters is that two workers' breaks differ.

`Notices` is one pass of a job over the centres, a step per query and mail: `StartPass`,
`CheckStatus`, `FindStuck`, `AnnounceStuck`, `SendDigest`, `Forecast`, `Rollup`, each
with its failure, and `JobDies`.  Offices change items, starters and centres in between.
A mail of stuck work names `MailRows` items (`STUCK_MAIL_MAX_ROWS`), those that began
first, and counts the others.  `Console` takes the reads of one view as one: the views
are compared on the same rows, not on rows that move while they are read.  Its unit is a
quarter of an hour.  Items are ACTIVE, PAUSED, ENDED or VOID, and the dashboard's total
is all of them (`dashboard.service.ts` 178-182). The status of a subscription is
compared as each view does: the digest writes it in capitals first (`Upper`), the
overview does not, and a row that did not come from this program may hold it in small
letters.

## What is checked

| Run | Question | Bounds | Distinct states |
|---|---|---|---|
| `mobile_events` | all safety properties of the field path and the refinement of `WorkLedger` | 2 handlers, 2 items, 1 key, 4 create calls, 8 events (stamped, unstamped, with and without device time, from another site and from an account of none), clock 0..2, `MaxTrail` 4 | 363,722 |
| `mobile_live` | a waiting call is answered | 2 handlers, 1 item, 3 stamped events, clock 0..1 | 2,471 |
| `work_items` | what survives the races of field and office | 1 handler, 2 desks, 1 item, 3 events, 15 office calls, `MaxTrail` 3, 2 inspections | 313,870 |
| `billing` | subscriptions and invoices under overlapping and retried calls | 2 executions, `MaxSubs` 2, `MaxCalls` 4, `LastDay` 3, months of 2 days, terms, trials and grace of 1 day, due the day of issue, 2 attempts | 1,665,751 |
| `accounts` | accounts, reports and mails, one part at a time | below | 1,668,067 |
| `services` | the smaller services, one at a time | below | 642,096 |
| `void_is_final`, `stale_pauses`, `restored_pause`, `trial_once`, `paid_invoice`, `paid_by_score` | six promises the code does not keep | the calls each needs; the last three are `billing` and `services` with one property | violated |

Bounds of `accounts`: two calls at once everywhere.  *Tokens* `MaxBegins` 5, `MaxTokens`
3, `MaxResets` 1, `MaxTokenTime` 2: three tokens are two generations and a second
successor in the grace period.  *Lockout* `MaxAttempts` 4, `MaxLockTime` 3, a limit of 2
in a window of 1.  *Codes* `MaxCodes` 3, `MaxCodeTime` 2.  *Roster* `MaxAccounts` 3,
`MaxInvites` 1, `MaxWorkers` 1, `MaxBegun` 3, `MaxUnchecked` 1, two e-mail addresses, a
code given twice. *Exposure* and *Dashboard* a month of two hours with a midnight in the
second, `Moments` before the month, within an hour and at midnight, `MaxInputs` 5 rows
(an item and a global break weigh 2, a worker without a site 1): an item of one worker
with another beside him who is under other breaks is within it. *Notices* two centres
and a sub-site, two items, one of them anywhere, mails of `MailRows` 1 item, `MaxOffice`
1 change at any point of the pass.  *Console* two sites, two workers, `MaxEntries` 2
rows of work, reports and cases, three times of a view (before work, in the grace hour,
after it), begins a day ago, last evening, this morning, `MaxActions` 2 instead of
twelve, so that the cut happens.

Bounds of `services`: *Policies* `MaxPolicies` 2, `MaxChanges` 6, `MaxPolicyDay` 1.
*ScoreRuns* `MaxRuns` 2, `MaxObjections` 1, `MaxRunDay` 1. *Scores* `MaxEntries` 3
records with `Sizes` 1 and 20, a small and a large one against small baselines, and
three `Splits`: the documented one, one that weighs reliability by 90 and teamwork by 0,
one with a negative weight.  *HeatRecords* `MaxRecords` 3, `MaxReports` 4, `MaxHour` 1.
*NetMinutes* `Horizon` 4 over a midnight, `MaxFacts` 4 works, pauses and breaks
together.  *Inbound* `MaxSessions` 4, `MaxByHand` 1.  *Sites* `MaxSites` 3, `MaxStaff`
2, `MaxSteps` 3.  *Breaks* `MaxBreaks` 2 instead of ten, `MaxPeriods` 3, `MaxEdits` 3,
three periods that touch, nest and overlap, and at first no row or one that was
deactivated, which meets two of the three.  *Backups* `MaxHalfDay` 3, `MaxTold` 1,
`MaxSent` 2.

Two executions suffice where a hazard is between a read and a write of two
calls; a third one is the job or the office beside them (`AutoFinalize...`,
`PurgeTokens`, `CentreChanges`).  A fault that needs three overlapping calls of
one kind is outside these runs; the properties that count executions
(`FailuresBounded`, `WithinPlan`) are stated with their number.  `MaxTrail`
bounds the audit rows an item has when a call arrives; calls under way then
still finish, so trails grow beyond it by the number of executions.  A trail of
four reaches pause, resume and end, and a second pause with its resume, with
resent copies in between.

The calendars and counts of `billing`, `accounts` and `services` end, and a
system whose last call is answered has nothing left to do: they check no
deadlock.  The field and office runs do.  Executions, desks and handlers are symmetric in
the safety runs, and the two callers and addresses of `accounts` and the two calls
of `services`; the liveness run uses no symmetry.

### Field path

`AppliedOnce` and `AnswerIsRecorded` are about retries;
`LockedReadIsCurrent` is the lock discipline everything else rests on;
`TimesInOrder` and `OpenPauseMeansPaused` are what net work minutes assume of
the history; `EndIsFinal` and `NotesSurvive` say what late calls may not do.
`NotesSurvive` covers remarks and finished pauses over every step, the ending ones
included: only an end that brings a remark of its own, and is audited with it,
may replace them.
`ImplementsLedger` maps a row to its status and the audit trail to the set of
stamped events: every step is a step of the ledger or a stutter.

`WaitingEnds` assumes weak fairness of the steps a server instance has in hand
and strong fairness of `Lock`.  The code justifies both: PostgreSQL queues the
waiters of a row lock, and Prisma ends a transaction that does not finish, which
releases its lock.  No fairness is assumed of devices, replies or the clock.  It
is the only place where the code waits for another execution: elsewhere a
request is a finite list of statements.

### Office path

`TrailTellsStatus` says that the status, and with it the end fields, is always
the one the last audited action gave, whatever was read stale.
`SpanStaysForward` says which calls can make an item end before it starts: an edit
of one time that is compared with the other as it was read, when an edit or a field
call has changed it since, and a forced end, which takes the server's time unseen, of
an item that starts later.  `AnswerIsRecorded` and `TimesInOrder` do
not carry over from the field path: an item may be deleted after the answer,
and the office edits times.

### Money

`DemotedOnTime`: a trial is expired, a subscription past due or suspended, by the
scans or by a consultation only on a day after the end it is about, and from the
status that comes before it.  The excuse is narrow and belongs to the one call: the
row was written between that call's own last look-up and its write (`transitionStatus`
writes by id), or, for the period, prolonged since the list was read, since only the
status is looked up again.  A demotion after someone else's race is still judged.
`ToldOnce`: one notice of an issue and one end-of-term notice of a run, in spite of
retries, scans and payments that overlap.  That a paid invoice stays paid is one of the
disagreements below.

### Accounts

`FamilyBudget` and `ResetEndsTokens` for tokens, `FailuresBounded` for the
lockout (with the operator's list of locked accounts), `DeliveredCodeStands` and
`CodeServesOnce` for codes, `LinkedOnce`, `InviteNeverWasted` and `WithinPlan`
for accounts.

### Incentives and services

`ActiveAlone`, `OneOpenRun`, `AnsweredWhenFinal` and `ScoresKeepScale`;
`NewestHolds` (a report that was answered is in its hour's record, or a later
one is), `NetAgrees`, `UploadReplaces`, `BreaksDisjoint`, `DoneOnce`, and the
action property `OnlyLateAreStranded`.

`ScoresKeepScale`: the nominal maxima of `TRACK_NOMINAL_MAX` stand apart from the
functions that earn points.  No month of any track earns more than its maximum, so
that normalisation cuts nothing off, no category is negative whatever the penalties,
and with weights that are not negative the total lies between the worst and the
best category.  Nothing is claimed of what a track's scores ought to be: the
statistics a manager is rated by (the team's average, exceptions, voids and items)
are set to zero in `initStats` (`src/incentives/incentives.service.ts` 419) and filled
nowhere, which `Managed` shows and no property judges.

`OnlyLateAreStranded`: a removal reads the children and the workers of a site and
deletes it later.  Whoever loses his site or parent to it came after the removal had
looked for his kind; `young` and `late` mark exactly those, at their arrival.

`BreaksDisjoint` is about active periods: two that meet, or more than the limit, need
a row that was placed past its check or reactivated, which no race is needed for.

### Reports

`ExposureAgrees` and `NetAgrees` compare with counts of single half minutes.
`DashboardAgrees` and `ViewsAgree` (its parts `DigestAgrees` for the views of a centre
and `ActionsAgree` for the list of actions) compare tables and lists that are computed
by different code from the same rows, `PeriodsAddUp` the comparison with itself over
adjoining periods and with the dashboard, paused items included.  `TabletHeard` holds at
half past, when the digest is scheduled.  `NoticesTell` gives every centre of a pass one
row of the job's report, ties each row to the mails of either kind that went out, and
every stuck item to one mail, by name or, beyond the rows of a mail, by number.

Where two views compute differently, the property says so.  A worker's minutes in
the time summary are counted by his own breaks, half minute by half minute, for
everybody; that they are no more than his exposure, and no less than his average
item, holds for whoever has only worked on items that were started under the same
breaks.  The digest's warning of a subscription is one of the overview for every
status written in capitals.

### Disagreements found

* `void_is_final`: force-end reads an ACTIVE item, a void commits, force-end
  commits: the voided item is ENDED (`service` 992: a voided work cannot be
  modified).  Restore and edit do the same.
* `stale_pauses`: a tablet edit merges its remark into the notes it read; a
  pause committed meanwhile disappears (`service` 1436: the history is kept).
* `restored_pause`: pause, end, restore leaves an ACTIVE item with an open
  pause, and everything after it counts as pause
  (`src/common/utils/net-work-minutes.ts` 7: PAUSED time is subtracted).
* `trial_once`: the once-per-site rule looks only at rows that are EXPIRED or
  CANCELLED with a trial end; a trial that was activated, changed or dropped to
  FREE does not count (`src/subscriptions/subscriptions.service.ts` 552: one
  trial per site).
* `paid_invoice`: a cancellation reads an open invoice, a payment commits and
  prolongs the subscription, the cancellation writes CANCELLED over PAID
  (`src/invoices/invoices.service.ts` 298: a paid invoice cannot be cancelled).
* `paid_by_score`: the bands of the grades end at whole points, scores have two
  decimals; 69.50 or 89.75 is in no band and graded E without pay
  (`src/incentives/incentive-utils.spec.ts` 126: only 0 to 59 is unpaid).

Noticed while reading the code, part of the models as it is, and without a run
of its own:

* The first `effectiveFrom` of a policy survives SHADOW, DRAFT, SHADOW, so the
  four weeks in SHADOW need not be the last four (`incentives.service.ts` 302).
* A change of a break by an administrator who names another site is checked
  against that site's periods (`break-configs.service.ts` 126, 144), and a change of
  the active flag alone is not checked (129-138): a period that is deactivated,
  another one created over it, and the first reactivated overlap.
* A delete clears inspection records by a column they do not have and swallows the
  error, so an inspected item cannot be deleted (`service` 1307, 1320).
* Time summary on the one side, rankings, statistics and exposure on the other take
  off the breaks of different sites, see "Intervals and reports".
* The weights of a policy are checked for their sum only (`incentives.service.ts`
  203-209), so one may be negative; nothing clamps the total then.
* The digest reads a subscription's status in capitals (`customer-ops.service.ts` 863),
  the overview as it is (1750, 1778).
* The branch of `recordHourly` that loses the race for the unique index drops
  its values, although a comment says that the last observation wins.
* `getTrends` converts a UTC column once, so its days and hours are 18 hours
  early by the measure of the comment in `dashboard.service.ts` 35-41;
  `getTrendsByClassification` converts twice.
* An item whose starter belongs to a sub-site is announced to nobody, and one of
  a starter without a site only if the first centre's subscription is valid.
* A login or refresh that is past its checks when the password is reset stores
  its token after `resetPassword` has deleted all of them, and that token and
  its successors are accepted (`auth.service.ts` 446): `ResetEndsTokens` bounds
  them by `outlived`.
* Overview totals add metrics of each centre that include starters of no site,
  who count once per centre; exposure adds overlapping items of a person,
  net minutes unite them.
* A digest that is asked for at other minutes than half past can call a tablet
  silent that reported within the half hour, because a report keeps only its
  hour.  The schedule (`vercel.json`) is at half past, and `TabletHeard` is stated
  for that minute.

## What is proved

tlapm checks the proofs of eight modules.  A theorem holds for every value of the
constants that meets the assumptions: any number of calls, rows, accounts, sites,
items and days, where the run of the same property has two or three.

| Theorem | States | About |
|---|---|---|
| `TypeCorrect` | `[]TypeOK` | field path |
| `LockedReadsAreCurrent`, `OfficeLeavesLockedReads` | `[]LockedReadIsCurrent` | field path alone, and with the office |
| `EventsApplyOnce` | `[]AppliedOnce` | field path |
| `KeysOpenOneItem` | `[]OneItemPerKey` | field path |
| `EndedItemsStay`, `NotesStay` | `EndIsFinal`, `NotesSurvive` | field path |
| `OpenPausesArePauses` | `[]OpenPauseMeansPaused` | field path |
| `TimesStayInOrder` | `[]TimesInOrder` | field path |
| `AnswersAreRecorded` | `[]AnswerIsRecorded` | field path |
| `CallsImplementLedger` | `ImplementsLedger` | `MobileEvents` implements `WorkLedger` |
| `SpansStayForward`, `TrailExplainsRow` | `SpanStaysForward`, `[]TrailTellsStatus` | office path |
| `DemotionsAreOnTime`, `NobodyIsToldTwice` | `DemotedOnTime`, `[]ToldOnce` | billing |
| `FamiliesKeepTheirBudget`, `ResetsEndTokens` | `[]FamilyBudget`, `[]ResetEndsTokens` | tokens |
| `LockoutsHold` | `[]FailuresBounded` | lockout |
| `DeliveredCodesStand`, `CodesServeOnce` | `[]DeliveredCodeStands`, `CodeServesOnce` | codes |
| `LinksHappenOnce`, `InvitesAreNeverWasted`, `PlansHold` | `[]LinkedOnce`, `[]InviteNeverWasted`, `[]WithinPlan` | accounts |
| `NoticesTellTheTruth` | `[]NoticesTell` | mails of the daily jobs |
| `TabletsAreHeard`, `PeriodsAlwaysAddUp`, `ViewsAlwaysAgree` | `[]TabletHeard`, `[]PeriodsAddUp`, `[]ViewsAgree` | the operator's views |
| `OnePolicyRuns`, `OneRunIsOpen`, `FinalRunsAreAnswered`, `ScoresStayOnScale` | `[]ActiveAlone`, `[]OneOpenRun`, `[]AnsweredWhenFinal`, `[]ScoresKeepScale` | incentives |
| `HoursHoldTheNewest`, `UploadsReplace`, `PeriodsStayApart`, `DeedsAreDoneOnce` | `[]NewestHolds`, `[]UploadReplaces`, `[]BreaksDisjoint`, `[]DoneOnce` | heat records, inbound, breaks, data protection |
| `NobodyOnTimeIsStranded` | `OnlyLateAreStranded` | sites |
| `NetAlwaysAgrees` | `[]NetAgrees` | net work minutes |
| `ExposureAlwaysAgrees` | `[]ExposureAgrees` | the monthly heat report |
| `DashboardAlwaysAgrees` | `[]DashboardAgrees` | the dashboard's tables |

Each proof has an invariant that holds initially, is kept by every action (one
step per action), and implies the property.  Hardly any property is inductive as
it stands.  What has to be added is what the execution that is between two of its
steps still knows:

*Field path.*  `LockInv` adds to `LockedReadIsCurrent` that a `locked` handler owns
the lock of its item (`PhaseOK`), so that nobody writes under a reader, and that
an id not yet given out has no row (`UnusedIsBlank`), so that an insertion hits
nobody's item.  `QuietStep` covers the actions that leave the database alone;
`InsertEffect` and `ApplyEffect` say what the two others do: an applied event
rewrites the row that is there *now*.  Everything else about the field path
follows from these.  `PausesFit` (an open pause exactly while PAUSED) and the
order of a row's instants need what a legal event does to the pauses, field by
field; `AnswersAreRecorded` needs that audit rows are only added.  The refinement
takes the initial state to the ledger's, an insertion to an opening, an applied
event to the ledger's step of its audit row, and every other action to a stutter.

*Office.*  `OfficeInv` is `LockInv` under the writes of the desks as well, with what
a desk has read.  `TrailExplainsRow` adds that a desk's call and the row it has
read determine the status it writes (`Explains`, `Tells`), whatever has become of
the row since.  `SpansStayForward` follows step by step: an applied event has a time
after the row's own (`AppliedSpanIsForward`), and what an office call writes is
forward by the row it read (`OfficeSpanIsForward`).

*Billing.*  `BillingInv` relates the rows to what the executions carry: a demotion its
target and the row it was looked up for, which was due then and, since days only
pass, still is (`Due`, `WasDue`); a payment its invoice and period (`Fits`); an issued
invoice has a notice to spare (`Counted`).  One lemma per phase shows that a step
moves rows and executions only as `Moves` allows; `MovesKeep` is the invariant's
step, and `DemotedOnTime` follows from `WasDue` of a row that nobody has written
since.

*Tokens and lockout.*  `FamilyBudget` counts live tokens; inductive is the count of
the tokens nobody has claimed together with the calls that will store one
(`BudgetFits`), and likewise `ResetHolds` counts the families and logins that are
older than the last reset.  `LockoutInv` counts the failures together with the
attempts that have passed the lockout and not recorded yet; that at most *all
callers but one* exceed the limit needs that the history is in the order of time,
so that a window never regains what it lost, and `CountLatest`: of a finite set,
the latest *n* are *n*.

*Accounts.*  `CodesInv`: a code under way belongs to one call, is not delivered yet
and gone only if cleared (`MailFits`).  `RosterInv`: a marked invite has given
somebody an account, or one was removed since (`Fulfilled`); the active accounts
and the hirings under way together stay within the plan and the overlapping calls
(`PlanFits`).

*Notices.*  `NoticesInv` describes the report so far, the centre whose turn it is,
and those still on the list: each finished centre of the list has its row and its
mails (`RowsTell`, `OneMail`), no other has a mail but for the stuck work of the one
whose turn it is (`NoMailYet`, `Stage`).  An item that is changed during the pass
leaves both sides of the comparison.

*Operator's views.*  `ConsoleInv` is small (a report keeps the hour it was heard in,
no work begins after the time of the views); the work is in the operators.
`SumIsCount` shows that the sum over the rows is the number of their items:
the recursion of the sum has a solution, those numbers, and by
`PartsOneByOne` no other.  `PeriodsAddUp` then divides one set of items in two or
three.  The list of actions is a fold of lists, whose recursion `FoldSolved` solves
(part by part, for any number of elements); `AllActionsAre` and `RankIs` say which
actions it contains, and `ShownFirst` what is left of it when it is cut.

*Services.*  `ScoreInv`: what a count of objections has shown stays shown, since later
objections have later numbers (`AnsweredTo`).  `PolicyInv`: what runs beside the policy
about to be activated was activated after its replacement (`ReplacedFits`).  `HeatInv`:
a report that found no record began before any report of its hour was over.
`InboundInv`: an upload that found nothing and missed nothing has nothing to replace.
`BreaksInv`: the active rows that are not `strayed` are apart and within the limit, and
what a call has checked holds until it is `overtaken` (`Checked`).  `BackupsInv`: one
execution at a time is between the look-up and the row of a deed (`DeedFits`).
`SitesInv`: whoever is at a site that a removal is at work on is `late`, and every child
of it `young`, once the removal has counted them; the action property follows for the
delete, and for every other step because it takes nobody's site away.
`ScoresStayOnScale` bounds the raw points function by function (`AttendanceBound`,
`ReliabilityBound`, `DetectionBound` ...), then the weighted sum of three categories by
its least and greatest (`Shares`, `Monotone`).

*Time.*  `NetInv` and `ExposureInv` only say that the rows are typed and finite in
number; the work is in the operators, in four steps.  (1) `MergeIs`: whatever the order
of the intervals, the merge gives a list in order, with a gap before each but the first,
that covers the same times (`Merged`).  `JoinKeeps` is the step of the loop: a new
interval does not begin before the last one of the list, so that joining it to that one
is enough.  (2) `SegmentsAre`: the cursor that walks along the merged pauses leaves
segments that are apart and hold exactly the times of the work in no pause (`Cut`).  (3)
`DayIs` and `OverlapIs`: per day the periods cover each time in a break once, and every
time of a span is in exactly one of the days walked through (`DayIsOne`, from
`kstDayStart`), so that the sum over days is the number of the span's times in a break
(`InBreak`).  (4) Every number the code adds up is then the sum of the sizes of sets
that are apart (`Portions`), and `SumIs` of `Counting` says that such a sum, in whatever
order a fold takes it, is the size of all of them together: `NetIs` for one person,
`ExposedIs` for the pieces of an item cut at the hours (`HourIs`, `LevelIs`), `SpentIs`
and `TotalIs` for a worker, as a count of pairs of an item and a half minute.
`ExposureAgrees` is that count.  For `DashboardAgrees`, `NetIsMine` makes the net
minutes of a worker a count of half minutes alone, by his own breaks (`NetIsCounted`
writes it out as the property does): where the items were started under the same breaks,
each pair has its half minute, hence never more minutes than exposure (`WholeIs`), and
as many if no half minute is in two of his items; `AverageIs` bounds the mean of his
items by the union they are in.

Induction is over finite sets and numbers only, and stated without a predicate:
`PartsOneByOne` of `Counting` says that a set of parts of `S` which has the empty
part, and any part that has one without some element of it, has `S`; its proof
takes a smallest counterexample (`WFMin` and `NatLessThanWellFounded` of the
library).

### Assumptions

Every assumption is evaluated by TLC on the instances.  Most say that a bound is a
natural number, that times are, and that `None`, which stands for NULL, is no value of
another type (`NullAssumption`, `NoneAssumption` and those named after rows).  The
others:

| Assumption | Why |
|---|---|
| `CallsAssumption`, `AccountsAssumption` | calls have the fields their DTOs require, workers are accounts |
| `OfficeAssumption` | a tablet edit arrives with the administrator who approved it, as `verifyMobileEditApproval` returns one or throws |
| finite `Callers`, `Entrants`, `Managers`, `Staff` | requests under way and rows of workers are finitely many |
| `ScoresAssumption` | weights add up to 100, as `createPolicyVersion` requires; baselines are positive |
| `NoticesAssumption` | work items are finitely many |
| `CalendarAssumption` | trials, terms and months last at least a day |
| `BreaksAssumption` | periods have passed `validateTimeRange` |
| `ConsoleAssumption` | `workStartHour` is a whole hour, and the thresholds of the digest, the alert and the overview are ordered as in the code |
| `BackupsAssumption` | a request is not a day |

### Only model-checked

* `WaitingEnds`: liveness under fairness is out of the prover's reach.
* The six disagreements, which are counterexamples.

## Not modelled

* Whole components: the batch volume split (one formula over finished rows, for display only), dock
  sessions (one start and one end by id), ML governance (a log of predictions
  and their approval that nothing reads back), classifications (a list of names
  with an order), audit and activity logs, diagnostics and health (read-only),
  AI texts (an outside service; only its template of a new tenant's settings
  enters `Sites`).
* Bands of grades that a policy sets itself (`payoutBands`); two sites with different
  breaks of their own.
* Password and PIN hashing, profile edits, PIN resets and the numbering of
  employee codes; plan features and upgrade requests; the purge of old work and
  logs; the anonymization of inactive accounts (`piiFinalize`), which reads them
  and then updates by id, so that one reactivated in between loses its secrets.
* Reading and statistics of inspections; quantities, volumes, rates of change,
  goals and the CSV export of the dashboard; the weather service, participants
  of an inbound session, usage snapshots, settings forms and texts.
* Reads of one report are one step in `Console`, `Exposure` and `Dashboard`:
  rows that change while a report is computed are only modelled in `Notices` and
  in the jobs of `Billing` and `ScoreRuns`.

## Plan

1. Done: the models, and the theorems of the table above: every safety property and
   every action property of the passing runs, and the refinement.  `WaitingEnds`,
   liveness, stays with TLC.
2. Open: what "Not modelled" lists, of which reports that are computed from rows that
   change meanwhile matter most.
3. None of the modules declares a RECURSIVE operator, so that all can be extended
   by proof modules as they are.
