# Verification of the NexusCyber support platform

TLA+ models of the support platform's API (`src/apps/api/src`), checked with TLC
and, where it says so, proved with TLAPS for every value of the constants. Paths
below are relative to `src/apps/api/src`.

## 1. The system

The API is a set of Node processes over one PostgreSQL database. Three things
shape every component:

* **Transactions.** `withOrgContext` (`db/pool.ts:37`) runs a handler in one
  READ COMMITTED transaction: each statement sees what was committed when it
  starts, and a plain SELECT locks nothing. `withSystemContext` opens no
  transaction: each statement commits by itself.
* **Timers.** Jobs (`jobs/*.ts`) are `setInterval` callbacks. Most do not wait
  for their previous tick, and every process has its own.
* **Side effects.** `audit` writes on a connection of its own, `publish`
  (`events/bus.ts`) calls in-process handlers. Neither is part of the
  transaction that calls it.

### Components

| Component | State | Operations | Hard part | Must hold | Module |
|---|---|---|---|---|---|
| Change management, CAB voting (`modules/changes.ts`, `cab.ts`) | `changes`, `change_votes`, `cab_boards`, `change_templates` | create, submit, vote, cancel, schedule, transition, PIR, edit board and templates | stale reads, two submissions, torn board reads, early decisions | recusal, reachable quorum, exact verdicts, no work without approval | `CabVoting`, `ChangeManagement`, `CabVerdict` |
| CAB deadline sweeper (`jobs/cab-deadline-sweeper.ts`) | `vote_overdue_notified_at` | tick | overlapping ticks, crash between marker and event | at most one notice, every overdue vote claimed | `CabDeadlineSweeper` |
| Tickets, workflows, bulk edits (`modules/tickets.ts`, `workflows.ts`) | `tickets`, `ticket_events` | create, transition, assign, escalate, reply, external upsert | unlocked transitions, rules that write by id, number allocation | what leaves a stamp on an open ticket is known, every filing succeeds | `Tickets`, `TicketIntake` |
| SLA, auto-close (`modules/sla.ts`, `jobs/sla-sweeper.ts`, `jobs/auto-close-resolved.ts`) | `sla_instances` | start, pause, resume, meet, sweep, close | jobs write what they read earlier | a pause is credited once, nothing overdue or resolved is forgotten | `ServiceDesk`, `SlaCalendar` |
| Surveys (`modules/csat.ts`) | `csat_surveys` | issue, answer by portal or link | repeated events, two answers | asked once | `Surveys` |
| Provisioning, Cloud PC poller (`modules/provisioning/*`, `jobs/cloudpc-poller.ts`) | `provisioning_runs`, `_steps`, the directory | plan, run, poll, resend | in-flight guard, partial failure, a plan that moved since it was read | one run in flight, what a run says is so, it ends, access as approved | `Provisioning`, `GroupAccess` |
| Offboarding (`modules/offboarding/*`, `jobs/offboarding-sweeper.ts`) | runs, the form, the directory | schedule, cancel, claim, plan again, execute, strand | crash between steps, late finish | fired once, no mailbox lost, no account disabled without a hold | `Offboarding` |
| Retention (`modules/retention/*`, `jobs/retention-sweeper.ts`) | `retention_holds` | record, sweep, alarm | outage of Graph, crash before the alarm | no alarm after an alarm, an outage is no presence | `Retention` |
| Entra device sync (`integrations/entra/sync.ts`, `jobs/entra-sync.ts`) | lease in `org_integrations`, `devices` | claim, renew, release, apply | expiry during a run, lists that lost their devices | no older list over a newer, the fleet is spared | `DeviceSync` |
| Audit chain, pools, webhooks (`modules/audit.ts`, `db/pool.ts`, `modules/webhooks.ts`) | `audit_logs`, connections, deliveries | append, connect, dispatch | nested connections, slow endpoints | no fork, no deadlock | `AuditTrail` |
| Integration tickets, mail ingest (`modules/integration-tickets.ts`, `integrations/m365/ingest.ts`) | references, dedupe markers | upsert, ingest | two first syncs, redelivery, ticks that overlap and die | no filing refused, a mail filed once by each overlapping tick at most | `TicketIntake` |
| Forms and catalog (`modules/forms.ts`, `ticket-form-edit.ts`, `catalog.ts`) | answers in three places, tasks, approvals | submit, attach, edit, complete, approve | hidden answers, last task, approval beside tasks | reads as if submitted so, the checklist decides | `RequestForms`, `Fulfilment` |
| PII purge (`modules/sensitive-fields.ts`, `jobs/retention-purge.ts`) | sensitive answers, tombstones | store, edit, purge | edit beside the resolution, failure between purge and tombstone | every value is on record or accounted for | `SensitiveAnswers` |
| On-call, alerts (`modules/oncall.ts`, `alerts.ts`) | schedules, rotations, pages, alerts | page, acknowledge, escalate, change the schedule | single statements that overlap | an acknowledgement is on record, one alert for a key | `OnCall`, `OpsAlerts` |
| Automation (`modules/automation.ts`) | rules, executions, approvals | fire, approve, reject | failure half way | what is called executed was | `Automation` |
| Accounts, sign-in (`modules/accounts.ts`, `platform-users.ts`, `integrations/entra/user-sync.ts`) | `users`, `role_assignments` | sign in, create, suspend, grant, delete, import | one person on two rows, access rewritten whole | staff get in, access is never lost half way | `StaffAccess`, `Identity` |
| Event bus (`events/bus.ts`) | `seen` | publish, subscribe | publish before COMMIT | as far as handlers need it | `Surveys`, `Notifications` |
| Notifications (`modules/notifications.ts`, `notifications-recipients.ts`) | `notification_deliveries` | dispatch of an event | dispatch before the COMMIT, failures of a channel | told once, internal notes stay inside, every dispatch on record | `Notifications` |
| Elevation, HTTP idempotency, escalation policies | grants, a map, policies | | a row or a map entry each | | not modelled |
| Knowledge base, billing, reports, posture, storage, demo; `apps/web`; infra, docs, scripts | | CRUD, rendering, configuration | none that a model reaches | | not modelled |

Interactions: handlers publish events; notifications, webhooks, automation,
surveys and on-call subscribe. Sweepers read and write the same rows as the
handlers. `PROJECT.json` lists every component and every hazard with its line.

## 2. Plan

Ordered by what is at stake. Every module is written to be proved about: constants
with named assumptions, one action per statement that others can come between,
invariants in named parts, no RECURSIVE operators.

| Part | Modules | State of it |
|---|---|---|
| CAB | `CabVoting` (rules) <- `ChangeManagement` (handlers) <- `CabDeadlineSweeper` (job), `CabVerdict` (promise) | modelled, checked, proved |
| Tickets and SLA | `Tickets` <- `ServiceDesk`; `TicketIntake`, `SlaCalendar` | modelled, checked, safety proved |
| Life of an account | `Provisioning`, `Offboarding`, `Retention` <- `UserLifecycle` | modelled, checked, safety proved |
| Audit trail, device sync | `AuditTrail`, `DeviceSync` | modelled, checked, safety proved |
| Requests | `RequestForms`, `SensitiveAnswers`, `Fulfilment`, `Surveys` | modelled, checked, proved |
| People | `StaffAccess`, `Identity`, `GroupAccess` | modelled, checked, safety proved |
| Response | `OnCall`, `OpsAlerts`, `Automation`, `Notifications` | modelled, checked, proved |
| Compositions | `Platform`, `Operations` | checked, proved to have what their parts have |

Every invariant and every action property of a passing run is proved. Liveness is what
only TLC checks (section 6). Elevation and HTTP idempotency stay unmodelled (section 7).

## 3. The modules

### CabVoting

The pure functions of `changes.ts`. The `change_votes` rows of a change are one
record: who has a row, whose row is ad hoc, each weight and vote. A weight is
counted as that many units, so a sum of weights is a cardinality
(`WeightOf`) and needs no recursion. `ResolveVote` is `resolveVote` with its
three returns, `SnapshotQuorum`, `EcabRosters`, `CutBallots` what submission
snapshots, `VoteEligible`, `MayComposeRoster`, `PreapprovalGranted` who may act.
`EcabRosters` is a set because the member rows come back in no fixed order.

### ChangeManagement

One change, its ballots, the boards and templates it depends on, and the requests
in flight.

| Code | Actions | Atomic because |
|---|---|---|
| `createChange` | `CreateChange` | one INSERT |
| `submitForCab` | `SubmitRead`, then `SubmitReadTemplate` and `SubmitPreapprove`, or `SubmitReadBoard`, `SubmitReadMembers` and `SubmitCommit` | each is one statement, or statements whose effect appears together at COMMIT |
| `castVote` | `CastVote` | `SELECT ... FOR UPDATE` on the change |
| `cancelChange`, `scheduleChange`, `transitionChange`, `recordPir` | `CancelRead`, `ScheduleRead`, `TransitionRead`, `PirRead`, then `StatusWrite` or `PirWrite` | the read takes no lock, the write is by id |
| ROLLBACK of any of them | `SubmitAbort`, `OpAbort` | |
| `putBoard`, `createTemplate`, `deleteTemplate` | `PutBoard`, `CreateTemplate`, `DeleteTemplate` | own rows, one COMMIT |

`sub[s]` is what submission `s` has read, `op[o]` the write request `o` is about
to make. `everApproved` is a history variable. A change's users' permissions are
the constants `Creators`, `Managers`, `Voters`, `Implementers`; `BoardAdmins` are
the managers that `assertNotRaiser` lets through.

### CabVerdict

What the board promises about one change: roster and rules fixed when the vote
opens and able to meet each other, ballots that may change until they decide and
not after, release only behind an approving verdict or a pre-approval. It is an
abstract specification and translates no code. `ChangeManagement!VerdictSpec`
is its instance under the mapping `preapproved <- ctype = "standard"`,
`released <- status` is approved or later.

### CabDeadlineSweeper

Extends `ChangeManagement` with time reaching the deadline, the marker, and
ticks: `SweepSelect`, `SweepJudge`, `SweepClaim`, `SweepPublish`, one per
statement, with `SweepCrash` between any two. The application clock and the
database's are taken to agree.

### Tickets, ServiceDesk

`Tickets` is one ticket with its two `sla_instances`: `TransitionRead` and
`TransitionWrite` (or `TransitionLock` and `TransitionCommit` where a resuming
transition keeps the row over a read) are `applyTransition`, `AssignRead` and
`MailWrite` assignment and a mailed reply, `PauseSla`, `ResumeSlaRead`,
`ResumeSlaWrite` the clock operations, and `FulfilWrite`, `DecideWrite`,
`MergeWrite` what `catalog.ts` and `links.ts` write to a ticket by id.
`RuleChangesStatus`, `RuleReopens` and `RuleCloses` are what an approved automation
writes to the status (`performGatedAction`); `RuleActions` says which of them rules have.
`EvaluateState`, `ResumedRows`, `StampedRow` are the pure parts. `resolved_at` is kept
as "recent" or "long ago" against the window of the auto-close job.
`ServiceDesk` adds the two jobs: `SweepSelect` and one `SweepRow` for each
clock, `CloserSelect`, `CloserLock`, `CloserCommit`. `DeskSafety` is its specification
without fairness. Its `ReopeningClearsStamps` holds for requests that overlap and for
rules; `OpenHasNoStamp`, what the code sets out to establish, does not (finding 6).

### Provisioning, Offboarding, Retention, UserLifecycle

Each engine is a planner (`PlanRun`, `OffPlan`; blockers as a set of codes), the
writing of a run, its steps against the directory, and the ways it ends.
A step of `Provisioning` fails before or after it took effect (`StepFails`), a
request dies (`WorkerDies`), and the poller looks up (`PollLookup`) and ends a run
by id (`PollWrite`). `Offboarding` arms (`ScheduleCheck`, `ScheduleInsert`),
declares runs stranded (`Strand`), claims (`ClaimDue`), plans again (`Rebuild`),
executes and records the hold (`RecordHold`, `Verdict`, `Finish`), while the
form (`EditFormCheck`, `EditFormEnds`) and the directory (`EditDirectory`)
change; `OffSteps` is the order of its plan. `Retention` sweeps a batch of holds, the longest
unchecked first: `turn` ranks them as `last_checked_at` does, `Selected` is the batch the query
returns, `NextOf` the order it is worked off in; `CheckHold`, `SetState`, `RaiseTicket`.
`UserLifecycle` puts the three together: they share one fact, the hold, and
`stage` says which of them a behaviour shows.

### TicketIntake, SlaCalendar

`TicketIntake`: the three ways a ticket gets its number. `NextNumber` is
`nextTicketNumber` with the digits of the prefix and the cast to int, the
advisory lock is held to the commit (`TakeNumberLock`), a first sync that
collides on the reference reads again (`AfterConflict`), a mail tick reads the
marker before the transaction that writes it. The mailbox is `changed`, when each mail
changed last, and a delta link is the number of changes it has behind it (`cursor`): a
tick reads the stored link (`TickOpens`), lists the mails changed since (`TickFetches`)
and stores the new link (`TickStores`) before it takes up a mail. Ticks overlap and die
anywhere, so a late one stores an older link, and what a dead one had listed is lost.
`SlaCalendar`: `addBusinessMinutes`, one action for each turn of its loop,
against `BusinessTicks`, which counts business time by enumeration.

### AuditTrail, DeviceSync

`AuditTrail`: the admin pool serves its queue (`PoolServes`), a handler appends
under the advisory lock (`LockChain`, `ReadLast`, `InsertRow`, `CommitRow`), a
nested one holds a connection meanwhile, a webhook dispatcher holds one while it
posts. A row is its writer and the hash it read.
`DeviceSync`: lease (`Claim`, `Heartbeat`, `LeaseExpires`, `EndRun`), list,
second look (`Recheck`), one statement for each device (`Upsert`, `Retire`), and
the collapse guard between them (`Plan`). A list's age is the number of changes
the tenant had made. A listed device is corporate, personal, or without a usable id:
the first are recorded, the second are left out of the guard's count, the third are not
recorded and count (`Syncable`), so that such a list passes the zero guard.
`FleetIsSpared` names that case and excludes every other.

### RequestForms, SensitiveAnswers, Fulfilment, Surveys

`RequestForms`: the answers of one form in their three places, as `createRequest`,
`submitAnswers` and `editTicketForm` write them; a field is conditional, required,
sensitive, part of the subject, or the description.
`SensitiveAnswers`: the rows that hold personal answers, edits and attachments
that lock the ticket, the purge and its tombstones.
`Fulfilment`: one catalog request with its approval and its checklist
(`MarkTask`, `CountTasks`, `ResolveTicket`; `DecideApproval`, `DecideTicket`).
`Surveys`: `ticket.resolved` events, published before COMMIT, the survey each makes,
and the two ways to answer it.

### StaffAccess, Identity, GroupAccess

`StaffAccess`: a change of access deletes an account's roles (`BeginClear`,
`EndClear`) and inserts others (`InsertGrants`), beside suspension, deletion and
sign-in; the last SuperAdmin is looked for when a target is loaded.
`Identity`: one person with a staff row and a customer row, one email and one
Entra identity. Two staff sign-ins or a sign-in and the creation of the account
(`ReadTwin`, `ReleaseTwin`, `WriteStaff`, `CommitStaff`) overlap with customer
sign-ins and with an import. The two unique indexes are `SecondRow` and `Unowned`.
`GroupAccess`: the groups of a new user. `GroupPlan` is what `buildPlan` resolves and
`planFingerprint` covers; it is previewed, built again (`BeginProvision`), compared
(`Refused`) and executed group by group (`Join`), and the run then leaves its note and
its follow-up tasks, each of which may fail (`WriteFails`). Meanwhile somebody edits the
answers, the directory or the access that is copied (`WorldChanges`), or decides the
request once more (`Decide`). The other steps of a run are those of `Provisioning`.

### OnCall, OpsAlerts, Automation, Notifications

`OnCall`: every statement of `oncall.ts` commits by itself, so each is an action;
the rotation is kept as the number of its participants, since who of them is
on call depends on the clock and on overrides.
`OpsAlerts`: an alert's transition reads without a lock and writes state and stamps
(`MovedRow`); `IndexAllows` is the partial unique index on open keys.
`Automation`: the handler of an event performs the safe actions and records the
execution and its approval; `approveExecution` performs the gated ones and marks
the execution afterwards.
`Notifications`: one operation publishes its events and leaves its transaction open
(`Operates`, ended by `CaseCommits` or `CaseRollsBack`); the dispatch of each event
resolves the recipients from what is committed (`Resolve`), then goes down the
channels of `dispatch`, while somebody else assigns the ticket. `case` is the committed
row and `draft` the row of the open transaction; `todo` is the loop over recipients.

### Platform, Operations

Compositions of parts that take their steps on rows of their own. A behaviour of
all of them at once is one behaviour of each, so `part` says which one a behaviour
shows, and the others rest in an initial state in which no step must be taken;
the state space is a sum and not a product. `Platform` holds the parts with
liveness, `CabDeadlineSweeper` over the change among them, `Operations` those with safety
only: thirteen, among them the promise `CabVerdict` and a ticket of `ServiceDesk` whose requests
overlap.

### Model-checking modules

`MCChangeManagement`, `MCCabDeadlineSweeper` and `MCPlatform` name the users and give the
boards an edit may install, `MCServiceDesk` the targets, `MCUserLifecycle` the
planner's inputs and the retention terms, `MCOperations` what a form says of groups.

## 4. The runs

| Run | Question | Bounds |
|---|---|---|
| `ChangeLifecycle` | Does a change keep the board's promise while requests with stale reads overwrite each other? `VerdictSpec` (refinement), `OpenVoteUndecided`, `QuorumReachable`, `ApprovalBackedByBallots`, `ClosedHasPir`, `TypeOK` | 4 users, of whom the raiser sits on a board; 2 board contents edited at any time (one whose quorum only its whole roster meets, one with a heavy chair and two thirds); 1 submission, 2 other requests |
| `DoubleSubmit` | What still holds when submissions overlap? `RaiserRecused`, `NoWorkWithoutApproval`, `CastBallotsSurvive` | 3 users, 2 boards, 1 template, 2 submissions, 1 other request |
| `ServiceDesk` | What do two jobs that work on a ticket unasked leave of it? `PauseCreditedOnce`, `AutoCloseSparesReopened`, `NothingIsForgotten` (liveness: an overdue clock is announced, a ticket that stays resolved is closed) | 1 request at a time, 1 sweeper, 1 closer, no rules; targets 1 (response) and 3 (resolution), `MaxTime` 3 |
| `UserLifecycle` | Is what the engines claim of an account true, and do they end? `OneRunInFlight`, `AccountIsAsPlanned`, `FiresOnce`, `LeavesNothingBehind`, `HoldIsTruthful`, `EndedStaysEnded`, `WhatBeginsEnds` (liveness) | 2 provisioning requests, 2 pollers, 4 planner inputs, `MaxRuns` 2, `MaxDeaths` 1; 1 armer, 2 sweepers, `MaxArmed` 2, `MaxEdits` 1, `MaxCrashes` 1; 2 accounts, 1 retention sweeper, batches of 1, terms of 1 and 2 days, `LastDay` 2, `MaxHalts` 1 |
| `Operations` | Do the parts of a request, and of the response to an incident, survive their own overlaps? `FilingIsExact`, `ReadsAsSubmitted`, `PersonalDataIsAccounted`, `ChecklistDecides`, `HeardOnce` (one rating asked for each resolution, one notice of each move, nothing internal mailed to the customer, every dispatch accounted for), `AccessAsGranted` (staff never end without a role; a new user gets the groups of the plan that was read, and none is dropped in silence), `AckIsRecorded`, `AlertsAreWhole`, `ExecutedIsDone`, `ReopeningClearsStamps` (what alone leaves a stamp on an open ticket); and are the early exits of `resolveVote` exact? `RejectedIffHopeless` compares them with every way of casting the pending ballots, `CompleteVoteDecides` | 1 filer, 2 first syncs, of which `MaxCalls` 2, 2 overlapping mail ticks, 1 mail, which may be a reply, listed twice, 1 death; 6 fields, patches of 2; 2 cases, 1 editor, 2 purges; 3 tasks, 2 agents, 1 decider; 2 links, 1 portal answer, 2 events; 1 account, 2 overlapping operations, 2 roles; 1 page, 2 callers, 1 manager; 2 alerts, 1 key, 2 requests; 2 safe and 2 gated actions, 1 event, 2 judges; a ticket and a change with 1 covering agent, 2 ballots and 1 operation; 4 groups of each kind one, 3 forms, 1 provisioner, 2 runs, 1 change, 1 fault; a ticket with 2 overlapping requests, three kinds of rule, a workflow without the on-hold statuses, no jobs and `MaxTime` 0; every roster of 3, weights 1 and 2, every quorum the roster can meet, all thresholds |
| `Platform` | Do the parts that nobody watches keep going? `ChainNeverForks`, `AuditReturns`, `FleetIsSpared`, `NeverOlderList`, `SyncCatchesUp`, `DueTimeIsFound`, `StaffGetIn`, `NotifiedAtMostOnce`, `OverdueIsClaimed` (liveness: `AuditReturns`, `SyncCatchesUp`, `DueTimeIsFound`, `StaffGetIn`, `OverdueIsClaimed`) | 4 handlers (2 nested, 1 dispatcher) on 3 connections; 2 devices, 2 runs, `MaxMoves` 2, 1 fault; days of 4 minutes of 2 ticks, 2 of them business, 3 holidays, starts in a whole week, targets to 5 minutes; 2 staff calls, 1 customer sign-in, 1 import, 1 failure; 2 deadline ticks, 1 crash, a two-member board, 1 submission, 1 other request |
| `StaleWrite` | finding 1 | violation of `TerminalIsFinal` |
| `RosterMidVote` | finding 2 | violation of `RosterFixedInReview` |
| `Turnout` | finding 3 | violation of `DecidedByQuorum` |
| `SweeperNotice` | finding 4 | violation of `OverdueIsNotified` |
| `ReopenedStamp` | finding 6 | violation of `OpenHasNoStamp`; 2 requests, no jobs, no rules |
| `DigitPrefix` | finding 5 | violation of `SequenceNeverRunsOut`; 5 filers, a prefix with the digit 3, the database's own int |

Why the bounds are enough. A stale write needs two requests: one reads, the other
moves the row, the first writes. Two are enough for a write to overwrite a
write that was itself stale; so most parts have two overlapping actors of the
kind that matters and one of each other kind. Two submissions are enough for every
pair of steps of `submitForCab` to interleave, and one template deletion separates
the read of a template from the approval. The thresholds, weights and quorum
interact already on three ballots (a majority, a tie, an abstention, a heavy ballot,
one pending). Two ticks and one crash give every order of select, judge, claim and
publish. One fault per part separates any two of its statements; a second one
falls into a state that the first has made ordinary again. In `ServiceDesk` the
response clock is breached outright and the resolution clock warns first, once a
pause has moved its due time; requests that overlap are the business of the part
"ticket" of `Operations`, of `ReopenedStamp` and of the proofs. The one mail of
`Operations` is enough, because ticks meet over the marker of a mail and the lock of a
number, and the other callers contend for that lock too. In
`DeviceSync` the guard's floor is the size of the fleet, so that a list may be
refused for being empty, for being half, and not at all, and a fleet of one is below
it. In `SlaCalendar` a whole
week of starts meets an end of day, a weekend and a holiday beside a weekend.
Every bound is a named constant; the sets of actors are constants too.

**Deadlock.** `UserLifecycle`, `Platform`, `Operations`, `DigitPrefix` and `ReopenedStamp` say
`CHECK_DEADLOCK FALSE`: their actors are used up (each call is made once, events,
runs and days are bounded), and a system in which everything has been done may
stop. In the other runs some step is always possible and the check is on.

**Fairness.** Each is justified by who drives the step:

* `SweepFairness`: weak fairness of each tick's statements. The timer fires as long as a
  process lives and processes are restarted. Nobody is obliged to vote, submit or
  cancel, and `DeadlinePasses` is not fair either. So `OverdueIsClaimed` says: a vote
  that is overdue and stays so is claimed.
* `DeskFairness`: time passes, requests that have begun end, both timers fire (weak);
  the commit of the auto-close job, which may fail, succeeds if it is tried again and
  again (strong).
* `ProvFairness`, `OffFairness`, `RetFairness`: a request that has not died goes on,
  timers fire, Graph answers in the end if it is asked again and again. Deaths
  are bounded, not fair, and `RunEnds` exempts the run of a request that died.
* `AuditFairness`: the database answers and the pool serves its queue.
* `SyncFairness`: the schedule starts the job, what runs goes on, a lease that nobody
  renews expires (weak); a tenant that is asked again and again answers (strong).
* `CalendarFairness`: the loop goes on.
* `IdentityFairness`: sign-ins and imports that have begun go on, and whoever fails
  tries again. Nobody must sign in.

Every property of a passing run has a mutant in `PROJECT.json`: a small plausible
bug in one definition, kept next to it in the module, that TLC finds violating the
property under the run's own configuration.

## 5. Findings

1. **A stale write takes a change out of a terminal status** (`StaleWrite`).
   Handlers check the status on an unlocked read and write by id
   (`changes.ts:586, 672, 721, 798, 819`). A cancel that read `cab_review` turns a
   rejected change into a cancelled one; a schedule that read `approved`
   reschedules a cancelled one. What survives is proved below: no such
   interleaving lets an unapproved change into work.
2. **Overlapping submissions change a vote that is open** (`RosterMidVote`).
   Both read `draft`, both commit: rosters are joined, rules replaced. The rules of
   the second may ask for more than the joined standing roster weighs, because
   `ON CONFLICT DO NOTHING` keeps the first weights; `QuorumReachable` therefore
   holds only while submissions do not overlap.
3. **A vote is rejected without a quorum** (`Turnout`). `resolveVote` rejects as
   soon as the threshold is out of reach, whoever turned out; comment and design
   document ask for the quorum first.
4. **A crash loses the overdue notice** (`SweeperNotice`). The marker commits
   before the event is published; `OverdueIsClaimed` holds, `OverdueIsNotified`
   does not.

5. **A digit in an organization's prefix ends its numbering** (`DigitPrefix`).
   `nextTicketNumber` takes the maximum over all digits of the numbers
   (`tickets.ts:100`), those of the prefix included: with a 3 in the prefix the numbers
   run 1, 3000002, 33000003, 333000004, and the fifth does not fit an int.

6. **A stale write leaves a completion stamp on an open ticket** (`ReopenedStamp`).
   `applyTransition` decides from an unlocked read whether it leaves a terminal status
   (`tickets.ts:629, 653`) and writes by id: over a ticket that another request resolved in
   between it writes an active status and keeps `resolved_at`, the row "resolved AND open
   at the same time" of its own comment (`tickets.ts:647-650`). An assignment does the same
   (`tickets.ts:584`). So does, without any overlap, an approved automation that reopens a
   ticket, as it writes the status alone (`automation.ts:114`). `ReopeningClearsStamps`
   proves that nothing else does.

### Met while modelling, without a run of their own

Behaviours of the models that contradict a comment, or that a team should know of;
the properties are stated around them, and say so.

* Tickets. Merging and rejection close a ticket without stopping its
  clocks. `createRequest` passes no holidays to `addBusinessMinutes` (`catalog.ts:147`).
  The sweeper overwrites the state of a clock that was paused since it was selected,
  against `sla.ts:151`.
* Catalog. Two agents who complete the last two tasks at once each count the other's
  as pending and nobody resolves the request, against `catalog.ts:199`. `completeTask`
  publishes `ticket.resolved` before COMMIT, again when a task is completed again, and
  for a closed ticket too.
* Forms. `submitAnswers` holds the ticket FOR UPDATE and stores sensitive answers on a
  second connection whose foreign key waits for it (`forms.ts:333`): such a request
  hangs, as `sensitive-fields.ts:32-36` warns. An attached form keeps the description in
  `custom_fields`, where an edit does not write it. Conditions on conditional
  fields are not cascaded.
* Surveys. The portal checks `responded_at` and writes by id (`csat.ts:235`), so it may
  overwrite a rating that was given meanwhile.
* Mail. Two ticks that overlap both find no marker and each file the mail, against
  "Idempotent by internetMessageId" (`ingest.ts:89`); the lock that `ingest.ts:195-206`
  takes against "a concurrent poll tick" guards the number and not the marker. A tick that
  dies loses the mails behind the link it has stored (`ingest.ts:76`); a reply whose tick dies
  before its marker is added again.
* Device sync. Rows without a usable id (`sync.ts:65`) count as devices that can be synced
  (`sync.ts:108`). A tenant that returns nothing else passes the guard against an empty list,
  and a fleet below the floor of 10 is retired as a whole, against the comment above that line.
* Retention. Two sweeps that overlap, in one process or in two, may each raise the ticket of
  one hold.
* On-call. `escalatePage` asks for no state, so an acknowledged page is escalated;
  `deleteSchedule` drops a page that is created between its count and its DELETE, against
  its comment "an active incident is never silently dropped"; two removals empty a
  rotation; while a rotation is being replaced a page finds nobody; a deletion fails while
  an alert refers to a page; a missed acknowledgement escalates nothing, and repeated
  escalation goes to the same next responder.
* Alerts. A late acknowledgement reopens a resolved alert; overlapping escalations lose
  each other's page or ticket.
* Automation. An approval that overlaps a rejection may leave an execution rejected with
  its actions performed; one that fails half way repeats them when it is given again,
  though `docs/nexus/07-automation-kb-reporting.md:53` asks for idempotent actions.
* Groups of a new user. A form that names one distribution list twice, and nothing else,
  fails its run at `add_groups` each time, since the executor counts the names and the
  resolver each list once (`executor.ts:245`); a task that is pending keeps the list of an
  earlier run.
* Notifications. A dispatch that resolves before the COMMIT finds no ticket and no ballot:
  nobody is told of the new ticket, and no board member of the ballot, though
  `notifications.ts:260` calls that event the important one; one whose transaction rolls
  back tells of what did not happen; a Teams post that succeeds ends the chain, so the
  requester gets no mail of a move; after three failures nobody tries again.
* Staff. Two overlapping removals of the last two SuperAdmins both pass
  (against `platform-users.ts:15-16`); two overlapping changes of access leave the union;
  an operation that loaded an account before it was deleted may activate the tombstone.
* Roster import. Below the floor of 10 everybody may be suspended; a person who signed in
  after the list was read is suspended; a person whose Entra account was made anew is found
  by email, not linked, and suspended in the same run; an account made by hand
  becomes suspendable once it is linked, against the comment in `user-sync.ts`; an address
  that belongs to a customer account of another organization fails every import.
* Elevation and idempotency. Of two overlapping approvals the last one is kept; a retry
  that arrives while the first request is running executes again.

## 6. The proofs

`CabVoting_proofs` has the lemmas on weights (`WeightOf` is a natural number,
monotone, additive over disjoint sets, positive on a non-empty set) and on what
each pure function returns, among them `SnapshotQuorumReachable`: the snapshot
quorum never exceeds a non-empty roster.

Those on the change board hold for every finite set of users, every set of boards,
templates and board contents, every bound on weights and quorums; the others for any
actors and bounds. "If" names what a theorem assumes beside its module's own assumptions:

| Module | Theorem | States | If |
|---|---|---|---|
| `ChangeManagement_proofs` | `TypeCorrect` | `Spec => []TypeOK` | |
| | `RaiserNeverVotes` | `Spec => []RaiserRecused` | |
| | `WorkIsApproved` | `Spec => []NoWorkWithoutApproval` | |
| | `ClosedIsReviewed` | `Spec => []ClosedHasPir` | |
| | `BallotsSurvive` | `Spec => CastBallotsSurvive` | |
| `ChangeVerdict_proofs` | `QuorumAlwaysReachable` | `Spec => []QuorumReachable` | `SingleSubmission` |
| | `OpenVotesAreUndecided` | `Spec => []OpenVoteUndecided` | `SingleSubmission` |
| | `ApprovalsAreBacked` | `Spec => []ApprovalBackedByBallots` | `SingleSubmission` |
| | `ImplementsVerdict` | `Spec => VerdictSpec` | `SingleSubmission` |
| | `ChairIsToldOnce` | `SysSpec => []NotifiedAtMostOnce` | |
| | `SweeperLeavesVotes` | `SysSpec => [](NoWorkWithoutApproval /\ OpenVoteUndecided /\ ApprovalBackedByBallots)` | `SingleSubmission` |
| `CabVerdict_proofs` | `EarlyExitsAreExact` | `Spec => []RejectedIffHopeless` of `CabVerdict` | |
| | `CompleteVotesEnd` | `Spec => []CompleteVoteDecides` of `CabVerdict` | |
| `ServiceDesk_proofs` | `PausesAreCreditedOnce` | `DeskSpec => []PauseCreditedOnce` | |
| | `ReopenedAreSpared` | `DeskSpec => AutoCloseSparesReopened` | |
| | `StampsAreCleared` | `DeskSafety => ReopeningClearsStamps` | |
| `UserLifecycle_proofs` | `RunsAreAlone` | `ProvSpec => []OneRunInFlight` | |
| | `AccountsAreAsPlanned` | `ProvSpec => []AccountIsAsPlanned` | |
| | `EndedRunsStayEnded` | `ProvSpec => EndedStaysEnded` | |
| | `RunsFireOnce` | `OffSpec => []FiresOnce` | |
| | `NothingIsLeftBehind` | `OffSpec => []LeavesNothingBehind` | |
| | `SilenceIsNotPresence` | `RetSpec => []OutageIsNotPresence` | |
| | `HoldsAreTruthful` | `RetSpec => []HoldIsTruthful` | |
| | `AccountsComeAndGo` | the same of the composition `LifeSpec` | |
| `Operations_proofs` | `FilingNeverFails` | `IntakeSpec => []EveryFilingSucceeds` | |
| | `FilingsAreExact` | `IntakeSpec => []FilingIsExact` | |
| | `FormsReadAsSubmitted` | `FormSpec => []ReadsAsSubmitted` | |
| | `SurveyAskedOnce` | `SurveysSpec => []AskedOnce` | |
| | `StaffKeepAccess` | `StaffSpec => []AccessNeverLost` | |
| | `AcksAreOnRecord` | `OnCallSpec => []AckIsRecorded` | |
| | `AlertsStayWhole` | `AlertsSpec => []AlertsAreWhole` | |
| | `ExecutionsAreDone` | `AutomationSpec => []ExecutedIsDone` | |
| | `MovesAreToldOnce` | `NoticesSpec => []ToldOnce` | |
| | `GroupsAreAsApproved` | `GroupsSpec => []AccessAsApproved` | |
| | `DataIsAccounted` | `AnswersSpec => PersonalDataIsAccounted` | |
| | `ChecklistsDecide` | `FulfilSpec => ChecklistDecides` | |
| | `RequesterHearsOnce`, `AccessIsAsGranted`, `RequestsAreSettled`, `OperationsKeepTheirWord` | `OperationsSpec => []HeardOnce`, `[]AccessAsGranted`, and the above of these parts | |
| `Platform_proofs` | `AuditChain` | `AuditSpec => []ChainNeverForks` | |
| | `FleetIsNotRetired` | `SyncSpec => FleetIsSpared` | |
| | `ListsInOrder` | `SyncSpec => NeverOlderList` | |
| | `DueIsExact` | `CalendarSpec => [](remaining = 0 => Due)`: what `DueTimeIsFound` says of the end of the walk | |
| | `StaffAreLinked` | `IdentitySpec => []WhoIsInIsLinked`, the safety half of `StaffGetIn` | |
| | `PlatformIsSound` | these five of `PlatformSpec` | |

The one hypothesis, `SingleSubmission`, says that `Submitters` has at most one element.
Nothing in the code excludes the overlap, and run `RosterMidVote` shows that it breaks what
the theorems say (finding 2). All that is not marked holds with every overlap.

### ChangeManagement_proofs: any number of overlapping requests

`TypeOK` is not inductive: a submission that has read a board needs
to know that it names one (`BoardNamed`), or the members it reads next are those of
`NoBoard`; `TypeInv` adds it. `SafetyInv` adds four parts. `Unborn`: a change that
does not exist has no ballots and no requests under way. `Recused`: besides the
stored ballots, every roster already cut by a submission in flight leaves the raiser
out, and the raiser never changes once set. `Earned`: a change past approval was
approved, and so was one whose pending write leads into work (the fact each read
established stays true because `everApproved` is never reset). `Reviewed`: the same
for closing: whoever is about to write `closed` has seen the review recorded, and
it is never taken back. Each is preserved by every action, one proof step per
action; the temporal step is PTL.

`BallotsSurvive` needs only `TypeInv`: the two steps that touch ballots, the commit
of a submission and a vote, each keep the ballots that were cast.

### ChangeVerdict_proofs: one submission at a time

`SingleSubmission` says that `Submitters` has at most one element, so that two
submissions of a change never overlap; requests of other kinds and edits of boards
and templates still do, without limit. Finding 2 is why it cannot be dropped:
nothing in the code excludes the second submission. The invariant `VoteInv` adds
to `SafetyInv`

* `Unopened`: while the change is a draft, and while a submission is under way, no
  ballot exists and the most another request may do is cancel. So a submission never
  commits onto a vote, although it does not look at the status again.
* `CutSound`: a roster that was cut has a standing member, nobody has voted on it,
  and its quorum, clamped by `SnapshotQuorum`, does not exceed it. So the vote
  opens undecided and can be decided.
* `Classified`: a standard change has no ballots and no roster under way, any other
  is never about to be pre-approved.
* `Decided`: the status agrees with what `ResolveVote` says of the ballots, and
  every pending write of a later status is backed by them. The last part is
  what makes stale writes harmless to approval: a write into work was read under an
  approving verdict, and an approving verdict closes the vote, so no ballot can
  change between the read and the write.

`ImplementsVerdict` follows: a step that leaves the ballots alone is `Hold` or
`Release` (the invariant after the step says that what is released is backed), and
`CreateChange`, `SubmitCommit` and `CastVote` are `Preapprove` (or `Hold`), `Open`
and `Cast`. The instance has copies of `CabVoting`'s operators of its own; four
lemmas (`SameRules` to `SameResolve`) say that they are the same.

### CabVerdict_proofs: exact early exits

The inductive invariant says that the quorum does not exceed the standing roster.
A rejection is not premature because completing a vote can only add approvals up to
the pending weight and only add rejections (`CompleteTally`), and the three
thresholds are monotone in both (`ThresholdMonotone`, with two thirds rewritten as
`a >= 2 * r`). It is not late because a vote left open passes when every pending
ballot approves (`OpenCanPass`): the standing board has then turned out, and either
the threshold could still be met or nobody has taken a side yet. Together with
`ImplementsVerdict` this carries over to the votes of `ChangeManagement`.

### ChangeVerdict_proofs: the sweeper

`ChairIsToldOnce` needs no assumption on the number of ticks or submissions. `ClaimInv`: as long as
the marker is not set nobody has claimed and nothing was announced; at most one tick is
between its claim and its notice, and while one is, none was published. The UPDATE that sets the
marker only where it is null makes the step. `SweeperLeavesChange` says that a step of
the sweeper leaves the change alone, but for the deadline passing, which nothing proved of the board
relies on, so that what was proved of the board carries over
(`SweeperLeavesVotes`).

### ServiceDesk_proofs: clocks, locks and stamps

* `ClockInv`. A due time is no later than the target and the time that has passed, and
  no earlier than the target unless it is past the horizon (`DueOK`). Of a paused row it is
  no later than the target and the time of the pause (`RowOK`): so the time from then on
  is counted once, by whichever of `ResumeSlaWrite` and a resuming transition comes first. What
  a request or a sweep holds of rows that others may have changed meanwhile is bounded in the same
  way (`DuesOK`, `SweptOK`), and that is what makes their stale writes harmless to the credit.
* `LockInv`. Whoever is between a locking read and its commit holds the row, and while
  the auto-close job does, the ticket is resolved, long ago: nobody reopens it under the job.
* `StampsAreCleared`. A request that writes over the status it has read keeps an open ticket
  free of stamps, because `StampedRow` clears them on the way out of resolved or closed
  (`RequestsClear`); the jobs, the other requests and the rule that closes reopen nothing
  (`OthersClear`). What is left are the stale writes and the two rules, which the property names.

### UserLifecycle_proofs: the three engines

`ProvIInv`. A request that has recorded its run carries it: the run is running, with its plan
(`CarriesItsRun`), and what is done of the plan is done to the account (`StepsAreDone`); two
requests never carry one (`OneCarries`), which the unique index of runs in flight gives. A poller has
looked up a run that is complete, and complete it stays (`PollOK`). A plan assigns the Cloud PC group
after the licences and with the licence only (`LicensedFirst`). Deaths strand a run in flight,
and nothing takes one out of its end.

`OffIInv`. A run is claimed once and not while it may be cancelled (`ClaimedOnce`); a sweeper that
is past its claim has its run, whose first step is blocking sign-in; what is done is on record
before the run ends, the hold included unless its INSERT was lost and noted (`OnRecord`,
`Secured`). A mailbox is safe (`MailboxSafe`) because the licence goes after the conversion, which is
passed only by a run that skips what follows (`Done`).

`PresenceInv`. A hold is checked no later than its account was there (`SeenThere`), and a
sweep is about to record as checked only what was there on its day (`SweepOK`): an outage
writes nothing. `AlarmInv`: a hold that is active has raised nothing, one that has raised a ticket is not
active again, so that no sweep selects it, and its tickets and the sweeps that still have it in hand
are together no more than there are sweeps, since a sweep lets go of a hold as it raises its ticket.

`AccountsComeAndGo` lifts them: each step of `LifeSpec` is a step of each engine or leaves its
variables alone.

### Operations_proofs: the parts and the whole

One inductive invariant for each part, each with a type and these:

* `IntakeIInv`: whoever has a number holds the lock and its number is free
  (`NumberedHoldsLock`, from `NumbersHaveTop` and the arithmetic of `DigitsOf`); a second try
  finds the row the first collided with (`SecondTryFinds`). `TakenUp`: a mail that opened a ticket
  has its marker, and what came of it and the ticks that have it in hand are no more than the ticks,
  since a tick lets go of a mail as it files it.
* `FormIInv`: until submitted a form has no answer; each edit is shown to give what a submission of
  the same answers gives, place by place.
* `SurveyIInv`: the row comes before the mail and the mail before the answer.
* `StaffIInv`: an operation is about an account that was there and brings a role
  (`OpIsFounded`); a tombstone stays unnamed.
* `OnCallIInv`: between its two statements an acknowledgement has its row, or its page is
  gone with the schedule.
* `AlertIInv`: a transition at work moves from a row that was whole when it was read
  (`MovesFromWhole`), and writes state and stamps together.
* `AutomationIInv`: safe actions precede the record, gated ones follow it, and who approves has
  performed what is no longer to do (`JudgeIsTrue`).
* `NoticesIInv`: of the events of one operation one move is not quiet (`EventsOK`); its
  requester is still to tell or has been (`RequesterIsNext`), and a dispatch that is done has left a
  row (`RecordOK`).
* `GroupIInv`: every run is of a plan that was previewed; a group that is no longer to join was
  joined or a failure is known (`RowOK`); one request joins at a time (`OneJoins`).
* `AnswersIInv`: an edit holds its ticket open (`HoldsOpen`), a purge has taken all that is stored
  of what it deletes (`TakesAll`), and what is destroyed is what is on record and what purges have
  yet to record, counted once (`CountTaken`).
* `FulfilIInv`: what a call wrote it wrote under the lock (`WritesAreLocked`), and whoever resolves
  has counted no task but its own (`CountedIsLast`).

`PartsBehave`: a behaviour of `OperationsSpec` is one of each part, because the
part that is not shown rests in an initial state. So the properties that join two parts
(`HeardOnce`, `AccessAsGranted`) hold of the composition the run checks.

### Platform_proofs: the chain, the fleet, the calendar and the two planes

`AuditChain`, for any handlers, nesting and pool. The invariant `ChainIInv` adds what the
comment in `audit.ts` claims of the advisory lock: who is between lock and commit holds it
(`LockGuardsChain`), and what it has read is still the last hash (`LastIsFresh`).
`AppendKeepsChain` is the step of `verifyChain`'s loop.

`ListsInOrder` and `FleetIsNotRetired`, for any devices, runs, changes and faults. In
`SyncIInv`, `WriterOwns` says that whoever writes owns a running lease and that the last
list written is its own, so that there is one writer (`OneWriter`); `OwnListIsNewest`
that a run which still owns its lease has seen nothing newer written; `RecordedFirst`
that a pass retires only after it has recorded what it found, which the guard makes
non-empty unless the list has rows without a usable id (`RetiringSawRows`). One thing is
assumed by the model and not by a constant: the writes that follow `Recheck` take less
than a lease, so that `LeaseExpires` cannot fall between them.

`DueIsExact` is the partial correctness of `addBusinessMinutes`, for any day, hours, holidays, start and
target. `WalkInv`: of the business time the walk has gone past, all is used but for less than a
minute (`Unused`), and a part of a minute can have been lost only once, on the first day, because
from the next opening on the cursor is at a whole minute (`OnTheMinute`). Business time is a
cardinality, so it adds up (`BusinessSplits`), and a stretch has all of it or none
(`AllBusiness`, `NoBusiness`); `DayOfCursor` says which. That the walk ends stays with TLC.

`StaffAreLinked`, for any number of sign-ins, creations, customer sign-ins and imports. An identity is on one
row (`OnOneRow`); one transaction at a time has written the staff row (`OneWrites`), and if it links
the identity, the customer row is free of it or will be at the same COMMIT
(`WrittenIsFree`), since whoever would write that row waits.

### What the constants are assumed to be

The assumptions are the named ones of the modules, and TLC evaluates them on every run. Beside
ranges and finiteness they are: the identities of actors of different kinds differ (`TicketIntake`,
`Notifications`), an action is safe or gated and not both (`Automation`), the description is a field and
not the selector of conditions (`RequestForms`), no account is called "none" (`Retention`).

### Only model-checked

The liveness properties `OverdueIsClaimed`, `NothingIsForgotten`, `WhatBeginsEnds`, `AuditReturns`,
`SyncCatchesUp`, `DueTimeIsFound` and `StaffGetIn`, of the last two what lies beyond the safety that is
proved: that the walk ends, that whoever tries gets in. Fairness and ENABLED are out of the prover's
reach. The counterexamples of section 5 are TLC's by nature.

## 7. What the models leave out

Whole components, and why:

* HTTP idempotency: one lookup in a map of the process before a handler, one write
  after it. Nothing follows the lookup that a property could be about.
* Just-in-time elevation: one row, one statement for each operation.
* Escalation policies: rows that nothing executes.
* Announcements, channel settings, mail templates: rows that are edited and rendered.
* Knowledge base, billing, reports, posture, storage, demo, problems, queues: queries and
  single-row edits.
* Routes, seeds and migrations, the web portal, infrastructure and documents: no state
  of the program changes there that a handler above does not change. They are most of
  the lines of the repository.

In the change board:

* One change at a time: the only reads across changes are window conflicts, which
  are reported and never refused.
* Windows, blackouts, comments, resent requests: no property depends on them.
* The purge of closed and rejected changes; the audit record and the events beside a
  transaction, but for the notice of the sweeper.
* `putBoard` installs one of `BoardConfigs` whole; a partial update of the same
  fields is a content the set can contain.

In the other parts:

* Tickets: bulk edits, links but for merging, comments that change nothing else. Clocks: policies per category, time zones (the code computes in UTC).
* Provisioning: delivery of credentials; of the groups, names that a directory holds twice
  and a user to copy from who is gone.
  Offboarding: notes on the ticket and its tasks. Retention: release by hand.
* Device sync: pages of one list read at different moments, edits by hand. Mail: the second
  comment of a reply whose tick died before its marker, recognition of senders.
* Surveys: expiry of the link, scores. Forms: types of answers, attachments, the editor.
* Accounts: organizations of a role, suspension of leavers by the import, customer
  administration, tokens, passwords, API keys.
* On-call: windows of overrides and rotations, phone numbers. Alerts: the ticket one is
  escalated to. Notifications: events of posture, paging, approvals, surveys and clocks,
  each with recipients of one query. Automation: conditions, several rules, what an action does
  beside the status of its ticket.

Everywhere: organizations and row-level security (a part is one organization's), and
permissions that change during a run (a request is checked against constants).
