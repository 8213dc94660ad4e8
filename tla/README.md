# HR One: verification project

HR One is a human-resources application for companies in Taiwan: Next.js route handlers and server
actions call services under `src/server`, which keep their state in PostgreSQL through Prisma. There
is no message bus and no worker process: every state change is a server request, and requests run
concurrently, each in its own process or event loop turn. What is hard about this program is
therefore what happens **between the statements of a service** when another request commits there.

This directory holds TLA+ modules of those services, TLC configurations that check them on small
instances, and TLAPS proofs for every value of their constants. `PROJECT.json` indexes all of it:
components, runs, mutants, the source lines behind each definition, findings, hazards and theorems.

## 1. How the code is read

- A service function is one **interactive Prisma transaction** (`prisma.$transaction(async tx => ...)`)
  or a read followed by one. No call anywhere in the source sets `isolationLevel`, and no query says
  `FOR UPDATE`, so PostgreSQL runs everything READ COMMITTED: a read sees the last committed row and
  takes no lock; an update waits for the row's lock and holds it to the commit; a `deleteMany` deletes
  the rows committed when the statement began; nothing written is seen before the commit.
- A module has a variable `session`: the call each worker (a server request) has in progress, with
  the values it has read. A call is **split exactly where another call can change what it read**: read,
  lock, commit. Statements in between that others cannot observe are one step. The values a call
  writes are computed from the copy it read, when the code does so (`balance.pending + units` as an
  absolute value), and from the row as it is, when the code does so (`{ increment: ... }`).
- `Abort` is a failing statement, a timeout or a server that stops: what the call has not committed
  is gone. In `ReportQueue`, and where `Attendance` resolves exceptions one by one, a call has several
  transactions, and what it has committed stays.
- A **history variable** is written by the model and never read by a guard. `crossed`, `raced`,
  `overtaken`, `unguarded`, `stale`, `late`, `moved`, `fabricated` and `looped` record that *a call
  committed over a change it had not seen*, or that a check was replaced or cut short; `tries`,
  `confirmed`, `asked`, `marked` and `closed` record what a property compares with. A property of the
  form "X unless crossed" says two things: X follows from the code when calls do not overlap in that
  precise way, and *only* that overlap can break it. What then goes wrong is shown by the five runs
  that expect a violation, or told in section 5.
- Where all calls of a module together are out of TLC's reach, its MC module has a variable
  `scenario`, chosen at the start, which leaves some inputs out (`Within`). It bounds the inputs and
  changes no operation; the theorems are about the specification without it.
- Left out everywhere: notifications, telemetry, audit rows and their texts (insert-only side records
  of the same transaction), dates (except as the events they cause), tenants (every query is scoped to
  one), permissions (handlers are modelled for callers that have them), formatting.

## 2. Inventory

Components with the state they keep, their operations, what makes them hard and what makes them
correct. The first eight are modelled, of the ninth the grant, of the tenth what an open payroll run
notices; the others are not. `PROJECT.json` states for each what is left out.

| Component | State | Operations | Hard | Correct when |
|---|---|---|---|---|
| Leave requests and approvals (`workflows/service.ts`, `rules.ts`) | LeaveBalance, LeaveRequest, ApprovalTask, ApprovalEvent | request, approve, reject | balance and task are read without a lock and written back | columns of a balance are what its requests add up to; one decision per request; nobody gets more than granted |
| Payroll close, adjustments, settlement (`payroll/db-store.ts`, `adjustments.ts`, `leave/annual-leave-settlements.ts`) | PayrollRun, PayrollItem, Payslip, PayrollAdjustment, AnnualLeaveSettlement, LeaveBalance | create, resolve, recalculate, confirm, lock, release, adjust, decide, prepare | six calls check a status outside the transaction and update by id; a run can be reopened | totals, payslips and items agree; what is locked is what HR confirmed, under reviewed rules |
| Custom forms (`workflows/service.ts`, `workflow-engine.ts`) | FormTemplate, FormSubmission, ApprovalTask, ApprovalEvent | submit, approve and route, reject | the next step is computed after the lock, permission to decide before it | every step the template asks for is reviewed, in order, by the right person |
| Report exports (`reports/builder.ts`) | ReportJob with a metadata document, ReportExportArchive | create, review, export, retry, clean up, download | jobs are not claimed; every writer replaces the whole metadata document | no export without the second person's review; every queued job ends; expired archives stay expired |
| User access (`auth/access-management.ts`) | User, UserRole, Employee.userId | invite, update status and roles, link, unlink | guards read other users' rows without locks; roles are deleted and inserted | an active owner remains; roles are the ones last given; suspension and links hold |
| Attendance: clock, exceptions, sign-off; overtime and punch correction (`workflows/service.ts`, `attendance/exceptions.ts`, `signoffs.ts`) | AttendanceRecord, AttendanceException, AttendancePeriodSignoff, OvertimeRequest, PunchCorrectionRequest | clock in and out, request, decide, file, resolve, sign | a punch has the time the call took before its transaction; counts are separate queries, and the demo's when one fails | status and punches tell which came last; corrected punches were approved; a sign-off describes its period |
| Manager lines (`organization/settings.ts`, `employees/master.ts`, `imports.ts`) | Employee.managerId | assign, save profile, hire, import | the walk up the line takes no locks, stops after 100 steps, and imports do none | nobody is their own manager |
| Employee lifecycle and offboarding (`employees/lifecycle.ts`, `offboarding.ts`) | Employee, EmployeeLifecycleEvent, EmployeeOffboardingTask | record event, update task, launch gate | the row is read before the transaction and written back; a second connection inside it; 20 newest events | the timeline leads to the status; nobody leaves with open tasks unnoticed |
| Annual leave grants and expiry (`leave/annual-leave-grants.ts`) | LeaveBalance, grant rows | grant batch | a batch writes absolute columns over live requests | a new year starts with what was left, up to the limit |
| Rule versions, Taiwan labour standards (`rules/settings.ts`) | LawRule, RuleVersion | edit, review sources | a later version hides what an earlier one asked for | a lock is under reviewed rules |
| Work-time agreements, shifts, calendar | settings rows | upsert | - | - |
| Payroll exports, profiles, payment settings | export rows, settings | export, upsert | export of a run read before | a file's totals are those of the run |
| Sessions, OIDC, permissions; request security | signed cookies | verify | stateless per request | - |
| Support access | SupportAccessGrant | approve, revoke | falls back to memory on a database error | a reported approval is stored |
| Privacy, incidents, announcements, training, work rules | records with a status | set status | no refused transition | - |
| Documents, roster, subscriptions, notifications, audit, AI, readiness tooling, demo stores, UI | insert-only, read-only or in-memory | - | - | - |

**Interaction.** Calls between services are function calls inside one request; components meet in
shared rows. A leave request, an annual grant and an annual leave settlement write the same
LeaveBalance: `LeaveApproval` composes the first two, `PayrollClose` has the settlements, which a lock
of a run applies. The creation of a run reads pending approvals and attendance exceptions as blockers
(`work`); confirm, lock and release read the active rule version. One function, `decideApproval`,
decides leave, forms, overtime and corrections: each module has the branch of its requests. The three
kinds of writers of an employee row (manager line, profile, lifecycle event) are together in `Staff`.
`vercel.json` starts the daily maintenance that drives the export queue.

## 3. Modules

| Module | Models | Builds on |
|---|---|---|
| `LeaveRules` | the arithmetic of `rules.ts`: reserve, settle, carry-over first, `nextApprovalStatus` | |
| `UnitCount` | a sum over a set of requests, as the size of a set (so that it can be proved about) | |
| `LeaveLedger` | abstract: reserve, settle and renew as atomic steps on entitled, used and pending units | |
| `LeaveApproval` | `createLeaveRequest`, leave branch of `decideApproval`, `runAnnualLeaveGrantBatch` | implements `LeaveLedger` |
| `PayrollPeriod` | abstract: the life of one period, every call at once: calculated, confirmed, locked, released, adjusted | |
| `PayrollRules` | the gates of `calculation.ts`, the settlement arithmetic | `LeaveRules` |
| `PayrollClose` | the period's run, items, payslips, adjustments, settlements, rule versions | `PayrollRules`; implements `PayrollPeriod` |
| `FormReview` | abstract: the reviews still to give, given in step order | |
| `FormApproval` | `createCustomFormSubmission`, `decideCustomFormApproval`, step selection | implements `FormReview` |
| `ReportLife` | abstract: a report waits for its review, is queued, uses up attempts, and ends for good | |
| `ReportQueue` | report jobs, review, export queue, maintenance, downloads | implements `ReportLife` |
| `Accounts` | abstract: updates, invitations and links that take effect at once | |
| `UserAccess` | `inviteDbUser`, `updateDbUserAccess`, `linkDbUserEmployee`, `unlinkDbUserEmployee` | implements `Accounts` |
| `Attendance` | `clockAttendance`, overtime and punch correction, exceptions, `signAttendancePeriod` | |
| `Staff` | manager lines, profile form, hiring, imports, `recordLifecycleEvent`, `updateOffboardingTask` | |
| `MC*` | constants, symmetry and scenarios for TLC | |
| `UnitCount_proofs`, `LeaveApproval_proofs`, `PayrollClose_proofs`, `FormApproval_proofs`, `ReportQueue_proofs`, `UserAccess_proofs`, `Attendance_proofs`, `Staff_proofs` | lemmas and theorems | |

### State and actions against the code

**LeaveApproval.** `balance`, `request`, `task`, `events` are the committed rows. `ReadBalance` is
`getRequestContext`, the `findFirst` of the balance and the check of `reserveLeaveUnits`;
`SubmitRequest` the inserts and the balance update with the commit. `ReadTask` is the unlocked read of
the approver's task with the check of `nextApprovalStatus`; `LockTask` the update of the task row,
which waits, and the reads after it; `DecideTask` the update of request and balance, the event and the
commit. One unit is a hundredth of a day (`roundUnits`), so arithmetic is on integers. `ReadForGrant`
is the `findMany` with which a grant batch reads every balance, `GrantYear` the upserts that write
every column with used and pending units as zero; `closed` are the requests of the years before.

**PayrollClose.** One payroll period, hence one `run`. A total and the pay on a payslip are *formal
sums*: the set of items they add up. That makes "the totals are right" an equation between sets,
`run.net = items`, which no rounding can satisfy by accident and which notices a doubled, missing or
stale item. The rows one calculation inserts for all employees are one element, since they are
inserted and deleted together; an adjustment is a row of its own. `doomed` is the set of rows a
`deleteMany` has seen. `Calls` lets a configuration leave whole operations out, to keep the number of
combinations in reach: it bounds the inputs and changes no operation. A rule version is published in
one step, although the active version is read without a lock: the transaction begins with the upsert
of the LawRule row (`rules/settings.ts:1327`), an update on conflict, so edits wait for each other
before they read.

**FormApproval.** `tasks[s]` are the ApprovalTask rows of a submission, oldest first. `answers` are the
steps whose condition the answers meet: all that `stepConditionMatches` tells apart. Routing to the
next step picks any HR administrator or the manager of the *acting* employee, as the code does. No
call changes a template, so templates are constants.

**ReportQueue.** A job has the status column and, in its metadata, the review and queue states, which
every writer replaces as a whole from the copy it read (`Write`). A maintenance call reads its jobs
once, then exports them one after the other, each in a transaction, then cleans up archives. Time is
two events: a retry falls due, an archive passes its deadline. `Current` is whether the copy a call
has read is still what is stored: only a step over a copy that is not can make a job `raced`.

**UserAccess.** `Told` is what a commit does to calls in progress: they become stale, and a
`deleteMany` that has begun misses the roles just inserted. `HoldsRow` is the lock of the User row,
which only a call that sets the status takes.

**Attendance.** A punch is where its time comes from: the number of the clock call that took it
(`TakeTime`, before the transaction of `ClockIn`), or the correction request it was copied from. The
approval task of a request and the request are written together and are one status. The counts of a
sign-off are three queries in any order (`CountNext`); when one fails, `getEmployeeAttendanceSignoffWorkspace`
returns the demo's (`CountFails`). In `exceptions.ts` and in the transaction of the sign-off, the
`try { return promise }` around a database call does not catch, so there is no fall-back there.
Exceptions come from work-time scans (`FileExceptions`, again by every scan) and from the initial data;
only the latter are of the kinds that `resolveDbSafeAttendanceExceptions` takes. `PeriodEnds` is the
turn of the month, after which a scan files its exceptions outside the period.

**Staff.** Department and title are one value, `post`, since every writer sets both, changed or not
(the job position is left out); a transfer and a promotion are one kind, completed and waived tasks
one status. A walk up the manager line is one step per read (`VisitManager`); `CheckLine` is the
check of the settings page on the lines it has loaded, before the walk. `ReadEmployee` is the read
before the transaction of an event, `BeginEvent` the connection it takes, `LockEmployee` its update,
and `CommitEvent` the page that is read over a second connection before the commit
(`lifecycle.ts:300`). `RowLocked` and `FreeConnection` are derived from the sessions. The counts of
the production verification are taken as one snapshot.

## 4. Runs

| Run | Instance | Distinct states | Question |
|---|---|---|---|
| `leave_crossing` | 2 workers, one of them grants; 1 balance, 2 requests, units 0-2 | 179 674 | two calls at once: which guarantees remain? |
| `payroll_close` | 2 workers, 1 employee, 1 adjustment, 3 rows; or 2 rows, 1 further version, 3 settled units | 2 203 235 | the close with reopening, recalculation, adjustments; settlements and rule versions around it |
| `payroll_locked_mutated` | 1 worker | violation | does a locked run stay as it is? No |
| `payroll_rules_changed` | 1 worker, 2 further versions | violation | is a lock always preceded by the recalculation asked for? No |
| `form_review` | 3 workers, 1 submission, 4 templates | 7 619 | is every form reviewed as its template says? |
| `form_review_skipped` | 2 workers | violation | also when one task is decided twice at once? No |
| `report_exports` | 2 workers and 1 job, or 1 worker and 2 jobs with limit 1; 2 attempts, 1 crash | 180 612 | review, export, retry, download and cleanup over each other; does a job in its backoff starve another one? |
| `user_access` | 2 workers, 2 users, 1 employee | 1 477 164 | owner guard, roles and links under overlap: is every call atomic unless another one overtook it? |
| `attendance` | 2 workers, 1 employee, 2 requests, 4 clock calls on one day; or 1 clock call and requests on 2 days; or 2 exceptions and sign-offs | 840 452 | do status, punches and sign-off tell what happened? |
| `attendance_uncleared` | as above | violation | has whoever signs no pending exception? No |
| `people` | 2 workers; lines of 3 employees, changed by one and by the profile form of the other, or 1 employee and 2 events | 227 574 | cycles, lost events, waiting for connections |
| `offboarding_forgotten` | as above, a page of 1 event | violation | is the launch gate right about open tasks? No |

`CHECK_DEADLOCK FALSE` everywhere: an instance has finitely many requests, rows or submissions, and a
system whose users have made them all may rest. That no call is left waiting is `CallsEnd` of `people`,
where calls wait for rows and connections. In leave every call takes the rows in the same order (task,
request, balance), and the model, whose only waits are for the task row, has no cycle to exclude.

**What each property says**

- *Leave.* `LedgerExact`, `NoOverdraw`, `CarryoverFirst`: pending, used, remaining and the split into
  carried-over and current-year units are what the requests of the year add up to. `TrailAgrees` holds
  without exception, also when a task is decided twice: task, request and trail show the last decision.
  `DecidedOnce`, `LedgerUntilCrossed` (the balances start as a ledger, and every step up to the first
  crossed call is a ledger step; a batch that opens a year over pending requests crosses them).
- *Payroll.* `TotalsAgree`, `SlipsAgree`, `AppliedOnce`, `LockedAsConfirmed`, `IncludedIsPaid`,
  `LockedUnderReview`. An excuse names the kinds of overlap that break the property: when any
  one of them is dropped, TLC finds the property violated. The one exception is the overlap of two
  calculations in `IncludedIsPaid`: two calls at once do not need it, the proof for any number does
  use it.
  `PeriodUntilMissed`: status, figures, adjustments, payslips and what HR confirmed together live the
  life of `PayrollPeriod` until a call misses a change. It sees what no single invariant does, that a
  run goes from draft to released through every gate, whatever steps of other calls fall in between.
- *Forms.* `ChainAgrees` (submission, tasks, trail), `RoutedInOrder`, `ReviewUntilCrossed`.
- *Reports.* `ReviewedBySecond` holds without excuse in spite of the lost updates;
  `NeverGivesUpEarly`: a stale copy can undercount attempts, never overcount them;
  `ImplementsLife`: the stored documents, written over as they are, show the life of `ReportLife`, with
  `Lose` for a lost update as the only way out, and that one is closed to a report whose review is
  still to come; `QueuedEnds` and `LateExpires` under fairness.
- *Access.* `OwnerRemains`, `RolesAsAsked`, `LinkNotTaken`; `AtomicUnlessOvertaken`: a call that no other
  one overtook between its reads and its commit is one step of `Accounts`. (That an invitation lifts no
  suspension is a consequence, and a theorem.)
- *Attendance.* `PunchesInOrder`: clocking in again keeps the old clock-out, and still status and
  punches tell which came last, unless a call took its time before a younger one that committed first.
  `CorrectionsApproved`: a corrected punch has an approved request of that day that asked for it.
  `SignoffDescribes`: a signed summary is that of the period, nothing in it open, unless it changed
  after it was counted or the counts are the demo's.
- *Staff.* `NoReportingCycle`; `TimelineTells`: the events of an employee are a chain from `active` to
  the status of the row, and only a return ends a leave or a termination; `PostAsAsked`: no event
  undoes a profile change it did not ask to; `VerifiedMeansSettled`: comparing two *counts*, as the
  verification does, is enough, since tasks exist for terminations only; `CallsEnd`, with walks over
  lines that loop or change, and with events that wait for a second connection.

Every property of a passing run has a mutant, a plausible bug in a mapped definition (a dropped
guard, a forgotten floor, a statement outside the transaction that a rollback does not undo) with
which TLC finds that property violated.

### Bounds and why they are enough

Two workers suffice for every hazard listed: each is one call committing inside another. Forms have
three, since a routed form has a second task that can be decided while two calls are on the first.
The balance holds one carried-over and two current-year units, so that one request can straddle both
parts, two can exceed the whole and zero is refused; one worker grants, over all that the other one
does, and a new year brings one unit and carries over at most one, fewer than can be left. Three
payroll rows allow two calculations and an adjustment, or a recalculation over another one after an
adjustment. Three settled units let a lock apply a settlement after an earlier one (`MaxSettled`
stops an endless repetition). Two attempts give one retry and a last failure; one crash is enough to
break off each call once at each point, and more would only repeat. Two users are an owner and
another one, who can become an owner, be suspended or invited. Four clock calls (`MaxTime`) are a
day clocked twice over, each call overtaken or not; two days show that a correction reaches the
record of its own day, and that it is its own employee's is left to the theorem; two exceptions are
one settled and one that opens between the counts. Three employees make a cycle of three, which no
call closes alone, and a line that is longer than `MaxDepth` allows (2, for 100); one event on the
lifecycle page (`EventWindow`, for 20) lets a second event hide the first; two connections for two
calls let both keep one and wait for another. One offboarding task per termination is enough to be
open. For every module but the abstract ones the theorems below hold for every value of the bounds.

### Fairness

- `ReportQueue!Fairness`: a retry falls due once its time has come; the maintenance is started again
  and again (`vercel.json` schedules it daily), which is strong fairness since other calls may keep
  the workers busy now and then; a call not broken off proceeds (Prisma bounds interactive
  transactions); calls are broken off finitely often.
- `Staff!Fairness`: strong fairness of the steps of a call in progress. Both things it may wait for, a
  row lock and a connection of Prisma's pool, are queues that serve their waiters in turn, and a
  transaction that gets no second connection times out and is rolled back (`TimeOut`).

The other modules state safety only.

## 5. What the checks found

1. **A locked payroll run is reopened by creating it again** (`payroll_locked_mutated`;
   `payroll/db-store.ts:102`). The upsert's update branch sets the status without looking at it;
   recalculation and resolving do the same. `PLAN.md:1152` forbids it without permission and reason.
   No overlap is needed.
2. **A review of the legal sources lifts a demanded recalculation** (`payroll_rules_changed`;
   `rules/settings.ts:1043`). Only the active version is asked whether it needs one, and the review
   publishes a version that does not. `README.md:92` says lock waits until HR recalculates.
3. **Approving twice at the same moment skips the HR review** (`form_review_skipped`;
   `workflows/service.ts:616`). The second call finds the form already at its last step and approves it.
4. **A period is signed with exceptions open when a count fails** (`attendance_uncleared`;
   `attendance/signoffs.ts:117`). The demo workspace has no open exception, and the sign-off goes to the
   database with its counts. `README.md:408` says pending exceptions are cleared first.
5. **Twenty later events hide open offboarding tasks** (`offboarding_forgotten`;
   `employees/lifecycle.ts:143`). The launch gate asks the page, which shows the terminations among the
   20 newest events of any kind. `README.md:404` says every termination event. (The verification
   script, which counts rows, is right: `VerifiedMeansSettled`.)

Also visible in the models, and excused in a property because no source rules it out:

- Two overlapping leave requests are both accepted beyond the balance, and the columns show the second
  only (`workflows/service.ts:423`; `crossed`).
- A grant batch over pending requests forgets their reservation, and their approval then charges the
  new year (`annual-leave-grants.ts:187`); after overlaps, or two batches for one year, which nothing
  marks as done, what is carried over can be too much or below zero.
- The invitation of the e-mail of the last active owner sets that account to `invited` without the
  owner guard (`access-management.ts:281`; `unguarded`).
- A lock of a reopened run applies its settlements again, and drafts for two reasons pay the same
  unused units (`LockRun`, `Reasons`).
- An approval and a rejection that overlap leave a record corrected by a rejected request
  (`service.ts:616`; `crossed` of `Attendance`).
- Two overlapping changes close a reporting cycle, as does a file with one, or a profile of somebody
  more than 100 managers down (`organization/settings.ts:961`, `imports.ts:173`, `master.ts:1200`;
  `looped`).
- A lifecycle event read before a termination and committed after it makes the employee active again
  (`lifecycle.ts:203`; `overtaken`).
- With `connection_limit=1`, which `README.md:534` recommends, an event waits for a second connection
  while it holds the only one, and times out (`lifecycle.ts:300`; the same shape in
  `insurance/statutory.ts:168`). With two connections two overlapping events do.

## 6. What is proved

`tlapm` checks every proof to the last leaf; nothing is taken on trust but the named assumptions on
constants, which TLC evaluates in the runs: `RoutedAssumption`, `UnitsAssumption`, `GrantAssumption`,
`RequestsAssumption` (finitely many request identifiers), `LeaveAssumption`, `BoundsAssumption` (of
payroll, and of reports), `PeopleAssumption`, `TemplatesAssumption`, `OwnerAssumption`,
`InputAssumption`, `PeriodAssumption`, `StaffAssumption`, `NamesAssumption`. They say what the
constants are, that things that are counted are finitely many, and nothing about behaviour. Balances,
users, roles, submissions and posts may be any sets, and so may workers except in `Staff`, which
counts their connections.

Two kinds of theorem answer each other. The first, for every behaviour of the specification, states
a property *up to* a recorded overlap (`crossed`, `raced`, `overtaken`, ...). An excuse like that
could hide too much, so the second says when it never applies: *if calls do not overlap in the way
named, the history variable stays as it was at the start*, so that the property holds without the
excuse. The
hypothesis is a condition on the calls in progress (`[]Orderly(b)`, `[]Undisturbed(k)`, ...), stated
over `session` and not over the history variables. It is about one balance, request, job, day or
employee: calls on others overlap as they like, any number of them. What the code lacks is thereby
exact: a lock on the row at the first read would establish the hypothesis (`Orderly`, `OneClock`,
`OneDecision`, `OneChange`, `OneCallPerJob`, `OneDecisionPerTask`), since the calls that do not overlap
may still come in any order and number, crash and start again. None of these is a hypothesis that
nothing satisfies: every behaviour with one worker does, save that a new year may begin over a pending
request (`Orderly`) and that a file may hold a cycle (`SoundFiles`), which are conditions of their own.

**Leave** (`LeaveApproval_proofs`, on lemmas of `UnitCount_proofs`).
`TypeCorrect`, `TrailAlwaysAgrees`, `LedgerAlwaysExact`, `NeverOverdrawn`, `CarryoverAlwaysFirst`,
`DecidedAtMostOnce`, `LedgerStepsUntilCrossed`, `OrderlyNeverCrossed`, `OrderlyImplementsLedger`.
The argument has three layers. *BaseInv*, typing and what a session may hold: a reserving session has
a request identifier to itself, a deciding or settling one has a request that exists, with a task.
*LedgerInv*, for balances not crossed: the columns equal the units counted from the requests of the
year, every request of an earlier year is decided (`ClosedSettled`), and the row a session has seen, if
still the current one, allows the units it is about to write. Counting is the size of a union of
disjoint finite sets, so adding or removing a request changes it by its units (`UnitCount_proofs`). A
grant that crosses nothing is the ledger's `Renew`. *OrderlyInv(b)*, for a balance on which at most
one call is at work and over whose pending requests no year begins: what a session has read of it is
still so. It is inductive for each balance by itself, so the balance is never crossed, and if all
are orderly the refinement proper (`ImplementsLedger`) follows from the step theorem. (A grant is at
work on all annual balances at once.)

**Payroll** (`PayrollClose_proofs`). `CloseTypeCorrect`, `TotalsAlwaysAgree`, `SlipsAlwaysAgree`,
`AlwaysAppliedOnce`, `AlwaysLockedAsConfirmed`, `IncludedAlwaysPaid`, `AlwaysLockedUnderReview`, from
one inductive invariant *CloseInv*. Beyond the properties themselves it needs: a run has no items
before it exists and keeps figures from its calculation on (`FiguresKept`); its figures are those of
the rule version it names, until two calculations overlap (`FiguresOfVersion`); `LockedAsConfirmed`
from the confirmation on and not only from the lock (`FiguresConfirmed`), because a lock's check and
its commit are two steps and the property alone says nothing of the state between them; and what a
*session in progress* may rely on although the run changes under it (`SessionsSound`): that the run
and its figures still exist, that a lock was checked on a confirmed run whose rules were reviewed, that
a decision saw a pending adjustment.
`Undisturbed(k)`, for each of the six reasons for which a call can miss a change, names the calls that
*rely* on what they have read and those whose next step would *spoil* it (`Relying`, `Spoiling`);
`Spared(k)` does so for steps that are not split. *SeenInv(k)*, what the relying calls have read
stands (`SeenStands`), is inductive under them: `UndisturbedNeverMissed`. The properties follow without
excuse, each from the reasons it names and no others: `UndisturbedTotals`, `UndisturbedPaid`,
`UndisturbedOnce`, `UndisturbedSlips`, `UndisturbedLocked`, `UndisturbedReview`. Until a change is missed,
every step shows a step of `PayrollPeriod` or nothing (`CloseStepsUntilMissed`), and with no call disturbed
the close implements it (`UndisturbedImplementsPeriod`). The refinement takes the figures apart from the
adjustments, and keeps the figures HR confirmed. What it does not promise is what the code does not:
a released run can be opened again, and its payslips then stay as they are.

**Forms** (`FormApproval_proofs`). `FormTypeCorrect`, `ChainsAgree`, `StepsInOrder`,
`ReviewImplemented`, `ReviewsGivenUncrossed`, `AloneEveryReviewGiven`, `AloneImplementsReview`, from
*FormInv*. Of a form not crossed it says: submission, tasks and trail tell one story (`Story`); the
tasks are those of the required steps up to the current one (`Way`); the submission a call has read
is the current one as long as its task is open (`CallSound`); and of two calls that hold task locks
no two hold the same. The refinement maps a submission to the set of reviews still to give: an
approval that routes removes the least, and that a least one exists, for any template, is
well-foundedness of the natural numbers (`Least`). A form is approved only when no required step is
left behind the current one (`NoneLeft`), and up to that one every step has its approved task
(`Way`), so an uncrossed form is approved with every review. With one decision of a task at a time
that is so of all forms: the promise that `form_review_skipped` refutes is exactly that much away.

**Reports** (`ReportQueue_proofs`). `ReportTypeCorrect`, `ReviewsComeFirst`,
`GivenUpOnlyAfterTries`, `GeneratedOnlyRaced`, `LifeImplemented`, `AloneNothingLost`,
`AloneFinalForGood`, from *QueueInv*. Every writer puts back a changed copy of a job it read some
time ago, so what is to hold of the stored job must hold of every copy a call holds (`Sound`),
against a number of tries that has meanwhile only grown. That is why the properties survive lost
updates: a copy is wrong about the present and still sound. The refinement of `ReportLife` shows a
job as `Lost` once it is `raced`, and rests on *LifeInv*: a job that awaits its review is changed by
nothing but an approval, so the copy of a call that reviews it is what is stored, and an export
never holds a copy of such a job. So a lost update can repeat an export or revive a report, and
cannot lose a review. With one call per job at a time every copy is what is stored (`CopiesFresh`),
nothing is lost, and a generated or given-up report never changes again.

**Access** (`UserAccess_proofs`). `AccessTypeCorrect`, `ActiveOwnerAlwaysRemains`,
`RolesAlwaysAsAsked`, `SuspensionAlwaysKept`, `LinkNeverTaken`, `CallsAtomicUnlessOvertaken`,
`AloneImplementsAccounts`, `AloneOwnerRemains`, from *AccessInv*: typing, the owner clause, roles as
asked, and `SessionsSound`: a session that is not stale still sees what its guard saw, and the roles
it will miss are among those given since it started. Hence the commit of a session that is not stale
is one step of `Accounts`: its guard, checked statements ago, holds of the rows it writes over. With
one change of access and one change of links in progress at a time (a change may overlap with a
link) no session is ever stale, so `UserAccess` implements `Accounts`; and since an update of
`Accounts` leaves an owner, only the invitation of an active owner can leave none (`OwnerInvited`).

**Attendance** (`Attendance_proofs`). `AttendanceTypeCorrect`, `PunchesAlwaysInOrder`,
`CorrectionsAlwaysApproved`, `SignoffAlwaysDescribes`, `OneClockInOrder`, `OneDecisionForGood`,
`OneDecisionShows`, from *AttendanceInv*: the time a clock call has taken is its own and on no
record yet, no record has a time from the future, the request a decision is about exists, and what a
sign-off has counted is right unless it is stale. If the clock calls of a day do not overlap, the
time such a call has taken is younger than both punches of the record (*ClockInv*), whatever
corrections commit meanwhile, so none commits late. If the decisions of a request do not overlap, a
call that decides it still finds it pending (*DecisionInv*): it is decided once, for good, and a
punch copied from it stands for an approval.

**Staff** (`Staff_proofs`), from one base and three invariants. *BaseInv*: typing, calls are about
people who are hired, managers are hired. *LinesInv* for `LinesNeverLoop`: what a walk that is not
stale has visited is closed under managers up to its cursor, and free of the employee, so when the
cursor arrives at nobody a line to the new manager closes no loop. "Cycle" is stated without paths: in
every non-empty set of employees somebody's manager is outside it. *TimelineInv* for `TimelinesAlwaysTell`:
events are about hired people; a new one is the last of its employee and starts from the status the row
has, unless overtaken. *TaskInv* for `VerificationCounts`: saved tasks are those of terminations, so
equal cardinality of two finite sets, one inside the other, makes them equal. `PostsOnlyAsAsked` needs
*BaseInv* only, `StaffTypeCorrect` is part of it. For changes that do not overlap, `OneChangeNeverOvertaken`,
`OneChangeStoryTold` and `OneChangePostAsAsked` follow from *FreshInv(e)*: the row an event has read is
still there; it asks nothing of changes of the manager alone, which write no column an event writes back.
`OneWalkNeverLoops` rests on *UnloopedInv*: no walk in progress is stale, and a walk that was cut short
after `MaxDepth` managers would have visited that many different people besides the employee, whom an
organization of at most `MaxDepth` employees does not have. The settings page checks a line on the
lines it has loaded and walks them again, so it may overlap with other settings pages up to the walk.

**Only model-checked.** Liveness, which is out of the prover's reach: `CallsEnd` of staff,
`QueuedEnds`, `LateExpires`. Every other property of a passing run is the subject of a theorem. For
the same reason the theorems without excuse say that nothing wrong happens when calls do not
overlap, and not that calls end then.

## 7. What is not modelled

- *In modelled components:* the pay formulas of `calculation.ts` (pure arithmetic on decimals, the
  demo store's included); more than one payroll period or attendance period at a time (periods share
  only leave balances and rules); joining and leaving of employees during a close; contents, tokens
  and the permission matrix of reports; external identities and the pilot import of users; which risks
  a work-time scan finds, the coverage page and the attendance policy; severance pay, employment terms
  and the parsing of import files; the tiers of service months that an annual entitlement is computed
  from (a grant brings any of `GrantChoices`); contents of rule versions beyond review and
  recalculation.
- *Statements inside a step:* `Recalculate` includes every draft settlement at its commit; a preparation
  that replaces drafts while the `updateMany` of the calculation waits for them (`db-store.ts:208`) would
  leave the new ones drafts. A report job without a user in the session, whose review the code lets
  anybody give (`builder.ts:2359`), is left out: the model's callers are users.
- *Across components:* the settlements of `PayrollClose` and the requests of `LeaveApproval` on one
  balance; a payroll export, which is built from a run read before and inserted once; the order in
  which a release and an approved adjustment lock run and payslips, where PostgreSQL would break the
  deadlock by aborting one. The last two are listed as hazards without a property.
- *Components:* `PROJECT.json` lists each with its reason. In short: read-only queries and pages,
  insert-only side records, settings written by a single upsert, stateless checks, scripts, and the
  in-memory demo stores have no interleaving or history a model would explore.
- Integer overflow and machine widths do not arise: units and amounts are decimals.

## 8. Plan

Done, in this order: leave, payroll, forms, reports, access, and the proofs for leave, payroll and
access; then annual grants over requests (in `LeaveApproval`), attendance with overtime and
corrections, manager lines with employee lifecycle and offboarding (`Staff`), and the proofs for
forms, reports, attendance and staff; then the abstract `Accounts`, `ReportLife` and `PayrollPeriod` with
their refinements, and for every component the theorems without excuse.

Left, by importance:

1. Settlements beside requests and grants on one balance: the settlement steps of `PayrollClose`
   against a ledger of their own.
2. Payroll exports beside `PayrollClose`: a file's totals are those of the run, unless adjusted since.
3. Lock order across handlers: a release locks payslips before the run (`db-store.ts:389`), an
   approved adjustment the run before the payslip (`adjustments.ts:352`).
4. The pure date arithmetic of attendance limits and of annual leave entitlement against reference
   definitions.

## 9. Running

In this directory: `tlasany M.tla` parses a module, `tlc -workers 2 -config X.cfg M` runs a
configuration with the module named in `PROJECT.json`, `tlapm M_proofs.tla` checks proofs. Each run
takes at most three minutes on two workers, each proof module about three minutes.
