# Verification of Thiện Minh Dental ECI in TLA+

ECI is a staff system for a dental chain: a NestJS backend on PostgreSQL
(`src/backend`), a Next.js management web (`src/frontend`) and a Flutter
employee app (`src/mobile`). All rules that matter are in the backend; the
clients load rows, show buttons by the permissions the backend computed, and
send requests that carry the version of the row they were shown. The backend
runs any number of requests at once; what orders them is only what they lock in
the database, so that is what the models are about.

## Inventory

| component | state | operations | what must hold |
|---|---|---|---|
| Leave approval (`leave/application`, `leave/leave.service.ts`, `leave/domain`) | `leave_requests` (status, stage, route, version, who confirmed and decided), `leave_approval_routes`, inbox messages | create, list, confirm, review, admin fallback, reroute, default route, cancel | separate people submit, confirm and decide; no decision on a stale row; completed steps and decisions are not rewritten; a pending request can always be moved, and its next reviewer knows |
| Leave balances (`leave/leave.service.ts`) | policies, balances, adjustments | initialise, adjust, change the policy; checks on create and approve | never more granted than available; no two requests for one day |
| Organization access (`organization-access`) | grants with a validity, teams, memberships | create / revoke grant, create / update team, add / end membership | who may confirm or decide at the time he does; one grant of a scope at a time |
| Employee lifecycle (`employees`) | accounts and profiles, active or not; places in the organisation | create, update, change status, reset password | a deactivated account has no session or push device, and its grants and memberships no effect; profile and account agree; past places stay |
| Attendance periods (`reporting`, with a check in every handler that writes to a month) | `attendance_periods`, open or locked | lock, reopen; `assertOpenPeriod` of the others | nothing open in a locked month, nothing written to it |
| Explanations (`attendance/application/explanation-workflow.service.ts`, `attendance/attendance.service.ts`) | `attendance_explanation_requests`, its routes, uploads and files | upload, submit with a retry id, respond, confirm, review, reroute, default route | as leave; one open explanation of a day and issue; what is attached stays |
| Attendance (`attendance/attendance.service.ts`) | events, adjustments | record, adjust, today, list | events agree with the work they stand for; no adjustment in a locked month |
| Sessions (`auth`) | `auth_sessions`, refresh token hashes | login, refresh, authenticate, logout, revoke | one session per channel or account, a refresh token is used once |
| Announcements (`announcements`) | announcements, recipients, push outcomes, device tokens | draft, publish, withdraw, read, acknowledge, deliver, retry, register device | inbox and push outcomes agree with what was published and accepted by FCM; no message is handed over for a phone left behind |
| Disciplinary actions (`disciplinary-actions`) | decisions, each with the announcements it published | draft, issue, revoke, acknowledge | the employee has the notice of a decision that is in force |
| Business trips (`business-trips`) | trips, members, their attendance events; customers | draft, assign, cancel, start, complete | status, members and events agree |
| Work schedules (`work-schedules`) | assignments of schedules to employees and departments | assign, resolve | the schedule of a past day stays |
| Admin web (`frontend`) | what a screen has loaded, what was typed, calls and dialogs in flight; the session of the tab | load, edit, save, ask, leave | the form belongs to what it is saved for; an outage sends nobody to the sign-in page |
| Mobile offline queue (`mobile/lib/services/pending_explanation_queue.dart`) | stored submissions | enqueue, send, retry, change of account | nothing lost, nothing sent as somebody else |
| Reports, KPI, operations, health, office locations, start-up, migrations | none that changes by interaction | queries, single-row writes | not modelled |

How they interact: reviewers of leave and explanations are found through
organization access; both workflows and the closing of a month meet in the rows
of `attendance_periods`; trips and check-ins write the same events; the deactivation
of an employee ends sessions and push devices and makes grants and memberships
ineffective; grants also decide who may sign in on the web and on how many
channels; disciplinary decisions publish announcements inside their transaction,
and every push follows after a commit.

What is hard: every handler is a transaction at READ COMMITTED, so whatever a
handler read without a lock may be old when it writes; permissions depend on
organisation data that changes between the steps of a request; users act on
screens loaded earlier; handlers take advisory locks, month rows and request
rows in different orders; pushes and clients repeat calls whose answer
was lost; a screen goes on while its answers are under way. `PROJECT.json`
lists these hazards at their lines.

## Modules

`ManagementAccess` holds the organisation data that decides who may do what:
grants in force, open memberships, active teams, active accounts. It is extended by
`LeaveWorkflow`, whose `OrgStep` lets any of it change between two handlers.

`LeaveWorkflow` is the approval of leave requests. `req` is the table
`leave_requests` and `route` the table of default routes; `view[u]` is the row
user `u` last loaded and `told[r]` who received the message for the current
step. Each handler is one action: it runs under the advisory lock of the employee
and the row lock of the request, and `PeriodClosing` looks at the statements
inside. A handler that throws rolls back and is a stuttering step. The
permission operators (`canConfirm`, `canReview`, `canAdminReview`,
`routingRequired`) are `workflowPermissions` term by term.

`PeriodClosing` runs the handlers that meet in the months statement by
statement: `pc` is the statement a database session is at, `op` its handler,
`months` and `rows` what it is to lock; `monthLock`, `rowLock` and `advisory`
are PostgreSQL's lock tables. Writes become visible in `Commit`; `Rollback` may
happen anywhere, `Refuse` is the throw of a failed check. `first`, `afterAdvisory`,
`afterMonths` and `afterRows` say in which order each handler takes its locks. Of a
request only its status is kept.

`PeriodGate` is what the above promises: a month is locked only when settled,
and a request changes only while its months are open. `PeriodClosing` implements it
under the mapping that a month is in `locked` when its row says LOCKED.

`AuthSessions` is sign-in and the life of a session. `sess` is the table
`auth_sessions`, `active` and `scoped` are the accounts in use and those with a
management grant in force. `call[c]` is an API call and the statement it is at:
`login` and `replaceActiveSession`; `refresh` or `request`, then `findActive`,
and `rotateRefreshToken` and `findById`, or `touch`; `revokeAndRefuse` is the
revocation a refused call ends with. The two transactions that lock the account's
row (`replaceActiveSession`, `findActive`) are one step each, and so is
`changeStatus`, which updates that row before the sessions; every other statement is
a step of its own, so anything may happen between reading a session and rotating
its token. The clients are `held`, the token each has, and `faulted`, the sessions of
the app that lost an answer; `giveUp` is a timeout or the app being closed, and
`mayRefresh` the one refresh at a time that the app shares among its requests
(tabs of a browser do not share theirs). A refresh token is its number in its
session: only equality with the current and the previous one matters. Of the
revocation reasons those that no property tells apart are OTHER. `expire` and
`idle` are the clock.

`LeaveQuota` is the balances: `clerk[c]` is a transaction of `LeaveService` with
what it read (the policy, the balance it ensured and locked, its usage), cut
between those locks and its commit. Approval, cancellation, initialisation and
changes of the policy are one step. Creation also holds the advisory lock of the employee.

`Explanations` is the workflow of explanations on the organisation of
`ManagementAccess`: `filing[c]` is a submission, an answer or an upload cut at its
commit, and an upload also at the write of its file, which no rollback
undoes. Reviewers and Admins act under the row lock, in one step.

`AccessGrants` is the table behind `ManagementAccess`: grants with a window of
time, teams that stop and come back, and `createGrant` cut between its locks
and its commit. `EmployeeLifecycle` cuts `update` and `changeStatus` at their read
and their save, which writes back every column that differs from what it read;
`home` are the places of an employee with their dates. `WorkSchedules` cuts
`assign`, which takes no lock, at its insert; the row locks of what it closed remain.

`AttendanceDay` is `record`, cut between its read and its insert, and the status
of a day. `BusinessTrips` extends it: `start` and `complete` are cut between the
lock of the trip and the commit, and write events of the same table.

`Announcements` has announcements, their recipients, the phones registered for
push against the session each employee has, and deliveries in three steps: look
the phones up, hand over to FCM, store the outcome. `handed` is what FCM accepted: acceptance of the transport
and not display, as `PUSH_ACCEPTANCE.md` (line 12) says of SENT. Two deliveries of one announcement may
overlap, a FAILED stored last replaces a SENT, and the time of sending (`pushSent`) stays. `DisciplinaryActions` extends
it with decisions, whose issue and revocation publish an announcement.

Four modules are screens of the Admin web. A handler runs up to its first
`await`; an answer, or the choice in a dialog, is a later action, after whatever
else the user did meanwhile. `EmployeesPage` has the panels of the employees page and the
rows of assignments; `TripsPage` the form of a trip with its members and that of
a customer; `RequestsWorkspace` the queue, drawer and route editor that leave and
explanations share; `AdminShell` the layout, `apiRequest` with its shared refresh,
and the sign-in page. What the Backend does with a call is left to its own
module; in these it accepts or refuses, and others change what it holds.

In `AdminShell` the arrival of a request at the Backend and of its answer in the browser are
separate steps, for calls and for the shared refresh, and either answer may be lost.
Nothing in the code ties an answer to a session, so `signIn` waits for nothing: what is
under way is marked `old` and goes on, and may redirect the user, overwrite his
cookies or end a session when it arrives. `shell.overtaken` records that this has happened since the
last sign-in, or that an access token expired under a call that a refresh had just
let through, whose second 401 is final. These are the two ways in which the code sends a
user to the sign-in page whose session goes on, and `SignInPageMeansRefused` excuses them by name.

The `MC` modules give small instances; the `.cfg` files name them. `MCWorkforce`
extends ten modules that share no state: `focus` chooses the one whose
actions are taken and the others stay at one initial value, so the run is the
disjoint sum of the ten, with explanations and the page of trips from two sides each.
`MCNotices` does the same with an inbox side and a phone side. The modules named
`...Proofs` hold the proofs. A definition with the comment "Mutant" is a
plausible error in the definition after it: put in its place, the property that
`PROJECT.json` names, or of screens the conjunct of `ScreensAgree` about that
screen, is violated.

Simplifications. Employees are identified with their accounts. In
`ManagementAccess` a grant is in force or not: creation and the arrival of its start date are one
action, as are revocation and expiry (`AccessGrants` has the dates). Departments stay active (no endpoint
changes that). In `LeaveWorkflow` the balance check on approval, wrong notes and reasons, and the
version check of a default route only refuse, and a refusal changes nothing. In
`PeriodClosing` the lock of the default-route row, the locks of balances and of
evidence uploads, foreign-key locks and the advisory lock of one submission are
left out: each is taken only under a lock that is modelled, or by one handler.
An explanation has one id for its row and the `submissionId` it came with, since each client draws
its own; a submission sent again then finds the row and writes nothing. `AdminShell` has one tab and one
account, and the access tokens that calls carry expire together with the browser's.
Texts, times of day, formats, filters and the audit log are left out everywhere.

## Runs

| run | what it asks |
|---|---|
| `leave_workflow` | type, column checks, separation of duties, two real steps behind a routed decision, no dead end, next reviewer told, and the three action properties on confirmations, decisions and stale screens |
| `period_closing` | no open request in a locked month, writes covered by held months, no circular wait, and the refinement to `PeriodGate` |
| `lock_order` | no circular wait among three sessions with requests that cross the months in opposite orders |
| `period_liveness` | every transaction ends |
| `auth_sessions` | one session per channel, one in effect without a grant, none of an inactive account; a token is exchanged once and only in a current session, the app never trips reuse detection by itself, and its session is replaced only with the right to |
| `notices` | recipients agree with what was published, a recipient counted as sent, or with a time of sending, had a message accepted by FCM for a phone of his, FCM accepts none for a phone without a live session since, a late registration takes nothing, and a decision keeps its own notice |
| `workforce` | trip status and members, events and work, balances never overdrawn, no two requests of a day, one open explanation of a matter, attached pictures kept, two people behind a decision, no overlapping grants, past schedules and places kept, and screens that agree with the Backend |
| `refresh_retry` | **violated**: a lost answer ends the app's session |
| `late_adjustment` | **violated**: an adjustment enters a locked month |
| `lock_incomplete` | **violated**: a month is locked with an incomplete day |
| `employee_race` | **violated**: a profile is active and its account locked |
| `stale_route` | **violated**: a save replaces a route its user has not seen |

Bounds. `leave_workflow`: one request (requests of different employees share
only the organisation data, and requests of one employee only the advisory
lock), an employee, a Leader, a Head and an Admin who also leads a second team
and, like the employee, may hold the grant of Head; `MaxVersion = 4` admits creation,
confirmation and two reroutes or a decision in every order; `MaxLapsed = 1`
lets one thing of the organisation be out of force at a time, each in its turn.
`period_closing`: two sessions are enough for a race of two handlers, two months for
an order of months, two leave requests whose ids order the months the other
way, one explanation; `MaxAdjustments = 1` per month. `lock_order` has a third session, for circles of three.
`auth_sessions`: two accounts, one with a global web role and one without, and
the constraint `OneAccountAtWork`, which drops the states where both have moved (no
statement touches the sessions of two accounts); two rows, enough for a channel
to be replaced or two channels to meet; two calls, for every race of two;
`MaxSecret = 2`, so one exchange per session, which both calls may attempt.
`notices`: two employees who share a phone, two announcements, one decision, three tokens for two
phones, since one is installed again, and two deliveries, so that a retry overlaps the first;
they are interchangeable and symmetric.

`workforce`, component by component. Trips: one trip, two employees, two
calls of `record`, five instants over three days. Balances: one employee, two requests, two
transactions, two years of one day, so that carry-over happens; entitlement, adjustments and
requests of one minute, the smallest amounts that overdraw. Explanations: one
matter, two rows, two calls and three pictures of two
extensions on one upload; on the reviewers' side one call, two lapses, and
three people of whom two are Admins. Grants: two rows, two concurrent calls, one team and its
department, two instants. Schedules: one employee and his department, two schedules, two
calls, three dates, two rows for each owner. Profiles: one profile with two units and two
editors over two days. Screens: two employees and two rows of assignments, one trip and one customer with a
crew of two, two calls of the shell in flight, one request and one route with two
loads under way and two versions. Two is what each of these races needs; the
theorems cover more. The run is symmetric in row ids and in transactions.

Database sessions and calls are interchangeable and symmetric, except in
the liveness run. Begin is always possible in `LeaveWorkflow`, `PeriodClosing` and `AuthSessions`, so deadlock is
checked there; in `notices`, `workforce` and the last two runs rows, clocks and
versions are bounded and the instance may run out of moves, so it is not.

Fairness. `FairSpec` of `PeriodClosing` asks strong fairness of `Execute(w)` for each session:
the server executes the next statement of a transaction it has begun, and
PostgreSQL serves the waiters of a lock in turn, so a session that can
proceed again and again does. Nothing is asked of users: `Begin` and the
spontaneous `Rollback` are unfair. The other specifications state no fairness:
their properties are about safety, and nothing in the code makes a user, a
phone or a retry act.

## Findings

`refresh_retry`: `FLOWS.md` (line 50) says that a temporary network error keeps the
session so that the user can try again. When it was the answer to a refresh that
was lost, the token has been rotated already; trying again presents the previous
token, and the session is revoked for its reuse, as line 46 asks. `NoFalseReuse`
shows the other side: without a lost answer this never happens before the session expires.

`late_adjustment`: `FLOWS.md` says "No adjustment is accepted after the month is
locked." `createAdjustment` reads the status and inserts in two statements of
no transaction, and `lockPeriod` may commit in between.

`lock_incomplete`: `FLOWS.md` says a month is locked "after incomplete check-outs
and open explanations are resolved". `lockPeriod` repeats its counts of explanations
and leave under the lock of the month, but not the count of incomplete days.

`employee_race`: `PROJECT.md` (line 47) and `FLOWS.md` (line 12) say that whoever
leaves has his profile, account and sessions locked together. `update` reads the
employee without a lock and saves the entity (`employees.service.ts:288`, `:342`); a
deactivation that commits in between is undone on the profile, and not on the account.

`stale_route`: `PROJECT.md` (line 41) asks for a version check against acting on
old data. The workspace of leave (and that of explanations) reloads its routes when the
window gains focus, while the form keeps what was filled in earlier, and
saves with the version it finds in the list at that moment
(`leave-workflow-workspace.tsx:86`).

Other differences between documents and code met while modelling, without a run:

- `FLOWS.md:233` promises a warning before unsaved changes are lost; the answer to a save also
  closes an edit of another employee or trip begun meanwhile (`employees/page.tsx:322`,
  `business-trips/page.tsx:272`), and the browser's own back button is not intercepted.
- `employees/page.tsx:215`, `:406` and `schedules/page.tsx:100`, `:118` use `event.currentTarget` after
  an `await`, when it is null: a call that succeeded is reported as an error.
- `FLOWS.md:128`: members are notified when a trip is assigned; no code does it.
- `FLOWS.md:36` says that an error of the network is no proof of a revoked session; `apiRequest`
  keeps to that, but the 401 of a call or refresh of an earlier session that is answered after a new sign-in
  still raises the event on which the layout leaves for the sign-in page (`auth-api.ts:119`, `layout.tsx:248`), a late
  refresh overwrites the new cookies, and a second 401 leaves even if the token only just expired.
- A retry of push that races the first delivery sends twice and may overwrite SENT with FAILED;
  a delivery under way still pushes an announcement withdrawn meanwhile (`IMPLEMENTATION.md:158`).
- A late "not registered" answer of FCM switches off a row registered again
  since (`firebase-announcement-push.sender.ts:143`).
- Two concurrent assignments of schedules may overlap (`work-schedules.service.ts:127`), and two
  concurrent updates of an office location may leave an OFFICE without a branch
  (`office-locations.service.ts:43`): no lock and no constraint.
- Carry-over is computed once, when the balance of a year is created (`leave.service.ts:224`); later requests
  in the old year do not change it. `FLOWS.md:149` says as much.
- An Admin may withdraw the announcement of an issued decision, although `FLOWS.md:198`
  has the notice stay.
- After check-in, check-out and a second check-in `getToday` reports CHECKED_OUT
  (`attendance.service.ts:135`).
- A request created while balance tracking of its policy is switched on stays unchecked
  against the balance; `QuotaNotOverdrawn` counts the checked ones.

## Proofs

`LeaveWorkflowProofs` proves every property of its run for any organisation, any
number of requests and any bound, from `OrgAssumption` and `LeaveAssumption` (the
constants have their types). The invariant `Inv` adds to the type what TLC's
properties leave unsaid and the steps need: `RowOK` says which stages go with which
status, route and confirmation (a request at HEAD_APPROVAL is confirmed, a
request with a route has the two different reviewers that validation demanded, ...);
`ToldOK` that the current step's reviewer was told; `ScreenOK` that a screen is never
newer than the row, and equal to it when the versions are. Each action gets a lemma that
it keeps the row well formed; the rest follows for the rows it does not touch.
The action properties come from the invariant and one action at a time: for
example `DecidedOnWhatWasSeen` needs `ScreenOK`, because the code compares only
versions.

`PeriodClosingProofs` proves type correctness, `LockedMonthSettled`,
`WritesUnderItsMonths` and the refinement, for any number of sessions, months,
requests and employees. `LockedMonthSettled` is not inductive alone: a commit may make
a request open, so one needs that at that point its months are held and
open, which in turn rests on the statements passed before. `WorkerOK` says that: what a
session at each statement has located, which advisory lock it holds, and for which
months its check still counts, because nobody else can hold them. The set that a
default route selected under the advisory lock stays the set of pending requests,
since every handler that creates one needs the same lock.
`NoLockCycle` speaks of every set of sessions, so it needs an order of all locks.
`LocksOK` says what each session holds at each statement: months it inserts in their
order, then months that had a row in theirs, then requests in theirs; only leave
handlers that cancel or reroute lock the request first, and for those no other
session can be waiting, since whoever locks leave has the advisory lock of its employee.
In a set whose members all wait for one another, the holder of the greatest lock of a
kind waits for a greater one; as the tables are finite (`PeriodAssumption`), there is
no such set.

`AuthSessionsProofs` proves every property of `auth_sessions` for any number of accounts, sessions, calls and tokens, from
`AuthAssumption`. `Known` says that a call in progress is about a row in use, of
its account and channel. A step is either `Quiet` for a row (it may end, its secrets
stay), or a sign-in (`Replaces`) or a rotation; `OneSessionPerChannel` and
`NoSessionOfInactive` are inductive over these three. `SingleAccountSession` follows
from the former: what two sessions in effect would be, `reconcile` ends.
`NoFalseReuse` needs `AppKnows`: while no answer was lost, the app has at most one refresh
of a session under way and waits for it, that call carries the current token
until it rotates it, and the app holds the current token or, only between rotation and
answer, the one before.

`WorkforceProofs` has the proofs of the smaller components and of the screens, each
for its own specification and for any values of its constants, and closes with the run
they share: in a step of `MCSpec` one of them moves by its own next-state relation and the
others stay (`OneMoves`), so `Side`, the conjunction of their invariants, is inductive,
and `ScreensAgree` and `HistoryKept` follow for `MCSpec`. As `MCSpec` also implies the
specifications of trips, balances, explanations and grants (`OneWorks`), the types proved of
each give `WorkforceTypeOK`.

- Grants: `NoOverlappingGrants`, from `AccessAssumption`. The property is about what is in force
  at an instant and is not inductive; `GrantsApart` says that no two rows clash at all. A
  request checked against the rows may commit later, so `RequestsClear` says that it still
  clashes with none of them, which holds because nobody else writes under its lock
  (`RequestsApart`).
- Schedules: `assign` decides which rows it closes and commits later. `ClosedHeld` says
  that they are still there and open at its commit, and that no other assign closes them
  (the row locks); a day before its first day is then covered by the same schedules with
  the same first days, on which alone the one followed depends (`FollowedWithin`).
- Places: the rows that end today cover the same days before today (`Ended`, `Moved`).
  Nothing read before the save matters, so types suffice.
- The page of employees: lemmas about the rows of the form, one per operation (`Added`,
  `Removed`, `Marked`, `BranchChosen`, `SentRows`).
- The page of trips: the form takes its team from what the page shows, the page from the
  Backend, the Backend from the form; `TeamsHeld` is the property of all three at once.
- The tab: `Doubt` lists what ends at the sign-in page or is there already: cookies of no
  session, a refresh of this session that is or will be refused, a call of it that will be refused for
  good. `ShellInv` says that there is never any without its excuse (`Excused`: the user left, the session or
  its access ended, or he was overtaken), so a call of this session is only refused with one, and
  a late answer of an earlier session is what `overtaken` records.
- The workspace of requests: `RoutesHeld` adds that a route being copied is copied for the
  employee in the form, which stays while the page is busy.

`BusinessTripsProofs` proves `TripStatusMatchesMembers` for any number of trips and
employees, from `DayAssumption` and `TripAssumption`. `start` and `complete` write the
status from what they read under the lock: `ReadIsCurrent` says that this still
stands at their commit, and `TripsApart` that one transaction at a time holds a trip.
The second part proves `EventsMatchWork`. `PartsWitnessed` ties each member's
state to the events of his trip, `OutsFollowIns` says that an office check-out is
always preceded by a check-in of its day, and since the status of a day looks at its latest event,
`NewestIsOne` shows that a day with events has one.

`LeaveQuotaProofs` proves `NoOverlappingLeave` for any number of employees,
requests and transactions. The overlap is looked for when a creation begins;
`DaysStayFree` says that its days are still free when it commits, for which an
employee must have one creation at a time (`CreationsApart`), the advisory lock.
The second part proves `QuotaNotOverdrawn`. What a transaction read of a balance must still
bound its usage when it commits: `HeldStands` says so of the row it holds, one
transaction holds a row (`HoldersApart`), a row nobody made has no adjustments and no
counted requests (`EmptyUntilMade`), and every row covers what counts (`Covered`). All
steps but the commits are `Gentle`: they count no request anew and touch no held row.
Usage is a fold over the finite set of requests (`IsFiniteSet(Leaves)` in
`QuotaAssumption`). That it is the sum however the fold chooses its order is
an induction over the size of the set, done by a least counterexample (`LowestNat`,
`SumsExist`, `SumsAgree`), from which `SumRemoves` and `SumGrows` follow.

`ExplanationsProofs` proves `ExplanationJudgedByTwo` and `OneOpenExplanation`
for any organisation and any number of explanations and calls, from `OrgAssumption` and
`ExplanationAssumption`. `RowSound` says of one row which people, stage and
route fit its status, and each handler gets a lemma that it keeps a row sound;
`AnswersHold` that what an answer found REQUESTED is so until it commits. For the second theorem
`OpenApart` says that no two open rows are of one matter and `SubmissionsClear` that no
open row is of the matter of a submission under way; a handler either opens
nothing (`NothingOpened`), begins a submission after looking, or commits one.
The third part proves the action property `AttachedEvidenceKept`: `RefsSafe` and
`LinksSafe` say that what a submission under way or a row refers to is an upload of its
employee with the extension it names, on disk, which nobody is storing, and
`StoresApart` that at most one store of an upload is under way at a time. The fourth adds
the types of uploads, calls and the organisation (`CallsTyped`), which completes `ExplainTypeOK`.

`DisciplinaryActionsProofs` proves every property of `notices`, for any organisation
and any number of announcements, phones, deliveries and decisions, from
`NoticeAssumption`, `RowAssumption`, `DecisionAssumption` and the organisation's. `InboxInv` is the tables
with `ReceiptsMatchNotice`. `PhonesInv` says that a phone has the registrations of its
own tokens. `PushInv` says what a delivery knows between its three steps: it is for recipients,
the phones it is about to send to had a session since the publication, and what it will
store as SENT was accepted, which no step takes back, whatever other deliveries store; `LiveIsReachable` that whoever has a session while an
announcement is out counts as such. `DecisionInv` says which announcement a decision points to,
that no other does, and what its audience is.

Only model-checked: `TransactionsEnd` (liveness under fairness) and the five violations.

## Not modelled

The mobile offline queue and the app's screens are Dart; what the app asks of the
Backend is in the modules of its services, its refresh in `AuthSessions`. Reports, KPI and
operations are functions of the rows at one moment. Office locations and lookups are
single-row writes; the race of two updates is noted above. The pages of the Admin web that load
a list and send one form (announcements, disciplinary actions, schedules,
locations, reports, access, organisation) hold no state over several calls that the
four modelled ones do not. Creation of an employee with his account, password resets
and the guard of the last Admin are left out of `EmployeeLifecycle`. Positions, geofences and
risk flags of attendance, durations of leave from a schedule, and the CHECK constraints other than those
of leave are data the properties do not tell apart. Start-up, configuration and
deployment have no behaviour of their own; of the migrations, the tables and
the rows they leave are the initial states.
