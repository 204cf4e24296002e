# agenda-pro: verification project

TLA+ models of agenda-pro, a multi-tenant booking system (NestJS API and worker,
PostgreSQL through Prisma, Redis and BullMQ, Mercado Pago for PIX deposits, Stripe
for subscriptions, a Next.js front end). Paths below are relative to `apps/api/src`
unless they start with `apps/` or `docs/`.

Contents: [the system](#the-system), [what is modelled](#what-is-modelled),
[the checks](#the-checks), [fairness](#fairness), [the proofs](#the-proofs),
[findings](#findings), [what is left out](#what-is-left-out), [plan](#plan).

## The system

The API is stateless. Several processes serve it, and one or more workers run
timers and the notification queue. All shared state is in PostgreSQL (READ
COMMITTED), Redis, Mercado Pago and Stripe. A handler is a sequence of awaited
statements, transactions and HTTP calls; anything may run between two of them.

| component | state it keeps | operations | talks to |
|---|---|---|---|
| Appointment state machine `appointments/appointment-state.ts` | none | `canTransition`, `isCancellableStatus` | read by every writer of a status |
| Public booking `booking.service.ts` | `appointments`, `clients` | `bookPublic`, `createDepositCharge` | advisory lock, exclusion constraint, waitlist, Mercado Pago, notifications, slot cache |
| Manage link `manage-appointment.service.ts` | `appointments`, `reviews` | `confirmByToken`, `cancelByToken`, `rescheduleByToken`, `reviewByToken` | lock, side effects, notifications |
| Dashboard `appointment-lifecycle.service.ts` | `appointments`, `loyalty_transactions` | `updateStatus`, listings | side effects, loyalty |
| Side effects `appointment-side-effects.service.ts`, `common/waitlist/notify-next.ts` | `notification_jobs`, `waitlist_entries` | `onCancelled`, `onRescheduled`, `notifyNextWaitlistCandidate` | called after a status or interval changed |
| PIX life cycle `payments/` | `pix_charges`, `appointments` | webhook, `confirmPaid`, `releasePendingPayment`, `markRefunded`, `runReconcileExpired` | Mercado Pago, waitlist, notifications, Redis lock |
| Availability engine `common/availability/` | none | `computeDaySlots`, `hasOverlap` | read by catalogue, booking, reschedule |
| Notifications `notifications/` | `notification_jobs`, BullMQ queue | enqueue, cancel pending, `processJob` | SMTP, WhatsApp |
| Waitlist `waitlist/` | `waitlist_entries` | `joinPublic`, list, remove | claimed by `notify-next` |
| Billing `billing/` | `subscriptions`, `tenants` | checkout, portal, cancel, Stripe webhook | Stripe; limits read by booking and team |
| Sessions `auth/`, `apps/web/src/lib/api.ts` | `refresh_tokens`, `password_reset_tokens`, cookie | login, `refresh`, logout, forgot and reset password; `tryRefresh` in the client | browser tabs race on one cookie |
| Team `team/` | `users` | create, update, deactivate | plan limits |
| Public catalogue and cache `public-catalog.service.ts`, `common/cache/` | Redis keys | cache-aside slot lists, `acquireLock` | invalidated by booking and side effects |
| Clients and segments `clients/` | `clients` | listings, notes, segment classifiers in TypeScript and in SQL | reads appointments |
| Account `account/` | all tables of the tenant | export, delete | Stripe |
| Services, settings, rules, reports, reviews, health | configuration rows | single-row edits, read-only queries | |

### Where it is hard

* *Decide, then write by id.* `confirmByToken`, `cancelByToken`, `rescheduleByToken`
  and `updateStatus` read a row, check the transition, and later write the status by
  primary key. The PIX code, by contrast, writes under a guard (`updateMany` with the
  expected status). What happens when the two kinds meet is the core of this project.
* *Two defences of the calendar.* A transaction-level advisory lock per professional
  with an overlap check that includes the buffer, and an exclusion constraint in the
  database that does not. Status writes take neither the lock nor the check.
* *A hold that must end.* A deposit appointment occupies its slot in
  `PENDING_PAYMENT`. Payment, expiry, cancellation at Mercado Pago, the customer, the
  staff, a failed charge and a process that dies half way all compete to end it.
* *External events.* Webhooks are repeated and reordered; an error in the handler is
  swallowed and answered `ok`.
* *Follow-up after commit.* Notifications and waitlist calls happen after the
  transaction they follow, unguarded.

### What makes each component correct

* Calendar: active appointments of a professional never overlap, keep the buffer, and
  the month's total stays within the plan.
* Deposit: no payment, no scheduled appointment; a paid appointment is never released
  as unpaid; an unpaid one never keeps its slot for ever; one payment is confirmed once.
* Transitions: terminal statuses are final.
* Waitlist: oldest first, one customer per opening, nobody called after having booked.
* Notifications: a retry never repeats a message, no reminder goes out for a time that
  is not the appointment's any more, every active appointment keeps its reminders, and
  the backlog drains.
* Sessions: of concurrent refreshes with one token one succeeds; a client with a live
  session stays signed in; a reset ends what is open; every call ends.
* Billing: the plan of the tenant, of its subscription and at Stripe agree once the
  events are answered; nobody on the free plan is charged.
* Team: the number of active members stays within the plan, or passes it by a known few.
* Engine: the starts offered are exactly those of the grid that fit.
* Cache: an entry is stale only if its reader overlapped an edit, and not for long.
* Booking page: the times shown and sent belong to the choice on screen; a customer
  books once, and the last page tells the truth.
* Desk and manage link: what a page shows at rest is what is stored, for the filter and
  the client on screen; no page stays busy.

`PROJECT.json` lists the hazards at their lines, with the properties that cover them
or the reason why none does.

## What is modelled

| module | what it is |
|---|---|
| `AppointmentState` | statuses and the transition table (constant operators) |
| `Intervals` | the engine's overlap test (constant operators) |
| `SlotCalendar` | abstract specification: a calendar of non-overlapping entries |
| `Appointments` | booking, manage link, dashboard, PIX life cycle, side effects |
| `Notifications` | the outbox: rows, queue, handlers that write it, workers that send |
| `Sessions` | refresh tokens, reset links, the cookies of a browser, `api()` in two tabs |
| `Tenants` | plan, subscription, Stripe and its events, team, account deletion |
| `SlotEngine` | `computeDaySlots` and `computeSlotsFor`, and what they promise (constant operators) |
| `SlotCache` | the cached catalogue and the edits of the shop, over `SlotEngine` |
| `BookingPage` | the public booking page over `SlotCache` |
| `DeskServer` | the answers of the API to the pages below |
| `ManagePage`, `AgendaPage`, `ClientsPage`, `SettingsPage`, `ReportsPage` | one page each (the reviews with the agenda), over `DeskServer` |
| `Desk` | the five pages over one server |
| `MC...` | instances for TLC |
| `AppointmentsProofs` | types of `Appointments`, and how handlers step |
| `CalendarProofs` | refinement of `SlotCalendar`; the buffer; the waitlist's turn; the monthly limit |
| `PixProofs` | the deposit is never bypassed; payments, charges, thanks and releases |
| `NotificationsProofs` | types; no message repeated by a retry; reminders right, and none missing |
| `SessionsProofs` | refresh tokens, resets, and what the browser holds |
| `TenantsProofs` | types, team, plans and charges |
| `StorefrontProofs` | the engine, the cache and the booking page |
| `DeskInvariants`, `DeskProofs` | the inductive invariants of the pages; what the desk and the manage link show and send |

`Appointments` extends the two vocabulary modules and instantiates `SlotCalendar` with
the refinement mapping `Held`: an appointment holds its professional and interval
while its status is active, and nothing otherwise. `BookingPage` composes the page, the
cache, the database and Redis; `Desk` composes five pages with one database, so that a
customer on a manage link and the staff at the agenda change the same row.

The races of the agenda's writers with locks, payments and follow-ups are the subject of
`Appointments`. `BookingPage` serves a booking in one step and asks what the page makes of
the answer. `DeskServer` keeps the two halves of every writer of an appointment, the read
that decides and the write by id, since what the pages and the report show depends on it.

### Appointments: state and actions

A variable per table column the handlers read or write (`status`, `slot`, `pro`,
`charge`, `wait`, `credited`), the advisory locks (`lock`), the pending booking
confirmations (`mail`), and what Mercado Pago would answer (`payment`). `due` is the
set of appointments for which the two time conditions of the reconciliation
(`expiresAt` in the past, created 30 minutes ago) hold; the code makes both true at
nearly the same time, and one flag stands for both.

`req[r]` is the handler process `r` is running: `pc`, the row it works on, the status
it read (`seen`), the status it decided to write (`to`). It is the handler's local
variables, which is where stale reads live.

One action is one atomic piece of a handler:

* the reads before a decision are one action (`...Read`): the row, the transition
  check and the offered slots. A read whose check throws changes nothing and is not a
  step. A handler that goes on keeps what it read.
* a transaction under the advisory lock is two actions, the check (`...Check`) which
  takes the lock and the write (`...Insert`, `...Write`) which commits and frees it,
  because under READ COMMITTED other transactions do run between its statements.
* a transaction of one or more *guarded* updates is one action (`ConfirmPaid`,
  `ReleaseTx`): row locks keep its parts together for the rows it matches.
* everything after a commit (`Announce`, `CancelPendingJobs`, `FindCandidate`,
  `ClaimCandidate`, `Thank`) is a further action.
* `createDepositCharge` is `CreatePixCharge`, `StillPending`, `InsertCharge`; any
  error on the way (`ChargeError`) leads to `RefuseDeposit`.
* `DbRejects` is the exclusion constraint refusing a write. `Fail` is a handler that
  dies between two steps, bounded by `MaxFailures`; its open transaction is rolled
  back and its locks freed.
* `Sweep` starts the release of one id the reconciliation selected. The code releases
  its list one id after the other and re-reads each one; a sweep of several ids is
  several `Sweep`s. One process sweeps at a time (a Redis lock with a lifetime of 55 s
  against a period of 60 s); a webhook's release of the same appointment runs beside
  it with the same steps.

Every row is created by the public booking, so the calendar starts empty. Two helper
facts of the code are worth knowing when reading the model: a booking handler with a
deposit does not announce (the webhook does), and `flag` tells a reschedule's side
effects from a cancellation's.

The history variables are read by no action: `deposit` (created `PENDING_PAYMENT`),
`unchecked` (made active again by a write that looks at no agenda), `thanked`,
`offered` and `freed`.

### Appointments: abstractions

* One tenant, one date, one month. Intervals are records of two numbers; `Slots` is
  what the availability rules allow, all of it offered unless an appointment blocks it.
* Permissions, booking window, `cancelMinHours`, prices, message texts, the Redis
  caches (see `SlotCache`), and the signature, reference and amount checks of the webhook are left out:
  they only refuse, or change nothing the properties see.
* Only `BOOKING_CONFIRMATION` jobs are tracked, as pending or not; the rest of the
  outbox is `Notifications`.
* The two queries of a booking's check (the month's count, the busy intervals) are one
  step, and loyalty is enabled with a positive number of points, so the first
  completion credits.
* A customer pays only a charge that was stored (they see the code in the booking's
  answer) and before the payment lapses. A manage link exists for the customer once
  the booking has answered.
* `Appt` bounds the rows ever created. A booking that finds all rows used waits in
  `insert`; in the instances the monthly limit or the number of slots is reached first,
  or the run is about one row.

### Notifications

A row of `notification_jobs` is `row[j]`, BullMQ's entry for it `queue[j]`. A handler
(`req`) writes the appointment, invalidates what was pending, reads the appointment
once more and creates its rows one after the other; a worker (`wk`) is `processJob`:
`ReadRow`, `PreCheck`, `Claim`, `ReadLatest`, `ReCheck`, the send, `Complete`, or
`FailRow` in the catch block. Each is one statement or one call, and anything may run
between two. The claim is a write by id, which may take back a row that was invalidated
since it was read: the model keeps that, and `RemindersAreCurrent` is what is true all
the same. BullMQ is external: it delays an entry, gives it to one worker, retries a
failed one, and gives out once more an entry whose worker stalled (`LockLost`, which
leaves the first worker running, or `WorkerDies`). The appointment is its status and its
start; `Leads` are the lead times of the reminders. Messages without an appointment
(waitlist, password reset) are one kind.

### Sessions

`call[k]` is an execution of `api()` with all it leads to: the request, the server's
statements, the answer, the refresh on 401, the retry on a CSRF 403. The cookie jar is
shared by the tabs; `memory` is the CSRF token a tab remembers. Cookies change when an
answer arrives, which is when another tab's request may already have left with the
former ones. `refresh()` is three steps because its transaction reads, revokes under a
guard and inserts; `holder` is the row lock between the last two. A refused token rolls
back the statement that would end the user's other sessions (`auth.service.ts:173`), so
`RefreshRead` changes nothing then. `ResetRead` is outside the transaction, `ResetKick`
the snapshot of its last statement. A refresh that wrote its row before `ResetKick` reached it makes the
reset wait, commits, and its successor was not there when the reset's statement took its
snapshot: `ResetKick` cannot see it, as PostgreSQL cannot. In an instance with `legible` the
tab reads the CSRF cookie itself (`getCachedCsrfToken`: the API on the same site), in the others
it must ask `/auth/csrf`; a write refused for its token that cannot have a new one throws.
History variables: `parent`, `early` (what was open at the statement of a committed reset),
`crossed` (the successors just described).

### Tenants

The rows `tenant` and `sub` are written by separate statements, each a step. `stripe`
is what Stripe knows and `events` what it has not been told was received: an event may
be delivered again while it is being handled, in any order unless the instance says
`ordered`. The plan's limits are named by the plan they come from (`sub.limit`), so that
a limit that outlives its plan is visible. Stripe's statuses reach the row as
`mapStripeSubscriptionStatus` maps them; a paused subscription is `INCOMPLETE`. Team members are
counted in one step and written in another. History variables: `held` (the plans the tenant
has had), `revived` (members made active again, of whom no plan is asked).

### The storefront

`SlotEngine` works on units of which a day has `DAY`; a zone is one offset. `Fits` says
of one start what the engine should offer, without grids or windows, and `SlotsFit`
compares the two on every shop the edits lead to. `SlotCache` gives every Redis command
and every database read a step; a failed command opens the circuit, and while it is
open commands are skipped. An edit commits and then deletes: the profile's key, then a
SCAN, then the DEL of what it found. `old` (history) marks a handler that has read rows
which an edit has changed since, and the entry it writes.

In `BookingPage` a click and the effect of the render it causes are one step (`Render`);
an answer is taken by `LoadReply`, `SlotsReply` or `SubmitReply`, or by `Ignored` if its
request was cancelled. `of` and `slotOf` (history) are the choices that the list and the
time were taken for.

### The desk

`calls` holds the requests of all pages: sent, read (a writer of an appointment has found
its write admissible), served (or written, for the settings, which are read again for the
answer), done, taken. The write that follows a read is by id, whatever the row holds by then,
subject only to the constraint of the database (`ById`, `DbAccepts`). `isFree` is the slot
computation, in which the appointment to be moved counts as any other
(`manage-appointment.service.ts:186`); the check under the lock, which leaves it out, stands
with the constraint in `rescheduleWrite`. Unless `limits.reorder`, the requests
of one page are served and answered in order; a browser does not promise that, so the
properties that need it say so. A page is one record, named as its `useState` variables;
a handler after an `await` uses what the closure of its click captured (`then`), as
React does. Answers are lost by `Lose` and `LoseAnswer`. `World` is another member of
the staff, another customer, the clock; what the first two have decided (`decided`) is
written later too. A finished visit may thus be overwritten, as finding 1 says; `undone`
(history) marks it. On the manage page, an emptied date field (`NoTime`) loads nothing and
leaves the former times and the one picked in place (`page.tsx:194-196`); `hurried` (history)
says that the date was chosen while times or a move were on their way.

## The checks

`tlc -config X.cfg` with the module of the run: `MCAppointments` for the first seven,
then `MCNotifications`, `MCSessions`, `MCTenants`, `MCStorefront`, `MCDesk`. Sizes are
distinct states.

| run | instance | what it shows |
|---|---|---|
| `agenda` (273 k) | 3 rows, 3 adjacent slots, buffer 1, limit 2, 2 waiting customers, 2 handlers; book, confirm, cancel, move | `BufferKept`, `WithinMonthlyLimit`, `CalledInTurn`, and the refinement `CalendarSpec` |
| `pix` (1.5 M) | 1 deposit row, 2 slots far apart, 2 handlers and the sweeper, 1 death; book, move, staff, webhook, sweep | `TypeOK`, `DepositNeverBypassed`, `PaidMeansApproved`, `ThankedOncePaid` |
| `holds` (26 k) | 1 deposit row, fairness, 2 deaths; book, confirm, cancel, webhook, sweep | `HoldEnds`, `ChargeEnds` (liveness), `PaidNeverReleased` |
| `messages` (639 k) | 1 appointment, 2 starts, 5 rows, 2 handlers, 2 workers, 1 lead time, 2 tries, 1 fault; 1 row with 3 | `OneCopyPerWorker`, `RemindersAreCurrent`, `ActiveIsReminded`, `BacklogDrains` (liveness) |
| `sessions` (461 k) | 1 or 2 tabs, legible cookie or not, 2 calls together, up to 5 in all, 6 tokens, 2 reset links, 2 faults | `OneSuccessor`, `ResetStopsRenewal`, `BrowserInStep`, `CallsEnd` (liveness) |
| `tenants` (405 k) | 2 subscriptions, 3 plans, 3 users, 1 or 2 handlers, up to 6 requests, 2 faults | `PlansAgree`, `ChargedForPlan`, `TeamWithinPlans`, `CancellationReaches` (liveness) |
| `storefront` (264 k) | 2 handlers, 2 services, 2 professionals, 2 days of 12 units; up to 3 edits or visits, 6 clicks, 1 fault | `SlotsFit`, `InvalidationSuffices`, `TimesAreOfChoice`, `BookedAsShown`, `CacheCatchesUp` (liveness) |
| `desk` (653 k) | 2 appointments, 2 clients, 2 users, pages of one row, up to 6 clicks, 3 changes elsewhere, 2 faults | `ActsOnWhatIsShown`, `ListsAreOfFilters`, `ShownIsStored`, `NotesStayWithClient`, `SegmentsAgree`, `ReportWithinBounds`, `BusyAwaits`, `PagesSettle` (liveness) |
| `terminal_final` | 1 row; book, confirm, cancel, staff | *violated*: `TerminalIsFinal` |
| `limit_two_pros` | 2 professionals, limit 1 | *violated*: `WithinMonthlyLimit` |
| `one_offer` | 1 row, 2 waiting customers | *violated*: `OneOfferPerOpening` |
| `hold_moved` | `holds` with move instead of confirm and cancel | *violated*: `HoldEnds` |

Each module has one type invariant `TypeOK`, which a run of it checks; that of `Desk` is
left to its proof (`DeskTypes`).

**Why the bounds are enough.** In `agenda` the middle slot touches both others, so a
buffer of one makes it conflict with each without overlapping: the buffer check and
the constraint disagree, which is the interesting case. Three rows allow an
appointment to be cancelled, its slot to be sold, and the cancelled one to be revived;
the limit of two is reached with a row to spare, since cancelled appointments count.
Two handlers are enough for every hazard found, which are all races of two; the
sweeper is a third in `pix` and `holds`. One deposit row suffices for the PIX
properties because they relate a row only to its own charge and handlers; slots that
do not conflict let it move. `MaxFailures` lets a handler die at any of its steps: once in
`pix`, twice in `holds`, where a second sweep may die as the first did.
`WithinMonthlyLimit` holds in `agenda` with one professional and fails in
`limit_two_pros` with two: the lock is what makes it hold.

The later modules take their bounds from a record `limits` that `Init` chooses from the
constant `Limits`: one run explores several small instances, each built around one
question, instead of one large product of all of them.

* `messages`: two moves that race with a worker need five rows (the first reminder, and
  two of each move); a fault with two workers is what makes an entry be given out again;
  two tries are enough for a retry after a failure. With more failures the code does
  repeat messages and leave rows `PROCESSING` (below), so `OneCopyPerWorker` and
  `BacklogDrains` speak of at most one; the instance with three reaches what follows two
  stalls, for the types.
* `sessions`: a token that two calls present needs two calls; five calls in a row let
  each tab renew, be refused for its CSRF token and recover; a fault is a lost request or
  answer at any step, twice with one tab and once with two.
* `tenants`: two subscriptions are an upgrade or a second purchase after a cancellation;
  a plan that admits two members among three users lets the limit be reached and passed.
  Two faults are Stripe out of reach and a death; together they break `PlansAgree` in a
  deletion, and it is stated for one. Three of the instances with two handlers repeat and
  reorder events or let a handler die between the rows, which is what `CancellationReaches`
  is about: it asks only that the purchase was answered before its end is handled. An end that
  overtakes the purchase finds no row of its subscription and is lost.
* `storefront`: a day of twelve units with windows at both ends, a zone on either side
  of UTC and appointments that fall on another day there; two weekdays, so that the rule
  of the wrong one shows. Two handlers are a fill and an edit that overlap.
* `desk`: each page has an instance with enough clicks for two of its actions to be on
  their way together and for the user to change what they were about; a page of one row
  makes two pages of two; the instance for segments lets the clock pass every threshold, and
  its three changes elsewhere are enough for a visit to be completed, and then cancelled, moved
  or marked as missed by a handler that had read it before, between two queries of a report.

Deadlock is not checked: the program is an open system that is at rest when no
customer, notification or timer has anything to do.

**Symmetry** over handlers and rows is used in the runs without fairness. No property
tells handlers or rows apart. Waiting customers are numbers, because their order
matters, and are not symmetric.

Each property of a passing run has a mutant in `PROJECT.json`: the change to one
definition, kept beside it in the module, under which TLC refutes that property.

## Fairness

* `Appointments.FairSpec` assumes three things. `WF(Sweep)` and `WF(Step(Sweeper))`: the
  worker's `setInterval` of 60 s (`payments/pix-lifecycle.service.ts:41-55`) fires as long
  as a worker runs, and each run goes through its list; an error is caught and logged.
  `WF(TimePasses(a))`: the clock reaches `expiresAt`. Nothing is assumed of customers,
  staff, Mercado Pago or of HTTP handlers, which may stop for ever at any step; only the
  sweep makes `HoldEnds` and `ChargeEnds` true. In `holds` a death of the sweeper's
  current release is allowed as well. The sweep's list is taken as fair to each overdue
  id: with one deposit row in the runs this is weak fairness of a single candidate; with
  more than 100 overdue rows of which the first always fails the code would not be fair,
  and the model does not claim it is.
* `Notifications.FairSpec`: the clock goes on, and so does each worker that was given an
  entry (BullMQ's loop). Handlers need not. A fault is bounded by the instance, which is
  the assumption that providers and Redis do not fail for ever; `BacklogDrains` then holds
  because a failed row counts as settled. It is stated for at most one failure: two
  workers that die with one entry leave its row `PROCESSING`, and the queue has given up.
* `Sessions.FairSpec`: a call that has begun is answered, or fails by a fault. Nobody has
  to begin one. `CallsEnd` says that the retries after 401 and 403 do not chase each other.
* `Tenants.FairSpec`: a handler that has begun goes on (weak), and Stripe sends its oldest
  unanswered event again and again (strong: whenever a handler is free again and again).
* `BookingPage.FairSpec`: each handler of the API and each answer to the page proceeds;
  entries expire (Redis' EX); the circuit's cooldown ends; Redis comes back. Customers,
  visitors and staff are free.
* `Desk.FairSpec`: weak fairness of the system as a whole (an answer, a served request,
  the debounce timer, a query): clicks and faults are bounded by the instance, so the
  system cannot be overtaken for ever, and individual fairness is not needed.

## The proofs

`tlapm` checks the eight proof modules; the theorems a reader should know of are listed
in `PROJECT.json`. They hold for all values of the constants that satisfy the named
assumptions of the module they are about, which TLC evaluates on every run:

* `Appointments`: slots are intervals of naturals, there is a professional and a slot, the
  waitlist is numbered, the special values are not members of the sets they stand beside;
* `Notifications`: rows are numbered; there are finitely many appointments and lead times,
  times are naturals, and an entry has at least one try;
* `Sessions`: there is a token, and the initial values are not members;
* `Tenants`: handlers are finitely many, subscriptions too and numbered as Stripe hands them out,
  the owner is a user, the instances are records of what they may contain;
* `SlotEngine`, `SlotCache`, `BookingPage`: a day has an even number of units; the owner is
  a professional; there are finitely many professionals and exceptions; windows, durations,
  buffers and steps are what the DTOs accept (`Shops`); the keys of an instance are those
  that its page can ask for;
* `DeskServer`: there are finitely many appointments, clients and users, the thresholds of the
  segments are naturals in their order, and an instance (`Limits`) starts from tables of
  what their columns hold, each card with its own client's notes.

Where a theorem needs more, it is a hypothesis of its statement.

**Appointments**

* **`TypeCorrect`**: `Spec => []TypeOK`. `TypeOK` is not inductive, since a handler
  writes `status[req[r].a]`. `Sound` adds `InFlight` (a handler at a step that uses a
  row, a candidate or a target status carries one, and the row exists) and `RowFirst`
  (no payment, charge or deposit without a row; it is what makes a webhook or a sweep
  start on an existing row). One lemma per group of handlers.
* **`TableImplementsCalendar`**: `Spec => CalendarSpec`. By `CalendarStep` only three
  kinds of steps touch the calendar: a status written by id, an insert, a move. Each is
  accepted by the constraint (`DbAccepts`), so each maps to `Occupy` or `Vacate`
  (`PlaceStep`). The proof uses no lock and no check: the constraint alone is enough.
* **`NoOverlap`**: the abstract calendar never has two overlapping entries, carried
  over through the refinement.
* **`BufferIsKept`**: `Spec => []BufferKept`. Here the lock is needed. `AgendaInv` adds
  `Locked` (a handler between its check and its write holds the professional's lock),
  `MovesOwn` (a reschedule keeps its professional) and `Cleared` (the interval the
  check accepted is still clear of every appointment that no unchecked write revived).
  A write then places a cleared interval, and cannot spoil what another handler has
  cleared because that one would hold another lock (`PlacedClear`).
* **`WaitlistInTurn`**: `Spec => CalledInTurn`. `ChosenInTurn` says that who a handler has
  chosen and not yet claimed was, at the read, the oldest of those still waiting; who has
  left the waitlist does not come back, so the choice is still in turn when it is claimed.
* **`LimitOvershoot`**, **`LimitOfOne`**: with finitely many professionals the month exceeds
  its limit by at most one row for each professional but one, and with one professional not
  at all (`WithinMonthlyLimit`). `LimitInv` counts the rows and the bookings about to be
  inserted (`Inserting`): the lock is per professional, so there is at most one of these for
  each, while the count is of the tenant. So what `limit_two_pros` finds is also the worst.
* **`DepositNotBypassed`**: `Spec => []DepositNeverBypassed`. The strengthening is
  `DecidedPaid`: a handler that is about to write a status that needs the payment has a
  paid charge. It holds at the read by the transition table (`DecisionPaid`) and stays,
  because a paid charge never becomes unpaid (`SettledStays`). So the writes by id,
  which break `TerminalIsFinal`, do not break this.
* **`PaidIsApproved`**, **`ThankedOnceForAPayment`**, **`ConfirmedIsKept`**: no charge is paid
  without an approved payment, a payment is thanked for once, and what is scheduled or
  confirmed is never released as unpaid. `PixInv` adds `Carries` and `Knows` (what a handler
  at a step may rely on in the tables, and what it may have decided), `Alone` (only the
  booking that created a row creates its charge, only one webhook thanks for it) and
  `Charges` (charges belong to deposits, thanks to paid charges).
* **`PaidIsKept`**: where neither reschedules nor the dashboard write statuses, no paid row is
  released (`PaidNeverReleased`). The hypothesis `NoRewrites` is needed: both write a status
  decided before the payment, which puts a paid row back to `PENDING_PAYMENT` (finding 4),
  where a release may find it. `HoldInv` says that without them no paid row is a hold.

**Notifications**

* **`NoRepeatedMessage`**: `Spec => []OneCopyPerWorker`. `QueueInv` says
  who may run an entry (`Owning`: one owner, for whom the entry is active, and workers that
  stalled with it, one per stall), what failures have been spent (`Paying`: each stall is
  one, and a worker in the catch block one more), and what may still be sent (`Sending`:
  once the one copy is out, nobody else runs the entry unless its row is settled; after a
  stall, the stalled worker and the owner have one copy each). Most steps concern one entry
  only, which `Assemble` turns into the invariant of all.
* **`NotificationTypes`**: `Spec => []TypeOK`. Tries and stalls stay in their range because
  an entry that is given out has some left (`Bounded`) and only its owner spends them; a
  handler that will write or read an appointment has one, and so has every reminder
  (`Carries`, `Proper`).
* **`RemindersWereRight`**: `Spec => RemindersAreCurrent`. `Stands` says of each worker with a
  claimed reminder that, if the reminder is right now, it was so at some instant since the
  claim, and that what it is about to send was. It holds through every write to an appointment,
  by whatever handler, because the second check comes after the claim.
* **`ActiveKeepReminders`**: `Spec => []ActiveIsReminded`. The property speaks of the moments
  between handlers. On the way there, each reminder still ahead is `Cared` for: a handler that
  invalidates or has yet to read the appointment will create it (`Renewing`), one that has read
  it carries it (`InTodo`), or its row waits in the queue or is about to (`Alive`). Two moves
  at once may invalidate each other's rows, but who invalidates reads the appointment after it,
  and what it reads is what it renews. No worker interferes, as workers only have rows that are
  due (`InTime`), and who cancels has said so before it writes (`Meant`). The order in which the
  rows of one appointment are created does not matter to the proof.

**Sessions**

* **`SessionTypes`, `AtMostOneSuccessor`, `NoRenewalAfterReset`**: `Spec => []TypeOK`,
  `Spec => []OneSuccessor`, `Spec => []ResetStopsRenewal`. The invariant
  `SessionInv` adds to the types that a call which is past presenting its refresh token
  carries one (`Carries`), that between its guarded update and its commit it holds the row
  lock and the committed token is still live (`Rotating`), that a token with a successor,
  or one a reset ended, is revoked (`Spent`), and that a successor of a token which a running
  reset has in its snapshot is of a refresh that crossed it (`Kicking`). So of two calls that
  both read a token as live, the second waits for the first and then finds it revoked; and a
  reset leaves no call that could still renew what it ended. What it does not end is stated in
  the property: the successor written by a refresh that held the row while the reset waited.
* **`BrowserStaysInStep`**: `Spec => []BrowserInStep`. For one call at a time without faults,
  `InStep` says at each of its steps what the call of an active user can rely on (`Aware`),
  that the jar's refresh token is live but for the time its successor travels (`Kept`), and
  that where nobody signs in again no other token is live (`Owned`).

**Tenants**

* **`TenantTypes`**: `Spec => []TypeOK`, with `Aimed`: a call to Stripe is about a
  subscription.
* **`TeamFits`**: `Spec => []TeamWithinPlans`, for any number of handlers. `TeamInv` counts the
  members not made active again (`Grown`) together with the creations that have counted and
  not inserted (`Joining`): each was within the limit when it counted, and no more of them
  can do so together than there are handlers (`Together`).
* **`RowsAgree`**: `Spec => []PlansAgree`. For serial instances with ordered events
  (`BooksInv`), `QueueInv` says that a handler of an event has the oldest one before it and
  that the queue tells of every end still to be learnt; `RowsInv`, until a second failure,
  that the rows agree with Stripe or that somebody is on the way to make them: a handler at
  work (`Ready`), or an event in the queue (`Healing`). The second failure is what
  `PlansAgree` excepts.
* **`PlanIsCharged`**: `Spec => []ChargedForPlan`, from the same and from at most one paid
  subscription at a time, for instances without failures and without the upgrade that
  opens a second.

**Storefront**

* **`StartsThatFit`**: `Spec => []SlotsFit`, given `WithinHalfDay`: what `computeDaySlots`
  offers is what `Fits` accepts, start by start, in every shop that any edits lead to, for
  every order in which the database may return the exceptions. The lemmas `DayFits` and
  `EngineFits` are about the operators alone. The hypothesis is that zone and buffer
  together are at most half a day, because the appointments are read from a UTC day widened
  by half a day on each side (`appointment-availability.service.ts:36`). Without it the
  statement is false; see "Findings".
* **`StorefrontTypes`**, **`TimesOfTheChoice`**, **`BookedOnce`**: `TypeOK`, `TimesAreOfChoice`
  and `BookedAsShown` always hold. One invariant, `Inv`: the store is well formed (`StoreOK`:
  each entry is an answer to its key, each handler has read what its step needs); the page
  shows and awaits what was chosen (`PageOK`: an answer that is not to the choice on screen
  has been cancelled, so that no handler awaited by the page is about another choice); and
  the customer's rows are those of the accepted submission (`BookedOK`).
* **`EditsSuffice`**: `Spec => []InvalidationSuffices`. `Coherent` is the whole argument why
  deleting after the commit is enough: while Redis answers, an entry whose reader no edit
  overtook is fresh, or a handler that has committed an edit is on its way to delete it
  (`Deletes`); a SCAN finds every key written before it, and what is written later is either
  read after the commit or marked as overtaken.

**The desk**

* **`DeskTypes`**: `Spec => []TypeOK`. `Types` gives every page its type and every request in
  `calls` what its handler will use: what it carries, by its kind (`CarriesOf`), and what its
  answer brings (`BringsOf`).
* **`SegmentsAlwaysAgree`**: `Spec => []SegmentsAgree`, from the types alone: the classifier of
  the list and the `CASE` of the filter agree for every history of visits and every clock.
* **`ActsAsShown`**, **`NotesStayTheirs`**, **`ListsFollowFilters`**, **`RestShowsTheStored`**:
  `ActsOnWhatIsShown`, `NotesStayWithClient`, `ListsAreOfFilters` and `ShownIsStored` always
  hold, for any number of requests in flight. Each page has an invariant about its own requests
  (`ManageInv`, `AgendaInv`, `ReviewInv`, `ClientsInv`, `SettingsInv`), although all pages share
  one sequence `calls`, in which an answer taken shifts the places of the others. `Follows` says
  what a step does to one page's requests: some are gone, the rest keep their order, one is
  added at the end. By `Frame` a step is, for a page, its own, an answer of the server to one
  of its requests (or its loss), or leaves it alone; each page has a lemma for each of the
  three. What its invariant says:
  * manage link: one request of a button at a time (`OneMain`); unless the field is empty or
    the date was chosen in haste (`AsShown`), every list of times on its way is of the date
    shown, and so is the one picked (`DateShown`); and the time is known to the page or to a
    load on its way (`TimeKnown`);
  * agenda: while no filter crossed a change, all requests are of the filter shown
    (`QueriesAgree`); a load is as new as every change that was answered, or will be answered,
    before it (`RowsAreNew`);
  * reviews: a review that no toggle in flight has turned over is shown as stored
    (`PublishedAsShown`);
  * clients: the last list on its way is of the filters shown (`LastIsAsked`); while cards are
    not mixed, what each request carries is of its client (`RecordsApart`); consents are saved
    one by one, and a card that disagrees with the row has a consent on its way
    (`OneConsent`, `ConsentKnown`);
  * settings: a form not typed into that differs from its row has a save on its way, later
    than any answer that says otherwise (`FormsKnown`).

  The last three rest on answers in order (`InOrder`): what was served follows what was
  answered.
* **`ReportsStayWithin`**: `Spec => []ReportWithinBounds`. The figures of a report come from
  separate queries, between which the agenda goes on. A visit that is over is changed only by a
  write decided before it was, and then counts as `undone` (`RowsStand`); so each figure read so far
  counts, or adds up, a set of visits between those completed at the beginning and those completed
  now, give or take the undone ones (`Counted`). What remains is arithmetic about sums: a sum over a larger set is no smaller (`SumGrows`), and the parts of the
  professionals add up to the whole (`SumOfClasses`). `Spent` is `MapThenSumSet`, a recursive
  function on the subsets of a finite set; that such a function exists and is unique is shown by
  induction on those subsets. The library's induction theorems take an operator as a parameter;
  `SubsetsAll` states the principle about a set of subsets instead, and follows from the
  well-foundedness of strict inclusion.
* **`BusyPagesAwait`**: `Spec => []BusyAwaits`, the safety half of `PagesSettle`: a page can
  only hang on a request that is still in `calls`, and fairness answers those. `Waits` says of
  each page what its own requests must hold for its spinners and buttons. `Remain` is what a step
  leaves of them: whatever is not taken is still there as it was sent, served or lost included,
  and by `OtherRemain` a step of another page or of the server takes nothing. For the manage link
  it needs `OneMain`: the button an answer leaves busy for the reload that follows is its own.

Only model-checked are the liveness properties `HoldEnds`, `ChargeEnds`, `BacklogDrains`,
`CallsEnd`, `CancellationReaches`, `CacheCatchesUp` and `PagesSettle`: fairness and `ENABLED`
are outside the prover. Every other property of a passing run is a theorem.

## Findings

Each is a run that TLC refutes, and an entry of `PROJECT.json` with the line it
contradicts.

1. `terminal_final`. A confirmation decided before a cancellation is written after it:
   `CANCELLED` becomes `CONFIRMED`, against the state machine's test. The revived row
   enters the agenda without a check, which is why `BufferKept` excepts `unchecked`
   rows; the exclusion constraint still prevents an outright double booking.
2. `limit_two_pros`. The monthly count is per tenant, its lock per professional.
3. `one_offer`. Two concurrent cancellations of one appointment call two customers.
4. `hold_moved`. A reschedule of an unpaid hold that races with the payment writes
   `PENDING_PAYMENT` back over `CONFIRMED`. The charge is `PAID`, so no sweep selects the
   row again. This is why `holds` has no reschedule.

`ThankedOncePaid` names a further behaviour that no line of the repository forbids:
rescheduling an unpaid hold enqueues a booking confirmation.

Some behaviours no run refutes, because a property names them as its exception or no
line of the repository speaks of them. The most consequential contradicts a comment. The reset
of a password is to throw everybody out ("quem trocou a senha derruba todo mundo",
`auth/auth.service.ts:309`); a refresh that holds its row while the reset's `updateMany` waits for
it commits a successor that this statement does not see, and whoever has it stays signed in and
can renew for as long as they like. `ResetStopsRenewal` and `NoRenewalAfterReset` say that these
successors (`crossed`) are the only ones. Further: the revocation of all sessions on reuse of a token is rolled back by its
own exception (`auth/auth.service.ts:173`, modelled in `RefreshRead`); a checkout for
a further plan leaves the former Stripe subscription charging (`billing.service.ts:200`,
the exception of `ChargedForPlan`); team members created at once may exceed the plan, by no more
than `TeamWithinPlans` says (`team.service.ts:46`); the end of a subscription that overtakes its
purchase is lost, and the tenant keeps the paid plan (`billing.service.ts:317`, why
`CancellationReaches` starts once the purchase was answered); on the manage page, an emptied date
field, or a date chosen while other times are loading, lets a customer send a time of a date that
the form does not show (`apps/web/src/app/agendamento/[token]/page.tsx:194`, the two exceptions of
`ActsOnWhatIsShown`); a visit completed while another handler holds a former read of it may turn
into a missed or cancelled one, so that a report loses or repeats it (`ReportWithinBounds`, `undone`;
the cause is finding 1); a late
answer on the clients page (`apps/web/src/app/dashboard/clients/page.tsx:126`) may put one
client's card under another's name (the exception of `NotesStayWithClient`); a form whose save was
stored but whose answer was lost is shown with its former value when another form's answer,
read before it, was applied (`settings/page.tsx:57`, why `ShownIsStored` asks that none is
lost); a message is
sent twice when, after it, neither `COMPLETED` nor `FAILED` can be written
(`notifications.service.ts:481`, the exception of `OneCopyPerWorker`). One more came out of
the proof of `StartsThatFit`: the appointments of a day are read from a window of UTC that is
said to cover the tenant's civil day (`appointment-availability.service.ts:35-36`), but does
so only up to half a day from UTC, buffer included, while any zone is accepted
(`settings.dto.ts:44`). In New Zealand's summer (UTC+13) an appointment in the first hour of
a civil day is not read with that day, and its time is offered; the database's constraint still
refuses the booking.

## What is left out

* `joinPublic`, the list and the removal of waitlist entries: one read and one insert or
  update each. The claim of an entry is in `Appointments`.
* Daylight saving: a zone is one offset (`SlotEngine`). The runs and `StartsThatFit` keep it
  within half a day of UTC, buffer included.
* The dashboard's home, team, services, availability, billing and waitlist pages, the
  waitlist form of the booking page, `ui.tsx` and the shell: forms that post one request,
  and presentation.
* `register` (the initial state of `Sessions` and `Tenants`), the local demo mode of
  billing, the portal link, exports, health, top services of the report: one insert, or
  reads that nothing depends on.
* The Redis lock of the reconciliation: one sweeper is assumed.
* Environment parsing, process start-up, deployment, backup and CI scripts: no protocol.
* The other tables' constraints and indexes, the signatures and amounts of webhooks.

## Plan

What remains worth doing, in order:

1. The waitlist's join and the remaining pages, if they grow a protocol.
2. The safety half of the other liveness properties, as `BusyAwaits` is that of `PagesSettle`.
