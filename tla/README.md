# Verification project for the IWMS government backend

The repository is the Django backend of a municipal waste-management system:
trips are generated from trip plans every morning, crews work through the stops
of a trip with a phone app, supervisors decide what happens to the stops that
are left over, citizens raise complaints that escalate through a hierarchy of
officers, and a Celery worker does what takes time. This directory models the
parts whose correctness depends on the order in which independent actors reach
the database, checks the models with TLC on small instances and proves the
central facts with TLAPS for every instance.

Paths below are relative to `src/app/` unless they start with `src/`.

## 1. Inventory

The database is MySQL at READ COMMITTED; a request is not wrapped in a
transaction unless the code says `transaction.atomic`. A request loads rows
(`utils/ref_cache.py` caches them per request and drops an entry when the row
is saved), decides on what it loaded and writes with `save`, often with
`update_fields`. Row locks are taken with `select_for_update` in few places.
Celery runs tasks with late acknowledgement (`src/config/settings.py:354`); one
beat process enqueues the periodic ones.

| Component | State | Operations | Interacts with | What is hard |
|---|---|---|---|---|
| Trip rows (`models/core_modules/daily_operations/`) | assignment status, start/end stamps, stops, log status | `mark_started`, `mark_ended`, `pending_bin_stops`, admin status and log endpoints | everything below writes these rows | stale instances, several ways to close one trip |
| Bin scanning (`viewsets/operator_mobile/scan_bin_viewset.py`) | stop status, bin events, trip log | `POST scan-bin/` | trip rows; the log's `save` closes the trip | side effects through `save` and signals |
| Re-Trip (`services/retrip_service.py`, `retrip_timeout_service.py`, trip lifecycle and re-trip viewsets) | request status, decision window, stamps of reminder and escalation | driver start/end, approve, reject, proceed-next-trip, timeout sweep | trip rows, notifications | decisions race with each other, with a sweep that read the clock earlier, and with scans |
| Vehicle breakdown (`serializers/.../vehicle_breakdown_serializer.py`) | breakdown approval, continuation | report, verify, reject | trip rows | unlocked verify, continuation rules that differ from Re-Trip |
| No-collection notices and generation (`services/daily_service_notice.py`, `daily_trip_generation.py`) | notice status, cancelled trips | declare, revoke, generate, dispatch after commit | trip rows, scheduler | lock order, start against declaration, dispatches out of order |
| Daily scheduler (`services/daily_trip_scheduler.py`) | day claim and run status in Redis, MySQL named lock | tick, manual run | generation | claim taken before the work |
| Households and availability (`services/customer_availability.py`, household stops) | "I am home" flags, missed-pickup tickets | customer answer, crew's mark | trip rows, tickets | a flag that arrives while the stop is marked |
| Complaint tickets and escalation (`services/complaint_escalation.py`, complaint viewsets) | ticket status, level, deadline, histories | create, assign, resolve, reopen, escalate, SLA sweep, rescheduling | hierarchy, notifications | sweep works on a list read earlier |
| Background jobs (`services/background_jobs.py`) | job status, broker messages, waiting requests | start, wait, run, redelivery | Celery, replayed API call | a job claimed by web process or worker, redelivery, crash |
| Login sessions (`services/login_session.py`, `authentication/jwt.py`) | login row, cached state | login, heartbeat, logout, idle close, sweep | Redis cache | cached state outlives the session |
| Response cache (`cache/`, `utils/ref_cache.py`) | cached responses and rows | get-or-set, invalidate | every viewset | fill races with invalidation |
| Cascade delete (`utils/cascade_delete.py`) | soft-delete flags over plain references | delete | every model | graph of references without foreign keys |
| Permissions, masters, attendance, dashboards, seeders | see PROJECT.json | CRUD, lookups, reports | | no protocol of several steps |

`PROJECT.json` lists every component with its status, and under `hazards` what
can go wrong at which line, with the property that watches it or the reason why
none does yet.

## 2. Plan

The order follows what a mistake costs: a trip's stops first, then who is told
what, then infrastructure.

1. **Re-Trip (done)**: `TripState` (shared rows), `RetripDecision` (abstract),
   `Retrip` (handlers), proofs.
2. **Vehicle breakdown (done)**: the second writer of continuations, on the same
   `TripState`.
3. **Notices and generation (done)**: `DailyTrips`, which composes the scheduler, the
   generators, the supervisor's notices and the screens that share their rows.
4. **Households (done)**: `HouseholdStops`, the crew's marks against the customer's
   taps and the carry-over.
5. **Complaints (done)**: `ComplaintEscalation`.
6. **Background jobs (done)**: `JobPromise` (abstract), `BackgroundJobs`.
7. **Caches (done)**: `VersionedRead` (abstract), which both `ResponseCache` and
   `LoginSession` implement.
8. **CascadeDelete (open)**: a walk over plain references in one transaction; worth
   only a check of the walk against the closure it should compute.

## 3. Modules

| Module | What it is |
|---|---|
| `TripState` | trips, stops and logs as state; `mark_started`, `mark_ended`; the requests of the admin screen and the bin scan as actions |
| `RetripDecision` | what a Re-Trip request is promised: one decision, one continuation of its own for an approval |
| `Retrip`, `RetripProofs` | every handler that touches a request, split where another transaction can commit in between |
| `VehicleBreakdown`, `VehicleBreakdownProofs` | breakdown reports and the office requests on them |
| `DailyTrips`, `DailyTripsProofs` | the trips of one day: scheduler, generation, notices, screens |
| `HouseholdStops`, `HouseholdStopsProofs` | one household on the trips of a day |
| `ComplaintEscalation`, `ComplaintEscalationProofs` | one complaint ticket: placement, requests, rule edits, sweep, cleanup photos |
| `JobPromise` | what a background job is promised: one row, one replay, one outcome, and an answer that agrees with it |
| `BackgroundJobs`, `BackgroundJobsProofs` | one bulk upload or export: request, broker, workers, `run_job` |
| `VersionedRead` | what a cache promises: a value served was current at most `Window` ago |
| `ResponseCache`, `ResponseCacheProofs` | the cached viewsets: lookup, fill, index, invalidation |
| `LoginSession`, `LoginSessionProofs` | one login session with its cached state |

Each `MC<module>` gives the module its instances for TLC; a configuration is named
after its run. `TripState` is shared by extension: `Retrip` and `VehicleBreakdown`
add their own requests to the same trips, crews and admin screens.
`RetripDecision`, `JobPromise` and `VersionedRead` are related by `INSTANCE ... WITH`
and checked as properties. Definitions under a comment that begins "Mutant:" are
plausible mistakes in the code, and no specification uses them: each violates a
property when it takes the place of the definition after it, which shows that
the property sees that code.

### TripState

`status[t]`, `started[t]` (`actual_start_at` is set), `stop[t][s]`,
`carriedTo[t][s]`, `weighed[t]` and `log[t]` are the columns that decide
anything. Trips are numbered in the order of creation, which is also the order
of `scheduled_time` that the operator app sorts by, because a continuation is
scheduled for the time it is created. A stop is identified by its collection
point and bin, the pair by which the code matches stops of a source and its
continuation.

`MarkStarted` and `MarkEnded` take what the caller *saw* as parameters: the
Python methods decide on the attributes of an instance that was loaded earlier
and then write with `update_fields`. `Scan` is the whole `POST scan-bin/`
transaction: the stop, the event, the log that the event's signal creates, and
the log submission of the last stop, whose `save` ends the trip. `Resolve` is its
write; `Scan` adds that the trip is the one the app finds for the crew.

`admin[a]` is a request of the admin screen with the status and the start stamp
of the row it loaded. `status/` loads (`LoadStatus`) and later starts, completes or
cancels: the first two go through the lifecycle methods, which name the columns
they write, `AdminCancel` through `save()`, which writes every column of the copy
(`SaveRow`), the start stamp included. The edit form loads (`LoadForm`), loads again in
`update` (`ReloadForm`), checks that the plan has no other open trip (`CheckForm`),
saves the row whole (`AdminEdit`) and then syncs the stops (`FormStops`): one Pending
row for each stop of the plan that the trip lacks, and what the form says of the
others. `unstamped[t]` is history: such a save took the start of `t`, or completed it
without one.

Simplifications: bin and household stops are one set (their code is parallel, up to
the ward pruning of household rows); soft deletion, vehicle capacity and household
weights are left out; the form's stops are loaded and saved in one step. A scan is
one step too: its check that the stop is pending, which the code makes before its
transaction (`scan_bin_viewset.py:49`), is part of it. The screens on single
collection points, which overwrite a resolved stop too, are left out; no theorem
claims that a resolved stop stays as it was recorded.

### Retrip

A request is a number, in the order of `created_at`. `age[r]` counts minutes and
stops at the decision window, because nothing tells greater ages apart. The
handlers of the three kinds of sessions are records:

- `crew[c]`: `start` between loading the trip and `mark_started`; `check`
  between finding a pending request and locking it in `expire_retrip_if_due`;
  `end` between the look-up and `mark_ended` or `request_retrip`.
- `review[v]`: `carry`, the transaction of `approve_retrip` (or of
  `proceed_to_next_trip`, whose own request nobody else can see) between reading
  the pending stops and its last write. It holds the request's row lock, so
  every action that locks a request has the guard `~Locked(r)`.
- `sweep[w]`: the ages that a run of `process_retrip_timeouts` works with. The
  run reads the clock once and commits row by row.

`CloseInto` is the write part of `approve_retrip` in its order: the continuation
and its stops, the carried-over pointers, `mark_ended` and the re-saved log with
its own refusals. If the log refuses, the transaction rolls back
(`ReviewAborts`, which also stands for a dying process).

Simplifications: the unlocked checks with which approve and reject start are
repeated under the lock and folded into it; the closed check of
`proceed_to_next_trip` and the first read of the stops are one step; the sweep
does not list rows too young for any notice, on which it does nothing.

### VehicleBreakdown

`row[b]` is a report: the trip it names (unique over all reports, deleted ones
included), its approval, the continuation it led to and `is_deleted`. `source[n]`
is what the remarks of a continuation say. `desk[d]` is an office request with the
copy of the report it loaded (`get_object` takes no lock): `edit` has checked its
copy and loads a second one (`EditReload`), `save` writes all columns of that one;
`delete` and `reject` name the columns they write; `verify` has checked its copy
and enters the transaction (`VerifyRead`), `carry` commits it (`VerifyCommit`).
`crossed[b]` is history: two requests on the report have been under way at once.

`Replace` is `create_breakdown_continuation`: the plan's stops are cloned and
pruned to the carried ones, so a stop that was added to the source by hand
(outside `Planned`) is pointed at the continuation but has no row there; Re-Trip
makes sure that it has (`_ensure_live_continuation_stops`). The source trip is
not closed, its stops stay pending, and its crew goes on scanning them.

Simplifications: each trip has a crew of its own, so a scan may fall on any
trip; the check that a trip is open and the insert of its report are one step, as
are the checks of an edit's form and its save; the replacement vehicle and crew,
the conflict checks for them, the photos, the messages and the breakdown id on
bin events decide nothing here.

### DailyTrips

`notice[p]` is the notice of plan `p` for the day, `trip[p][i]` its assignments in
the order of creation with what the code looks at: status, who created it,
whether its remarks carry the notice's tag, whether it is deleted, and whether a
stop was collected. `holder[p]` is the plan's row lock (`select_for_update` in
generation and in `declare`), `job` the scheduler's MySQL named lock, `claimed`
the day's claim in Redis.

`worker[w]` runs the generators: a tick claims the day and then runs (`Tick`,
`GetJob`, `Peek`), a manual run and the command start at `AskRun`; per plan, `Lock`,
`Look` (notice and existing assignments under the lock) and `Insert`. `desk[s]` is a
supervisor's request: generation of selected plans (`Select...`), declaration of a
notice (`DeclareLock`, `DeclareCheck`, `DeclareRows`, `DeclareCommit`, then the
message after the commit, `DispatchNotice`), `Revoke` and `DispatchRestoration`. A
dispatch reads the notice again (`Tell`) and sends in a later step (`Send`), and several
supervisors' dispatches overlap. `told[p]` is the last message to the plan's crew and
whether it was `crossed`, that is, sent after the notice it had read was changed.
`user[u]` is a driver's or admin's request that loaded a row earlier and writes it
without the lock: start, end, form, cancel, create. `RunDies` and `RequestDies`
release what the dying process held, and rows that were not committed vanish.

The plans' numbers are their order in the querysets: `_owned_plans` has no `order_by`,
so a request takes them by `TripPlan.Meta.ordering` whatever order it names them in.

Simplifications: all plans are active, approved and due today; continuations are
the subject of `Retrip`; `DeclareRows` and `Revoke` do not wait for the rows of
notices and assignments, which both take in that order, after a plan's; the run status for the scheduler screen is left out.

### HouseholdStops

One household, because stops of different households share nothing but the trip.
`stop[t]` is its row on each trip (status, and whether `customer_available_at` is
set). `crew[h]` is a crew request: it loads the stop (`Load`), writes the mark's
columns from what it loaded (`mark_status`, `mark_collected`) and, for a miss of a
flagged stop, looks for the ticket and opens it in separate statements
(`missed_pickup_ticket`, `_create_ticket`). `tap[d]` is a tap on one of the customer's devices,
whose transaction locks the stop's row but took its snapshot of the trip's
status earlier. `approval` is a Re-Trip approval, which reads the stops and
commits the continuation's later. `said` and `miss` are history: what the
customer had said, and what the mark that recorded a miss knew of it.

Simplifications: the office's edit form, deleted records and their
resynchronisation, stops created on the fly and ward pruning are left out.

### ComplaintEscalation

One ticket, because tickets share nothing but the sweep, and the sweep handles
each in a transaction of its own. `status`, `level`, `escalated` and `due` are
columns of the ticket (`due` holds the ticks left of the deadline, `NoDue` when
it is NULL), `hist` and `reports` the escalation history and the cleanup
reports, `assigned` the staff member the ticket is assigned to, as the level of
that one's role (0 for a role outside the hierarchy, `NoStaff` for nobody).
`set_initial_escalation` reads it, and creation, `assign`, `PATCH` and the placement
itself write it. `Levels` are the levels of the area's hierarchy, `Chain` those with
`escalation_enabled` and staff covering the area. `overwritten` is history: a copy's
level or `is_escalated` was written over a row that had moved on since.
`ruled` and `timed` say whether an SLA rule governs the ticket and for which
levels it has a window.

A request loads the ticket in one step (`Read`, `PhotoRead`, `RescheduleRead`)
and writes in a later one from that copy (`seen[u]`), because `get_object` takes
no lock. What the write uses of the copy is in the record: `resolve` decides on
the old deadline, `change_status` on the old status too, an edit saves the whole
row. `escalate_ticket`, `approve` and `reject` read again under a row lock, so
they use the state at the write. `change_status`, `resolve` and `reopen` are
`transaction.atomic`: the rows they wrote stay locked, and all their writes are
one step. Creation is not: `perform_create` saves first and places the ticket
afterwards (`Create`, `Place`), and the sweep's statement that clears a deadline
runs after the refused hop has rolled back (`SweepTop`, `SweepClear`).

`EditRule` is the save of an SLA rule, with the rescheduling of its open tickets
on commit (`RescheduleRead`, then `RescheduleWrite`, or `Place` for a ticket that
is not on the chain). A window counts from the arrival at the level, which the
model does not date; any part of the window may therefore be left.

Simplifications: statuses that the code treats alike are one (`OPEN`, `CLOSED`);
the read of a rule's windows counts as part of the write that uses them; a
second check of the same request (`submit`'s look for a pending report) is folded
into its read step.

### BackgroundJobs

One job. `step[p]` is where each process stands: the web process `Request` in
`start_job` (`start`, `enqueue`), `wait_for_job` (`begin`, `wait`, `answer`) or
afterwards, a Celery worker between tasks (`idle`), and any of them in `run_job`
(`claim`, `interrupt`, `work`). `run_job` is written once (`Claim`, `Interrupt`,
`Finish`, `Raise`) and `Returned` says where each caller goes on, because the
request may run it from the inline fallback of `enqueue` or from its wait. The
two `UPDATE`s of `run_job` are separate statements, hence separate steps; what
`Claim` does is one `UPDATE ... WHERE`. Reading the row in the wait loop and
claiming it are separate steps too, which is where a claim is lost to a live run.

There is never more than one copy of the message, so `message` says where it
is. `Workers` are the pool processes that run tasks. A worker killed as a whole
keeps the message until the broker restores it. A pool process killed alone (by the
out-of-memory killer, say) does not: Celery's main process acknowledges what it was
at, because `CELERY_TASK_ACKS_LATE` is set without `task_reject_on_worker_lost`.
`WorkerDies` does either, and `lost` (history) records the second. A
live worker loses its message to the visibility timeout (one hour) only after the
request has ended (gunicorn kills it after 90 s). `FAILED` with the message of an interruption is
a status of its own here, `INTERRUPTED`. `pickup` is either zero or `Pickup`
because the cached ping of `workers_available` may say anything.

Simplifications: the replayed API call with its rows is the step `work`, whose
start `runs` counts; eager mode (development only) is left out.

### VersionedRead, ResponseCache and LoginSession

`VersionedRead` counts versions of some stored value and the time since each was
overwritten; a reader may be served any version overwritten at most `Window` ago.

`ResponseCache` models one cached viewset and the data its responses are made of,
whose version is `db`. Some of that data is another viewset's: a state's response
holds its country's and continent's names, and a write of a country invalidates only
the country's scopes (`CommitElsewhere`). `entry[k]` is the response under a key
with its remaining life, `index[s]` the keys recorded for a scope; a GET runs
through lookup, query, store, reading the index and writing it back (`reader[p]`),
a write through its commit, reading the index, deleting the keys and dropping the
index (`writer[w]`). Every Redis call stands alone and may be lost (the code
swallows the failure); a process may die between any two. `Latency` is how long a
worker may take from its query to its last step (gunicorn kills it at 90 s).
`serial` and `own` are history: the first stays true as long as requests came one at
a time and nothing failed, the second is the version that the viewset's own last
write made. The key of a retrieve does not name the row, as in the code, and the
listings in `Long` share one, because a key is cut off before its fingerprint, or keeps
only the last value of a repeated parameter.

`LoginSession` follows one session. `row` is the login row (how it was closed, last
activity), `cached` the state under its Redis key, `work[a]` the validation,
heartbeat, logout or sweep that a worker is in, statement by statement, `sent` the
heartbeats under way. `since` and `judged` record what the refinement needs: how
long the row has been closed, and on which row the last request was decided.
`prompt` is the assumption about the browser, chosen at the start: it reports
activity within `Delay` and nothing is lost.

## 4. What is checked

| Run | Shows |
|---|---|
| `decisions` | two supervisors, a driver and the sweep race on two requests: decided once (`DecidesOnce`), in the end (`DecidesEventually`), with one continuation per approval (`ApprovalOwnsContinuation`) |
| `notices` | two overlapping sweeps, a driver and two supervisors: every notice once (`OneNoticeEach`), none early (`NoticesInWindow`) |
| `trips` | scans, log edits and stale requests of the admin screen around an approval: carried stops have their row (`CarriedStopsArrive`), no Completed trip without a start (`CompletedHasStart`) unless a whole-row save took it, and the types |
| `breakdown` | two office requests on two reports of a trip with a stop of the plan and one beside it: carried stops lead to the continuation and the planned ones are there (`CarriedStopsArrive`), a trip is replaced once (`ReplacedOnce`) and an approved report stands (`ApprovalStands`) unless requests crossed |
| `days` | a generator, a supervisor, who may generate as well, and a user on one plan: one generated trip (`OneGeneratedTrip`), none under a notice (`NoticeHoldsGeneration`) |
| `scheduler` | two workers and two supervisors on two plans: every plan that is due is served by the one claimed run (`DuePlansServed`), the crew ends up told what stands although the supervisors' messages overtake each other (`CrewIsTold`) |
| `doorstep` | two crew requests, two devices, a carry-over: the crew is told once (`OneAlert`), a miss of a customer who had said "I'm home" is on record as a ticket (`MissOnRecord`), a second ticket takes overlapping requests (`TicketsNeedOverlap`) |
| `tickets` | two sessions, assignments, rule edits, photos and the sweep on one ticket: the history is one climb that ends at the ticket's level (`EscalationOnRecord`), a photo is reviewed once (`ReviewedOnce`) and its approval closes an open ticket (`ApprovalCloses`), an overdue ticket is handled (`OverdueIsHandled`) |
| `jobs` | a waiting request and two workers, any of which may die: the replay starts once (`RunsOnce`), the job and its answer behave as promised (`KeepsPromise`, the refinement of `JobPromise`: one replay, COMPLETED and FAILED final, the user told what stands), a queued job is finished unless its task raised or its pool process was killed alone (`QueuedJobFinishes`), the request ends (`RequestEnds`) and does not leave behind a job nobody claimed (`NeverAnswersQueued`) |
| `cache` | two readers and a writer, lost calls and crashes: responses are at most `TTL + Latency` behind (`AnswersBounded`, the refinement of `VersionedRead`), an overwritten version goes for good (`StaleEntryGoes`), and without overlap or failure the viewset's own writes are seen at once (`SerialReadsOwnWrites`) |
| `wrong_row` | a retrieve answered with another row's data: the one run that expects a violation |
| `sessions` | two workers on one session: an ended session is refused after `TTL + 2 * Latency` at the latest (`EndedSessionRefused`, the refinement), a user who keeps working is never logged out as idle (`NeverIdledOut`) |

### Bounds

- `decisions`: two requests and three trips, so that a second decision or a second
  continuation can go wrong; one stop; windows of one minute, since only before and
  after the window matter there. It runs `QuietSpec`: no scan, log, cancellation or
  form, which cannot influence a decision except by rolling it back (`ReviewAborts` is
  allowed), and the admin starts or completes the source only.
- `notices`: the windows 1, 2 and 3, so that each notice has a minute of its own and
  a sweep can be one, two or three minutes behind, and one request, because notices
  of different requests do not meet.
- `trips`: two stops, so that a stop is carried and another is not, a trip and its
  continuation, one request and every screen. The constraint `SourceDay` lets the admin
  screen and the scanner work on the source alone, whose stops are collected or left
  (a Skipped stop is treated as a pending one, a Missed one as a collected one), and
  two of driver, supervisor and admin under way at a time, beside scans and log edits:
  0.3 million states. A second request of the trip, and screens on the continuation, are
  covered by the theorems only.
- `breakdown`: two stops (one in the plan), two reports, two desks and three trips: a
  source and two continuations of it. The constraint `Quiet` leaves the
  continuations as they were opened, lets the admin screen start and complete the
  source only, its form unused, keeps the source's bins weightless and collected or
  left, lets requests cross on one report and makes no report on the last
  continuation; TLC then visits 1.2 million states. What the constraint leaves out,
  cancellations, the form, and scans of continuations above all, the theorems cover.
- `days`: one plan with two assignments, one worker, one supervisor (whose generation
  of selected plans is the second generator) and one user: 1.9 million states.
  `scheduler`: two plans, so that a run has a plan after the one that fails, of
  which people touch one; two workers, a tick beside a manual run, and two
  supervisors, whose declarations, revocations and messages overtake each other; one
  assignment. `TwoAtWork` lets two of the four be under way at a time, in any
  combination, since the claim, the lock and the notice are each contested by two.
- `doorstep`: a trip and its continuation, two handlers and two devices; four marks
  are a Collect Later, two overlapping misses and a retry, three taps one more than
  the devices.
- `tickets`: a chain of two levels, so that there is an entry level, a hop and a top,
  numbered 1 and 3, so that the next level is not the next number. A window of one
  tick separates not yet overdue from overdue. `MaxCalls` = 3: two requests overlap
  after a third has prepared the ticket (a photo, a closed status). `Targets` bounds
  the statuses a request sets to one open and one closed, `Assignees` the staff a
  request assigns to one, at the top of the chain; one outside the hierarchy is treated
  like nobody by the placement. `Downward` bounds the rules: one with a window for a
  level has one for those below. 0.7 million states.
- `jobs`: two pool processes, so that one can receive what the other held; `Pickup` = 1 and
  `Wait` = 2 separate before, between and after the two time-outs. Deaths and
  redeliveries are not bounded.
- `cache`: one listing, two readers and a writer, `TTL` and `Latency` of one, two
  writes, so that an overwritten version can be served beside a newer one.
  `wrong_row`: two rows.
- `sessions`: `TTL` 1, `Idle` 2, `Grace` 3, `Lifetime` 5, `Delay` 1, `Latency` 0, one
  heartbeat under way, clock up to 6: idle time-out, grace and the end of the
  session's life lie apart. Latency is zero only here; the theorems take any.

Sessions, workers, stops, reports and devices are interchangeable, and symmetry is
used only in runs without liveness.

`CHECK_DEADLOCK FALSE` stands where the system may come to rest: a day on which
all trips are closed and all requests decided (`decisions`, `trips`, `notices`,
`breakdown`), a ticket on which no request is left and whose deadline has passed or
is cleared, a finished job whose request was answered, a household whose marks and
taps are used up.

### Fairness

- Re-Trip: `Tick` (time passes) and `SweepStart` (beat enqueues the sweep every 60 s,
  `src/config/settings.py:406`) are weakly fair. `SweepRow` is strongly fair, because
  a worker may be killed and a row may be locked again and again, but not every time
  it comes to the row. `ReviewAborts` is weakly fair: a transaction ends, if not by
  its commit then by the server's time-out.
- Tickets: `Tick` and `SweepPick` (every 30 s) are weakly fair; the sweep's hop and its
  clearing of a deadline are strongly fair, because a worker may die during a sweep
  (`SweepDies`) but does not die during every one.
- Jobs: the web server serves the request (`RequestStep`, weakly fair, unless its
  process dies), the broker restores a message that nobody acknowledged (`Restore`; it
  has nothing to restore of a pool process killed alone), and some
  worker lives through each step of a task if it gets to it again and again (strongly
  fair).
- `DailyTrips`: the beat's `Tick` is weakly fair; the steps of runs and of supervisors'
  requests are strongly fair, because they wait for row locks, which InnoDB grants
  in the order of the queue. A run that dies is excused by `broken`.
- `ResponseCache`: time passes, and each reader goes on (weakly fair).

`LoginSession`, `HouseholdStops` and `VehicleBreakdown` state safety only and assume no
fairness. Nowhere is fairness assumed of people: no driver, supervisor, officer or
citizen ever has to act.

## 5. What was found

- **A retrieve answered with another row** (`wrong_row`): `cache_api` builds the key
  from the query parameters and the user (`cache/decorators.py:49`); the row asked for is
  in the path. All rows that one user retrieves within the TTL share a key, although
  `cache/keys.py:6` names "every param that can affect the response".

### Divergences

Further disagreements between the code and what the repository says of it. The
models reach all of them; the properties say what remains true beside them.

Trips and Re-Trip:

- Two end calls that both looked for a pending request before either created one
  create two (`viewsets/operator_mobile/trip_lifecycle_viewset.py:136`; line 147: "A
  Re-Trip request for this trip is already awaiting approval."). Both can be approved,
  and the second approval carries the same stops once more.
- The admin screen, a last scan, proceed-next-trip or an older end call close a trip
  under its pending request (`trip_retrip_request.py:16`: "The trip deliberately keeps
  its `In Progress` status while a request is pending").
- The scan that resolves the last stop submits the log, whose save ends the trip
  (`daily_trip_collection_point.py:163`: "it no longer ends the trip itself").

- The admin's cancel and the edit form save the whole row from a copy
  (`daily_trip_assignment_viewset.py:279`), so one that was loaded before the start wipes
  the start stamp; a driver's end that had seen the start then completes the trip
  without one (`daily_trip_assignment.py:405`: "Backfill so duration math never sees a
  null start against a real end."). The form may also set Completed by hand.
- The form adds to a continuation every stop of the plan it lacks, also the ones that
  the source collected and did not carry
  (`daily_trip_assignment_serializer.py:635`, "Pull in any stops added to the Trip
  Plan").

Vehicle breakdown:

- Two verifications that both saw the report pending open two continuations for the
  same stops (`vehicle_breakdown_serializer.py:393`: "Breakdown has already been
  approved."). A verification crossing an edit, a reject or a delete leads to
  a continuation whose report is pending again, rejected or deleted
  (`vehicle_breakdown_viewset.py:140`: "Approved breakdown records are read-only.").
  A pending one is verified again.
- Carried stops that the plan lacks have no row on the continuation
  (`retrip_service.py:207`), although the rules are the "same rules as Re-Trip"
  (`vehicle_breakdown_serializer.py:443`); nor does the continuation keep
  what the customers said (`customer_available_at`).
- The source stays open with its carried stops pending, so both crews may collect
  them, and a verification does not look at the source's status.

Notices and generation:

- The form's check "Trip plan already assigned for this date." and its insert are apart
  from the generators' lock, and revoking a notice restores a trip beside one created
  meanwhile: a plan can have two open trips. `OneGeneratedTrip` is what holds.
- A driver's start or end, or the form, on a row loaded before the notice cancelled
  it makes the trip run although the day was called off (`declare` refuses a trip that
  "has already started", but only as it sees it).

- A dispatch reads the notice and then sends (`daily_service_notice.py:143`, 155–167). A
  supervisor who revokes in between sends "restored" first, and the crew's last word is
  that there is no collection while the notice stands revoked. `CrewIsTold` excuses this
  window (`crossed`) and no other.
- A run that crashes after it claimed the day leaves the plans it did not come to
  unserved until somebody forces a run (`daily_trip_scheduler.py:122`); `DuePlansServed`
  excuses it (`broken`).

Households:

- A mark that loaded the stop before the tap leaves a flagged stop Not Available
  without a ticket (`customer_availability.py:10`), and two overlapping marks open two
  tickets (line 156: "Idempotent (keyed on the stop)"; the key is an index, not a
  constraint, `ticket.py:128`).
- A tap between the approval's reading of the stops and its commit is lost on the
  continuation (`retrip_service.py:337`: "the continuation crew must see it"), and a tap
  whose transaction began before the trip ended is accepted ("Today's collection trip
  has already ended.").
- A mark that loaded the stop earlier overwrites a Collected one
  (`waste_bluetooth_viewset.py:209`: "This household is already collected.").

Complaints:

- The sweep lists the overdue tickets and hops each under its row lock without
  checking again (`complaint_escalation.py:364`): a ticket escalated by hand in between is
  hopped twice, a ticket closed in between becomes ESCALATED (line 353: "Locks the ticket
  row so the sweep and a manual escalation can't double-hop it.").
- `PATCH /tickets/{id}/` saves the whole row from the copy it loaded and takes an
  escalation back (`transaction_serializers.py:102`: "Owned by the escalation service,
  never written through the API."). Setting a closed ticket open through it skips
  the clock, and no sweep finds the ticket (`complaint_escalation.py:314`: "Call on
  reopen: the current level gets a fresh window.").
- Two citizens' photos sent at once leave two pending reports ("One PENDING report per
  ticket at a time").

- A placement or a reschedule that loaded the ticket at level 0 writes the entry level
  over a hop made meanwhile, as an edit does. These are what `overwritten` excuses in
  `EscalationOnRecord`; a sweep's second hop of a stale list is not excused.

Jobs and sessions:

- `run_job` takes a lost claim for a redelivered message and fails the job
  (`background_jobs.py:231`: "Already running when this message arrived means the worker
  died mid-job"), also when a live process won the claim; the user reads "The job was
  interrupted" during an import that then completes.
- A web process killed while it runs a job whose message was never queued leaves it
  PROCESSING. So does a pool process killed alone, whose message is acknowledged
  although the comment says otherwise (`src/config/settings.py:352`: "Re-deliver a task
  if the worker dies mid-run"). `QueuedJobFinishes` excuses it (`lost`).
- Two closers that both read the session open both write; the later one's logout
  stays (`login_session.py:59`: "already-closed session keeps its original logout").

Cache:

- A cached state list holds the country's and continent's names
  (`state_serializer.py:18`), and their viewsets invalidate only scopes of their own
  (`country_viewset.py:60`): after a rename the old name is served for up to a TTL.
- A key is cut to 250 characters and the fingerprint stands last (`cache/keys.py:41`), so
  long listings can share a key ("distinct param combinations never collide even if
  truncated for length", line 39); of a repeated parameter only the last value
  counts.

## 6. What is proved

The theorems hold for any sets of sessions, stops, reports and devices and any
bounds that satisfy the assumptions named in the modules, which TLC evaluates in
every run. Each safety theorem rests on an inductive invariant `IInv`; what has to
be added to the property, and why, is the argument.

**Retrip** (`TripConstants`, `RetripConstants`: windows of at least one; reminder and
escalation no later than the timeout, as `reminder_minutes` and `escalation_minutes`
guarantee with `min`). `TypeCorrect` is proved action by action. `IInv` adds
`RowsExist` (handlers and requests refer to existing trips, so a continuation,
which takes the first free number, is later than its source) and the row lock
(`CarrierHoldsRequest`). The argument goes through the kinds of steps: `StepKind` shows
that every action, whoever takes it, is an `IdleStep` for the requests, or raises,
declines or approves one; the invariants and the refinement are then proved for
these four kinds instead of for twenty-two actions.

- `LockHolds`: a supervisor past the row lock holds a pending request.
- `Ownership`: `ApprovalOwnsContinuation`. `Refinement`: every step is a step or a
  stutter of `RetripDecision` (`DecidesOnce`).
- `StartStamped`: `CompletedHasStart`, with its exception for a save of the whole row;
  the strengthening (`StampInv`) says of every copy that a driver, the admin or an
  approval holds that a start it saw is still there, or that such a save took it.
- `CarriedArrive` (`CarriedStopsArrive`): `StopInv` adds that the stops an approval has
  read and is about to carry are on its trip (`KeptAreStops`) and that a trip that does
  not exist has none (`NoStopsYet`), since an approval reads first and carries later. No
  screen removes a stop, and the form adds stops only to a trip that exists (`SameStops`).
- `NoticesOnce`, `NoticesOnTime`: `SweepNotAhead` says that no sweep believes a request
  older than it is, which is why deciding on an old reading of the clock is harmless.

**VehicleBreakdown** (`BreakdownConstants`). `IInv` adds that trips that do not exist
have no stops and continue nothing (`Unmade`), that the admin screen, whose form adds
stops, works on trips that exist (`AdminsExist`), that reports and copies name existing trips, no
two reports the same (`ReportsExist`, `ReportsApart`), that a verification's stops are
on its source (`KeptKnown`), and, while no requests on a report have crossed, that a
desk is alone with its report and its copy is the report as it is, not
approved (`Alone`, `CopyFresh`), that exactly the approved reports name a
continuation (`Decided`) and that every continuation is some report's (`Opened`).

- `BreakdownTypes`, `StopsArrive`: without any condition on how requests meet.
- `TripReplacedOnce`: two continuations of a trip would be those of two reports on it.
- `ApprovedIsReadOnly`: a request that may write saw its report not approved.

Both say exactly how far the unlocked check in the code carries. What holds without
any condition on how requests meet is proved too: `NoCircle` (stops are carried to
later trips only, `CarriedForward`, so following `carried_to` ends).

**DailyTrips** (`DayConstants`). `IInv` ties the plan's lock to the program counters
(`WorkerHolds`, `DeskHolds`), says that what was looked at under the lock still holds
at the insert (`WorkerReady`, `DeskReady`) and that free slots are bare (`FreeIsBare`).
`DayTypes`; `GeneratedOnce` (`OneGeneratedTrip`); `NoticeRespected`
(`NoticeHoldsGeneration`).

A second invariant, `LockInv`, is about the locks alone: a run holds one plan at a time
(`RunHolds`), the plans a request holds come before those it has still to take
(`SittingHolds`), and a mode's name is held from `GET_LOCK` to the end of the run
(`HasJob`).

- `NoDeadlock`: no set of runs and requests waits for nobody but each other. The plans
  asked for go up along a chain of waiting (`WaitsAscend`), so the last of them has a
  holder that waits for nobody in the set. It rests on `Meta.ordering`: with a request
  that takes its plans in another order TLC finds the circle.
- `NoLockLeft`: a lock is of an open transaction; refusals and deaths leave none.
- `RunsAlone`: one run of a named mode at a time is past its `GET_LOCK`.

`CrewIsToldOrOwed` is the safety half of `CrewIsTold`: the last message to a crew says
what stands, or a request still has the message to send (`Owes`), or a change of the
notice crossed the last message, or something died. That the request gets to send it is
fairness, and model-checked.

**HouseholdStops** (`StopConstants`). `IInv` adds which stops exist (`Opened`, `Unopened`),
that an alert is owed only by the one tap that set the flag (`AlertOwed`), that flags
tell what was said (`FlagTrue`), and that a handler with a ticket to open is the
only one that could make its miss unrecorded (`TicketOwed`). `StopTypes`; `AlertsOnce`;
`ToldMissFiled` (`MissOnRecord`); `RepeatsFileOne` (`TicketsNeedOverlap`).
`FlagsStand`: no mark and no continuation takes back "I'm home". `NothingUnsaid`: an alert or
a ticket is about a stop whose customer said so (`WordBacked`), because a handler that
goes by the flag, or looks for a ticket, read a flag that is still up (`CopyBacked`).

**ComplaintEscalation** (`EscalationConstants`; any hierarchy, chain, window, number of
sessions and calls). `TicketTypes` and `HistoryIsOneClimb` come from one invariant:
`TypeOK`, `EscalationOnRecord`, `CopiesOnRecord` (a copy that is escalated was loaded
from a ticket with a history, and the history only grows) and `Unborn`.
`HistoryIsOneClimb`: `escalate_ticket` starts each hop from the level it reads under
the row lock, so the hops join into one climb that ends at the ticket's level, until a
copy's level is written over a newer row. Who is assigned when does not matter.
`DecidedReportStays`: no action but a review changes a report, and a review looks
again. `ApprovalClosesOpenTicket`: only `Approve` approves.

**BackgroundJobs** (`JobConstants`: `Pickup <= Wait`; the settings default to 10 and
50 s). `JobTypes`, `AtMostOneRun`, `PromiseKept` and `AnswersClaimedJob` rest on one
invariant: nobody is in `run_job` before the row exists (`JobExists`), whoever got past
the claim was preceded by one that won it (`PastClaim`), the winner is alone and saves a
job that has no outcome of its own yet (`OneWinner`), and an unclaimed job has not run
(`RunsCounted`). `PromiseKept` (`KeepsPromise`): every step is a step or a stutter of
`JobPromise`, in which the row is created, run, called off, ended and told. It needs `AnswersLast`: the request answers last of all it does, so there is one answer. Two consequences are derived from the refinement:
`OutcomeIsFinal` (COMPLETED and FAILED are never left) and `ToldOutcomeStands`
(`JobPromise`'s `ToldStands`: a user told of an outcome was told the one that stays).

**ResponseCache** (`CacheConstants`). `FreshEntries`: an entry's age and its remaining
life never exceed the window together, and what a reader is about to store is no
older than its query (`EntryFresh`). It yields `BoundedStaleness`: `Spec` implements
`VersionedRead` with the window `TTL + Latency`, whatever index updates or deletions
are lost. `TypeCorrect`. `OwnWritesAreSeen` (`SerialReadsOwnWrites`): as long as requests come
one at a time and no call is lost, `SerialInv` says that between requests every entry is
indexed and no older than the viewset's own last write (`AllExact`), and what
the one request under way has still to put right (`GetExact`, `DropExact`).
`StaleIsGone` (`OldIsGone`) and `StaleStaysGone` are the safety half of `StaleEntryGoes`:
once a version has been overwritten for longer than the window, neither an entry nor a
reader holds it, and no late fill brings it back.

**LoginSession** (`SessionConstants`, `GraceCovers`). `EndedIsRefused`: the refinement of
`VersionedRead` with the window `TTL + 2 * Latency`; the invariant bounds how late the
cached state (`CachedSafe`), a call's verdict (`CallSafe`) and a copy on its way to the
cache (`CopyLate`) can be. `NeverIdle` (`NeverIdledOut`) needs `GraceCovers`, `Grace >= TTL +
2 * Delay + 3 * Latency`: with the code's 120 s of grace and 60 s of cache, heartbeats and
requests have a minute for twice the one and three times the other. With a smaller
grace TLC finds a working user logged out. `SessionTypes`.

Model-checked only: liveness (`DecidesEventually`, `OverdueIsHandled`,
`QueuedJobFinishes`, `RequestEnds`, `StaleEntryGoes`, `DuePlansServed`, `CrewIsTold`),
since the prover does not handle fairness. Every invariant and action property of the
passing runs has its theorem. That an idle session is closed in the end was left out: under
fairness its state graph is too large.

## 7. What is not modelled

- **Cascade delete** (`utils/cascade_delete.py`): one synchronous walk in one transaction;
  its outcome depends on the data and not on an order of steps.
- **Permissions and screens**: table lookups per request.
- **Masters and schedule setup**: create, read, update and delete without state that
  spans requests. The caches in front of them are in `ResponseCache`.
- **Attendance and face recognition**: numeric image matching, beyond TLC.
- **Notifications and push**: output that nothing reads back; `sent`, `told` and `alerts`
  count the calls where a property is about them.
- **Dashboards, reports, audit**: read-only aggregation; the larger part of the code.
- **Seeders, schema synchronisation, management commands**: one-off scripts and data.

Parts of modelled components that are left out:

- Trips: log verification and approval endpoints, the screens on single collection
  points, vehicle capacity; soft deletion is in `DailyTrips` only.
- Breakdown: photos, lists of free staff and vehicles, the conflict checks on them, messages.
- Scheduler: the configuration screen, the status shown, weekday and approval filters.
- Households: the office's edit form, deleted waste records and resynchronisation, stops
  created on the fly, ward pruning.
- Tickets: deletion, comments, attachments, feedback, address changes.
- Sessions: credentials, the tokens themselves, sessions from before tracking.

Wording, payloads and push delivery are left out everywhere.
