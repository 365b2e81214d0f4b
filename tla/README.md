# PulseGuard in TLA+

This directory specifies and verifies PulseGuard, a multi-tenant uptime monitor:
the health state machine and the worker that drives it, its Redis lock and circuit
breaker, the queue it takes its jobs from, the prober, the API's incidents,
sessions, accounts, audit rows, reports and metrics, and the state the dashboard
keeps in the browser. TLC checks the models on small instances; TLAPS proves the
main results for all values of the constants. Paths are relative to the
repository root.

## The system

| Component | Code | State | Operations | Modules |
|---|---|---|---|---|
| Health check processor | `apps/worker/src/health-check.processor.ts` | a job's local variables between awaits | `process`, `determineNextStatus`, `ensureIncidentCreated`, `ensureIncidentResolved` | `MonitorStatus`, `MonitorSpec`, `HealthCheck`, `HealthCheckLive`, `EditedThresholds` |
| Check lock | `apps/worker/src/prober/lock.service.ts` | Redis key `lock:service:<id>` with a time to live | `acquireLock`, `releaseLock` | `HealthCheck`, `CheckLock` |
| Circuit breaker, event listener | `apps/worker/src/prober/circuit-breaker.service.ts`, `prober/events/` | Redis keys `circuit:state:<id>`, `circuit:opened_at:<id>` | `getState`, `transitionTo`, one alert per event | `Circuit`; `HealthCheck` with one step per transition |
| HTTP prober | `apps/worker/src/prober/http-prober.service.ts` | one request's callbacks | `probe` | `HttpProber` |
| Queue reconciliation | `apps/worker/src/app.service.ts` | BullMQ job schedulers | cron `handleHeartbeatCheck` | `QueueSync` |
| Incident API | `apps/api/src/incidents/` | incident rows | `acknowledge`, `resolve`, listings | `HealthCheck`, `Paging` |
| Service API | `apps/api/src/services/` | service rows | `create`, `update`, `remove`, `enable`, `disable`, metrics, listings | `HealthCheck`, `QueueSync`, `EditedThresholds`, `ServiceReport`, `Paging` |
| Authentication | `apps/api/src/auth/` | refresh tokens by family, cookie | `login`, `refresh`, `logout` | `RefreshTokens` |
| Registration, tenants | `apps/api/src/auth/`, `admin/` | users, roles, tenants | `register`, `createUser`, `updateUserRole`, `updateTenantSettings` | `Accounts`, `TenantSettings` |
| Audit log | `apps/api/src/auth/audit.interceptor.ts` | audit rows | a row per audited handler, one per rejected login | `AuditLog`, `Paging` |
| Metrics | `apps/api/src/metrics/` | Prometheus gauges in memory | `getMetrics` | `MetricsScrape` |
| Alerts API | `apps/api/src/alerts/` | none | listings | `Paging` |
| Dashboard session | `apps/dashboard/src/lib/api-client.ts`, `proxy.ts`, `features/auth/` | `localStorage`, cookie, each tab's page | login, logout, 401, guards | `BrowserSession` |
| Dashboard lists | `features/observability/`, `features/admin/` of the dashboard | page number beside a cached list | refetch, filter, page | `ListPages` |
| Dashboard service console | `observability-console.tsx` and its hooks | cached list, selection | select, create, delete | `ServiceConsole` |
| Dashboard organisation settings | `use-admin.ts`, `admin-settings-view.tsx` | form, stored user | save | `TenantSettings` |
| Plumbing, simulation, markup, shared package | `apps/api/src/common/`, `simulation/`, `components/ui/`, `packages/shared/` | none of the system | | not modelled |

Processes meet only in PostgreSQL, Redis and, for tabs, the browser's storage. No
handler uses a transaction: each awaited call is atomic, whole handlers are not.
Workers are replicated; a service's jobs come from one BullMQ scheduler but may
overlap when one is late. The API answers requests concurrently, the dashboard
polls, and every callback of a query sees what other callbacks have left.

What is hard here:

- **stale readings**: a check reads the row first, then the circuit, then takes
  the lock; a reconciliation works from two listings; a role change, a refresh and
  an acknowledgement write what they checked one query earlier; a callback in the
  browser uses what was stored when it was made;
- **an unlocked path**: with the circuit open a check writes the row and may open
  an incident without the lock, and half-opens the circuit before it has it;
- **partial effects**: incident, alerts, status and circuit, the circuit's two
  keys, a tenant and its first user, the gauges of a scrape are written one after
  the other; a crash or a failing query leaves any prefix;
- **expiry**: the lock lives twice the timeout of *one* attempt; the open circuit
  must cool down even if half of it was written; a cookie outlives its token;
- **lost and late answers**: a refresh whose answer is lost has rotated the token;
  circuit events and audit rows are stored by code nobody waits for;
- **failing open or closed**: the lock counts a Redis error as "taken", the
  circuit counts one as CLOSED, the browser takes a rejected login for an answer.

What makes each component correct:

- *processor*: the row moves by the health state machine and by nothing else; an
  outage has exactly one active incident, opened before the row says DOWN and
  resolved before it says the outage is over; it is announced once; after a
  disturbance, or an edit of the thresholds, all converges to what the target is;
- *lock*: one check of a service at a time; never taken for good;
- *circuit*: open only on a service that is DOWN, for the whole cooldown, and never
  for good; its alerts tell its state;
- *prober*: a probe is bounded by what the target does; that every one ends is what the
  documents say and the code does not (`probe_hangs`);
- *queue*: enabled services end up with exactly one scheduler of their interval,
  others with none that is listed with an id;
- *incident API*: a resolved incident stays resolved; only resolved incidents are
  announced as resolved;
- *tokens*: a family has one live token, and none after reuse or logout; a browser
  whose requests do not overlap keeps its session;
- *accounts*: a tenant has somebody who can administer it;
- *audit log*: it tells what was done, by whom, in order;
- *reports, metrics, listings*: what is read over several queries fits together;
- *dashboard*: no session without a good token goes on, lists and selection show
  what is there, the stored organisation is called by its own name.

## Modules

Each module is one component; its state is its VARIABLES, one action is one awaited
call, one event or one callback, named after the code where the code names it.
`HealthCheck` is the core; the others are about what it holds constant or atomic.

`MonitorStatus` - the pure part: `determineNextStatus` with the counters its
callers compute (`NextRow`), and the two status changes that concern incidents
(`EntersOutage`, `LeavesOutage`). The counters only matter up to their
thresholds, so they are kept in `0..FailureThreshold` and `0..RecoveryThreshold`.

`MonitorSpec` - the abstract monitor: a row, whether the service exists, whether
an incident is active. `Raise` and `Clear` are allowed only to a check that is
about to enter or leave the outage, `Check` only after them. `HealthCheck`
implements it (`ImplementsMonitor`).

`CircuitKeys` - the two keys of a circuit for those to whom a call of `getState` or
`transitionTo` is one step (`Transition`, cut short `Interrupted`). `HealthCheck` is
built from it; `Circuit`, which has the commands, implements it for one replica.

`HealthCheck` - one service, any number of workers and operators. `pc[w]` names
the call a job makes next. The state:

| Variables | Code |
|---|---|
| `row`, `enabled`, `exists` | the `Service` row: status and counters, `enabled`, whether it is there |
| `incident`, `alerts` | `Incident` rows and how many `Alert` rows of each type name each |
| `circuit`, `openedAt` | the two circuit keys; `openedAt` says absent, younger or older than 60 s |
| `lock` | the lock key: free, a worker's, or left by a holder that is gone |
| `target` | what a probe would find: `fast`, `slow`, `fail` |
| `snap`, `seen`, `attempt`, `next`, `subject` | a job's `service`, `circuitState`, `attempt`, the row it will store, the incident in hand |
| `opPc`, `opInc` | the next call of an operator's request, its incident |

| Actions | Code |
|---|---|
| `StartJob`, `GetState`, `ShortCircuit`, `AcquireLock`, `SkipCheck` | `process` up to the lock (205-299), `getState` |
| `Retry`, `Probe` | the attempt loop; `Probe` is the attempt that decides, with the evaluation after it (305-398) |
| `FindOpen`, `CreateIncident`, `AlertCreated`, `AlertDown` | `ensureIncidentCreated` |
| `FindActive`, `ResolveIncident`, `AlertRecovered`, `AlertResolved` | `ensureIncidentResolved` |
| `AlertStatus`, `UpdateService`, `TransitionCircuit`, `ReleaseLock` | the rest of `process`, `transitionTo`, `releaseLock` |
| `WriteToDeleted`, `QueryFails` | a throwing query: `catch` and `finally`, or a failed job on the short-circuit path |
| `GetStateFails`, `UpgradeFails`, `AcquireFails`, `TransitionFails`, `ReleaseFails` | the `catch` of each Redis helper |
| `Crash`, `HeldLockExpires`, `OrphanExpires`, `CoolDown` | dying process, key expiry, the clock |
| `OpRead` ... `OpReset`, `OpAborts` | `acknowledge` and `resolve` |
| `ToggleEnabled`, `RemoveService` | `enable`, `disable`, `remove` with its cascade |

`Faults` switches the faults on: `db`, `redis`, `crash`, `ttl`. `Counted` says
which alert types are counted (no handler reads an alert, so not counting one
changes nothing else), `ServiceCalls` which calls of the service API occur.

`HealthCheckLive` - `HealthCheck` in an environment that may calm down at some
time; the liveness properties and the fairness live here.

`CheckLock` - time: a check with its retries and delays against the time to live of its
lock. Nothing limits an attempt: the prober's timeout is one of inactivity and the
queries have none, so a probe and the storing end at any time or never. With `Punctual`
every probe ends within its timeout and nothing is late, which is what the documents
promise. The module says when the fault `ttl` of `HealthCheck` can occur, and what the
lock is worth when it does. `left` is what a punctual probe or a delay has still to
wait, `age` how long ago a check took its lock.

`EditedThresholds` - `update` of the thresholds between any two queries of a check;
the state machine is `MonitorStatus`, instantiated with whatever thresholds the
check has read. A counter may have passed a threshold that is lowered later.

`Circuit` - `getState` and `transitionTo` command by command (`GetCircuitState`,
`GetOpenedAt`, `RecordOpenedAt`, `Compare`, `SetCircuitState`, `WriteOpenedAt`) in
several replicas, around the lock and the probe; every command may fail, every
replica die between two, and whatever a failing one writes may have been written.
`pending` and `announced` are the emitted events and the alert stored last: the
listener's handlers end in any order. `overtaken`, `stray` and `muddled` record the
overlaps the properties have to name; no action's guard reads them. As long
as calls of two replicas do not overlap, all this comes to the whole calls of
`CircuitKeys` (`ApartReplicasMoveAtOnce`); the overlaps are what `HealthCheck` leaves
out.

`HttpProber` - the events of Node's client: lookup, connection, secure connection,
head, chunks, end, error, timeout, close. The timeout is the socket's, which every
sign of life restarts.

`QueueSync` - `handleHeartbeatCheck`: read the services, list the schedulers,
remove the obsolete ones, upsert the rest, one call each, in several replicas,
against services that are created, edited, switched and deleted. The loop skips every
listed scheduler without an id, which BullMQ's type allows (`upsertJobScheduler` keeps the
identifier in `key`): `identified` is the set of those that are listed with one, any set.

`RefreshTokens` - `login`, `refresh`, `logout` query by query, with the cookie their
controller sets in one browser; requests overlap, fail and lose their answers.
Tokens are numbered in the order they are stored; `family` is the login's token.

`Accounts` - `register`, `createUser`, `updateUserRole` with the guards that admit
them; the unique address is the database's.

`AuditLog` - the handler's own write (`CarryOut`), which it awaits, the interceptor's
insert (`LogAudit`), which starts when the handler has returned and which nobody awaits,
and the row of a rejected login, which is awaited. `acted` are the handlers between the
two, `together` the pairs of requests whose rows were due at some same time: action
carried out, row not stored yet.

`MetricsScrape` - `getMetrics`: reset, services, incidents, then three queries and
their gauges for each service; overlapping and failing scrapes share one registry.

`ServiceReport` - the report of one service over four queries; `getPercentile` is
the code's index arithmetic, compared with the definition of a nearest rank. It is
done here in integers; in floating point, `Math.ceil((pct / 100) * n)` gives the same
for every `n` below 300000 at 50, 95 and 99, the percentiles the code asks for. Sorting
and the order of a listing are stated by what they give (`Sortings`, `Listings`), and
the downtime is the set of ticks the incidents last (`Downtime`).

`Paging` - any listing of the API, newest first with `take` and `skip`, walked by a
client while rows are stored, leave and enter.

`BrowserSession` - token, user and cookie in the browser, the page and the request
of every tab; `apiRequest`'s 401 path, `useLogin`, `useSignup`, the logout button,
`proxy.ts`, the role guards of the layouts.

`ListPages` - the page number of the dashboard's six paged lists, with their page
sizes, limits and filters. `ServiceConsole` - the polled list, the selection and
the effect that repairs it, creations and deletions with their callbacks.
`TenantSettings` - the organisation's name in its tenant, in the form of every tab
and in the stored user.

`MCHealthCheck` and `MCHealthCheckLive` give the constants of the core their values for
TLC. `MCLiveParts` and `MCSafeParts` put modules that share no state side by side: a
variable `part`, chosen by `Init`, says which of them moves. The states of such a run
are the union of the parts' states and not their product, each property is about one
part, and for the liveness properties each part's fairness is asked while it is the part
that runs. The theorems are in `HealthCheckProofs`, `CheckLockProofs`,
`RefreshTokensProofs`, `WorkerProofs` (circuit, queue, prober, edited thresholds),
`ApiProofs` (accounts, scrapes, audit log, listings, reports) and `DashboardProofs`
(lists, console, settings, session), each part with an invariant of its own;
`LivePartsProofs` and `SafePartsProofs` carry them over to the compositions.

Abstractions. In `HealthCheck` failure, timeout and error of a probe are one outcome,
`transitionTo` is one step unless it is cut short (`Circuit` has its commands), and
service checks (the per-attempt log) are not kept; that their insert can fail is. A
Redis command that throws may have been executed or not. A second creation or deletion
from the console before the first is answered is left out. Texts, severities, hashes and
logs are left out, and so are alerts that name no incident, except that writing one can
fail. An incident identifier is used again when its incident is resolved and nobody
holds it, so a small set of them does not bound the number of outages. One service is
enough where no code of the worker touches two; `QueueSync` and `MetricsScrape`, whose
code does, have several.

## Runs

| Run | Instance | Shows |
|---|---|---|
| `hc_single` | 1 worker; db, redis, crash; enable, disable, remove; thresholds 3 and 2; 1 retry; 2 incidents | `DownHasIncident`, `AtMostOneActiveIncident`, `AlertsOnce` and the refinement `ImplementsMonitor` survive every prefix of every handler |
| `hc_fleet` | 2 workers; redis, crash; thresholds 2 and 2 | the locked section is exclusive (`LockedSectionExclusive`) |
| `hc_operator` | 1 worker, 1 operator; crash; remove; 3 incidents | `RowConsistent`, `ResolvedBeforeAnnounced` with both sides resolving |
| `hc_live` | 1 worker; all faults until calm; thresholds 2 and 2 | `Recovers`, `Detects`, `ProbesAgain`, `SettlesDegraded` |
| `hc_undisturbed` | 1 worker; ttl only | `DownWasAnnounced`, `OpenOnlyWhenDown`, `HealthyHasNoIncident`: true only while handlers run to their end |
| `live_parts` | `Circuit` 2 replicas, 1 fault; `CheckLock` 3 workers, timeout 2, delay unit 1, 1 retry, not punctual; `HttpProber` timeout 2, 3 chunks; `QueueSync` 2 services, both or one listed with an id, 2 intervals, 2 replicas, 3 edits, 1 cut round; `BrowserSession` 2 tabs, 3 moves; `EditedThresholds` limits 1 and 2 | `CooldownKept`, `ProbeComesBack`, `AlertsTellState`; `OverlapOutlivesLock`, `LockExpires`; `DurationBounded`; `QuietRoundIsExact`, `SchedulersConverge`; `SessionEnds`; `EndsAsFound` |
| `safe_parts` | 2 requests, 2 addresses, organisations or services, 1 loss or cut; 3 tokens, 2 tenants, 2 audited requests, 2 tabs, 3 services of the console, pages of 2 of 4 rows, the program's own page sizes with 20 users | `FamilyHasOneToken`, `SessionContinues`, `TenantIsAdministered`, `AuditTellsHistory`, `ScrapeComplete`, `ReportIsConsistent`, `WalkMissesNothing`, `EmptyPageOnlyAfterShrink`, `SelectionListed`, `NameIsOwn` |
| `hc_two_incidents` | 2 workers, no faults | *violated:* `AtMostOneActiveIncident` |
| `hc_left_open` | 1 worker, crash | *violated:* `HealthyHasNoIncident` |
| `hc_resurrected` | 1 worker, 1 operator, no faults | *violated:* `ResolvedIsFinal` |
| `lock_retries` | 2 workers, timeout 5, delay unit 2, 1 retry, punctual | *violated:* `NoOverlap` |
| `probe_hangs` | timeout 2, 1 chunk | *violated:* `ProbeSettles` |

Bounds. Thresholds of 3 and 2 (the schema's defaults) separate the first, the
middle and the last of a series of failures; where a run needs several actors
the failure threshold is 2, which still has a failure below the threshold. One
retry makes the attempt loop turn and end. With one worker at most one incident
is active and one more is in somebody's hand, so 2 identifiers suffice; an
operator adds a third. Two workers are enough for every conflict over one lock,
row or circuit of `HealthCheck`; `CheckLock` has three, because what a check that
overran its lock must not do is let a third one in.

In `live_parts` two replicas of the circuit, one fault and a cooldown of one tick
reach every overlap that two transitions can have; three replicas, with and without
a fault, were checked on their own and add the one case `CooldownKept` names with a
third party (below). Three chunks let a probe outlast its timeout several times. Three
edits make a service wanted, changed and unwanted within one round. A lock that lives
four ticks is overrun within an attempt and between two, with one worker that overran it,
one that took it over and one that tries. Limits of one and
two let a counter stand at, below and above the threshold it is compared with; one to
three were checked on their own, and so were three tabs. Liveness is not checked under
symmetry.

In `safe_parts` requests are alike, and so are addresses, organisations and
services; all properties are invariants, so symmetry is sound. Three tokens are a
login, its rotation and one more, of the same family (a reuse, two successors) or
of another login. Two audited requests are what an order is about. Four rows in pages of two
give a walk a middle; four ticks let every row have its own timestamp. Three audited
requests, three requests for accounts and three scrapes of one service were checked
on their own; nothing new came up.

### What the five violated properties show

- `hc_two_incidents` (both thresholds 1): a check that read the circuit before
  another one opened it finds the target up and stores HEALTHY; the circuit stays
  open. Two overlapping checks then read HEALTHY and OPEN, are short-circuited to
  DOWN without a lock, both find no incident and both create one
  (`docs/reliability.md:56` promises a single incident).
- `hc_left_open`: the worker dies between `incident.create` and the update that
  stores DOWN. The next check succeeds; for it nothing recovers, and the incident
  stays open on a HEALTHY service (`docs/reliability.md:30`). The next real outage
  would reuse it without announcing anything.
- `hc_resurrected`: `acknowledge` reads an open incident, the worker resolves it,
  `acknowledge` writes ACKNOWLEDGED (`incidents.service.ts:99` refuses this).
- `lock_retries`: two attempts and a delay outlast `2 * timeoutMs`, the lock
  expires under its holder (`health-check.processor.ts:296`). With the defaults
  (5 s timeout, 3 retries) a check of a service that times out takes 27 s, its
  lock lives 10 s. This is with everything punctual; a slow response or a slow query
  does the same without a retry, and a probe that hangs does it for good.
- `probe_hangs`: the server sends the head of a response and closes the connection
  before its end. The response emits "aborted", for which nothing listens; a closed
  socket has no timeout; the promise stays pending and so does the check, with its lock
  left to expire (`docs/reliability.md:37`: every request has a limit, "rather than
  blocking the worker thread").

### What the exceptions in the properties say of the code

A property that holds names the ways round it that the code leaves. In `live_parts`
and `safe_parts` each of them is reached: without the exception TLC finds the property
violated (the third replica of `CooldownKept` takes an instance of three).

- *Incidents.* `AlertsOnce` and `AtMostOneActiveIncident` hold for one worker beside
  operators who only acknowledge what is not resolved; `DownWasAnnounced` and
  `HealthyHasNoIncident` only while no handler is cut short; with `recoveryThreshold` 1
  a crash between resolving and storing lets the next failure leave a DOWN service
  without incident.
- *Cooldown* (`CooldownKept`). A replica half-opens a circuit that has just been
  opened again when it found the old cooldown over and another transition overtook
  it; when a third one that left OPEN has set the state but not yet deleted
  `opened_at`, so that the old time is read with the new opening; or when a
  transition was cut between its keys. The circuit comes back to probing all the same
  (`ProbeComesBack`): a missing time is recorded as now.
- *Circuit alerts* (`AlertsTellState`). Handlers of two events that are under way
  together may store their alerts in the other order.
- *Lock* (`OverlapOutlivesLock`). A check that lasts longer than its lock overlaps with the
  next one. It no longer owns the key and deletes only its own (compare and delete), so
  the other's lock stays.
- *Prober* (`DurationBounded`). What the inactivity timeout bounds is the timeout once
  more than the socket was active; a response that trickles in can take any time.
- *Queue* (`QuietRoundIsExact`, `SchedulersConverge`). Obsolete schedulers that are listed
  without an id are never removed; their jobs go on, and a check of a disabled or deleted
  service ends where it has read the row.
- *Tokens* (`FamilyHasOneToken`, `SessionContinues`). Two refreshes with one token
  that are under way together may both find it live and get a successor each, or one
  issues into the family the other revokes. A refresh whose answer is lost leaves the
  browser with a revoked token; its next one is taken for a theft.
- *Tenants* (`TenantIsAdministered`). A registration that is cut, or loses its address
  to another, leaves a tenant without user; the last administrator may be demoted by
  itself, by a caller without tenant, or by another whose own role goes at the same
  time.
- *Audit log* (`AuditTellsHistory`). Two rows are in the order of their actions unless one
  action was carried out while the row of the other was still due; a
  logout's row names nobody, its route has no guard; a row whose insert fails is gone.
  Rows never carry a `tenantId`, so the listing a tenant's administrator asks for,
  which filters by it, is empty; that listing is a read and has no property.
- *Scrapes* (`ScrapeComplete`). The reset of a second scrape empties the gauges the
  first is filling, and its answer is incomplete.
- *Reports* (`ReportIsConsistent`). Successes are counted after the total: the number
  of failed checks can be negative, by at most the checks stored meanwhile. Two
  incidents open at once count their downtime twice.
- *Listings* (`WalkMissesNothing`). A row that leaves moves those behind it past the
  place where the next page begins; rows of one timestamp have no order.
- *Dashboard.* A rejected login is a 401 whose `{}` is stored as token and user
  "undefined", with a cookie; the next request leads back to the login (`SessionEnds`).
  A late 401 of one tab clears the session another has just begun. A list that gets
  shorter leaves an empty page (`EmptyPageOnlyAfterShrink`). A service that was just
  created is selected before the list has it, and loses the selection to the first of
  the list; a list of the same length with other services goes unnoticed
  (`SelectionListed`). The answer of a save gives its name to whoever is stored by then,
  and a settings form left open over another tab's login submits the old organisation's
  name into the new one (`NameIsOwn` compares the stored name with the tenant's, so the
  latter is no exception to it).

## Fairness and liveness

Every liveness property assumes that processes run, that time passes, and that
awaited calls settle or throw; none assumes anything of faults, targets, users or
edits.

- `HealthCheckLive`: a worker keeps taking steps (BullMQ repeats the job of an
  enabled service), Redis removes a key at its time to live. The environment need
  not ever calm down: the properties start from `calm`. That every awaited call
  settles is an assumption on `probe`, with the exception `HttpProber` shows.
- `CheckLock`: time passes, and that is all; a worker may stop anywhere, a probe last for
  ever.
- `Circuit`: each replica's jobs keep coming and their commands settle, handlers of
  events end, an orphaned lock expires, the clock runs. Weak fairness of one replica's
  steps is enough: its job is one sequence of commands.
- `HttpProber`: the request is made, the timer fires, the error of a destroyed
  request is emitted, the clock runs. The target may do nothing at all. All this does
  not help a response that is cut off: `ProbeSettles` is violated under it.
- `QueueSync`: the cron fires and a round's calls settle; edits and failures are
  bounded in number, which is what "once they stop" means.
- `BrowserSession`: navigations end, polling timers fire, requests are answered. A tab
  is visible; a user need not act and may act a bounded number of times.
- `EditedThresholds`: a check proceeds. Edits and the target are not bounded:
  `EndsAsFound` says what follows if the target keeps one health and checks go on, and
  edits may go on for ever.

## Proofs

All theorems but one are about a module's specification and hold for every value of the
constants its named assumptions allow (`ThresholdAssumption` and `CheckAssumption`, and
one assumption for each other module: naturals where the code has counts, finite sets
where it has rows, model values that are not taken for others).
`PercentileIsNearestRank` is about an operator. Every safety invariant and action
property that a passing run checks is proved.

| Theorem | For | Says |
|---|---|---|
| `TypeCorrect` | any workers, operators, faults | `TypeOK` |
| `RowsStayConsistent` | the same | `RowConsistent` |
| `ResolvedBeforeAnyAnnouncement` | the same | `ResolvedBeforeAnnounced` |
| `LockExcludes` | any workers, operators, faults without `ttl` | `LockedSectionExclusive` |
| `SoloImplementsMonitor` | one worker, operators who only acknowledge, any faults | `ImplementsMonitor` |
| `SoloAlertsOnce` | the same | `AlertsOnce` |
| `SoloDownHasIncident` | the same, recovery threshold above 1 | `DownHasIncident` |
| `SoloOneIncident` | one worker, any operators and faults, `ResolvedIsFinal` | `AtMostOneActiveIncident` |
| `SoloWithoutOperators` | one worker, no operators, any faults | all of these, with no hypothesis on the behaviour |
| `FleetImplementsMonitor` | any workers and faults, operators who only acknowledge, `ActingApart`, `StartsFresh` | `ImplementsMonitor` |
| `FleetDownHasIncident` | the same, recovery threshold above 1 | `DownHasIncident` |
| `LockedImplementsMonitor` | any workers, operators who only acknowledge, faults without `ttl`, `NoneShortCircuited`, `StartsFresh` | `ImplementsMonitor` |
| `ApartAlertsOnce` | any workers and faults, operators who only acknowledge, `ActingApart` | `AlertsOnce` |
| `LockedAlertsOnce` | the same, faults without `ttl` and `NoneShortCircuited` for `ActingApart` | `AlertsOnce` |
| `ApartOneIncident` | any workers, operators, faults, `CreatesApart`, `ResolvedIsFinal` | `AtMostOneActiveIncident` |
| `LockedOneIncident` | the same, faults without `ttl` and `NoneShortCircuited` for `CreatesApart` | `AtMostOneActiveIncident` |
| `SoloHealthyHasNoIncident` | one worker, operators who only acknowledge, faults without `db`, `crash` | `HealthyHasNoIncident` |
| `SoloDownWasAnnounced` | the same, recovery threshold above 1 | `DownWasAnnounced` |
| `SoloOpenOnlyWhenDown` | one worker, operators who only acknowledge, faults without `db`, `crash`, `redis` | `OpenOnlyWhenDown` |
| `JobsMoveCircuitAtOnce` | any workers, operators, faults | `KeysSpec` of `CircuitKeys` |
| `OverlapsOutliveTheLock` | any workers, timeout, retries, and probes and queries of any length | types, `OverlapOutlivesLock` |
| `CircuitIsTyped`, `CooldownIsKept`, `LastAlertTellsState` | any replicas, cooldown, faults | types, `CooldownKept`, `AlertsTellState` |
| `ApartReplicasMoveAtOnce` | any replicas, cooldown, faults, `CallsApart` | `KeysSpec` of `CircuitKeys` |
| `OneReplicaMovesAtOnce` | one replica, any cooldown, faults | the same |
| `QuietRoundsAreExact` | any services, intervals, replicas, edits, failures | types, `QuietRoundIsExact` |
| `ProbesAreBounded` | any timeout, any number of chunks | types, `DurationBounded` |
| `EditsKeepIncidents` | any thresholds, edited at any time | types; an incident is active exactly while the status is DOWN or RECOVERING |
| `FamiliesHaveOneToken`, `TokensAreTyped` | any requests, tokens, losses | `FamilyHasOneToken`; types, and that what is in use has been stored |
| `SessionGoesOn` | the same | `SessionContinues` |
| `TenantsAreAdministered` | any users, requests, tenants, cuts | types, `TenantIsAdministered` |
| `ScrapesAreComplete` | any services, scrapes, checks, changes | types, `ScrapeComplete` |
| `AuditTellsWhatWasDone` | any users, handlers, requests, losses | types, `AuditTellsHistory` |
| `WalksMissNothing` | any page size, rows, clock | types, `WalkMissesNothing` |
| `ReportsAreConsistent`, `PercentileIsNearestRank` | any latencies, checks, incidents, clock | types, `ReportIsConsistent`; what `getPercentile` gives |
| `RowsAreShown`, `SelectionIsListed`, `StoredNameIsOwn` | lists of any length, any services, organisations, names, tabs | types, `EmptyPageOnlyAfterShrink`, `SelectionListed`, `NameIsOwn` |
| `SessionsAreWhole` | any tabs, any number of moves | types; stored token, user and cookie go together |
| `LivePartsAreTyped`, `SafePartsAreTyped` | the parts of `MCLiveParts` and `MCSafeParts`, each for any values of its constants | `TypeOK` of the composition |

The hypotheses are the code's own limits and not the proofs'. Those on the behaviour
name what the code does not exclude, and each is the way in of a violated property:

- `ActingApart`: of the jobs that have begun to use the row they read and have not
  stored it yet there is one at most. The lock sees to it (`LockKeepsApart`), except
  for short-circuited jobs, which do not take it (`NoneShortCircuited`,
  `hc_two_incidents`), and for a lock that expires under its holder (`ttl`,
  `lock_retries`). `CreatesApart` asks the same of the one call that creates an incident.
- `StartsFresh`: a job begins to act with the row as it is. `process` reads the row
  before it takes the lock, so a job that was overtaken in between stores a result
  counted from an old row. What the two hypotheses take away is different: the old row
  loses results (the code really does: two replicas that read one row before either has
  the lock count one failure where there were two), but it opens no second incident and
  sends nothing twice (`ApartOneIncident`, `ApartAlertsOnce` need no `StartsFresh`).
- `OnlyAcknowledged`: no operator resolves by hand, and none acknowledges a resolved
  incident (`ResolvedIsFinal`, which `hc_resurrected` refutes). A manual resolution
  closes the incident and resets the row under a running check, which then stores what
  it counted from the row before. Acknowledging an open incident is not seen by the
  monitor (`Bystanders`): no check asks which of the two active statuses it has.
  Without operators the hypothesis holds by itself (`NobodyResolves`,
  `SoloWithoutOperators`).
- `CallsApart`: no replica reads or writes the circuit keys while another is between its
  first and last command. Where calls do overlap `CooldownKept` says what is left.

Which faults a theorem excludes is what the comment of its hypothesis
(`ChecksComplete`, `NoCallFails`) says: a crash leaves an incident open on a HEALTHY
service (`hc_left_open`).

The inductive invariants of the worker:

- `TypeInv` is `TypeOK` with `TransitionDue`: a job at the circuit call has a
  state to move the circuit to, which `TypeOK` alone does not give.
- `RowInv`: not only `row` but every job's reading and result is consistent. The
  stale reading is harmless for consistency because `NextRow` maps consistent
  rows to consistent rows.
- `ClosingInv`: a job or a request that is about to send a closing alert has an
  incident that is no longer open, and holds it, so that its identifier is not used
  again.
- `LockInv` (HealthCheck): who is in the locked section holds the lock, unless a
  held lock may expire.
- `SoloInv(w)`: the reading of a worker that acts alone is the row until it stores, its result
  is `NextRow` of it for some outcome, the incident it holds is the active one,
  and each program counter says which incidents there are. From it each step is
  a step of `MonitorSpec` or leaves its variables alone.
- `OnceInv(w)`: an alert that is about to be sent has not been sent of the incident in
  hand, and an active incident has no closing alerts. `AnnouncedInv(w)`, when checks
  run to their end: the announcement of an active incident is complete or the job is at
  it, and without an outage to store no incident stays. `BreakerInv(w)`, when nothing
  fails: the circuit is open only on a row that is DOWN or about to be moved from there
  together with the circuit.
- `BystandersInv`: what an operator holds is an incident still (`HeldInv`), so
  acknowledging it, unless it is resolved, leaves the set of active ones as it is.
- `HandsInv`: what `OnceInv` and the incidents say of the job that acts, for every
  worker; of the others nothing has to be said, because they neither hold an incident
  nor touch one (`IdleHands`).
- `FleetInv`: `SoloInv(w)` of the worker that acts, and no job at the lock has found the
  circuit open. A job enters this section of `process` knowing nothing but the row, which
  is what `StartsFresh` gives; all it does there it does alone.
- `OneActiveInv`: a job that is about to create an incident has found none, and none was
  opened since. It needs nothing of rows, locks and circuits, which is why
  `ApartOneIncident` holds beside operators who resolve and with stale rows.
- `LockInv` (CheckLock): a check younger than a lock's lifetime still holds the lock, and
  the lock lives for as long as the check is short of that age (`YoungHoldsLock`); a
  worker that checks nothing has no age. So of two checks one is that old. A delay of
  `2^(n - 2)` seconds is a natural number because that many sets there are of `n - 2`
  things (`PowerIsNat`).
- `CircuitInv`: what each program counter has read and written (`GuardInv`,
  `WrittenInv`), that the recorded time is that of the last opening (`StampInv`), who
  may have half-opened the circuit (`HalfOpenInv`), and that the alert stored last or an
  event under way tells the state (`ToldInv`).
- `CallsInv`: what the replica in a call has read of the keys is still there
  (`CallInv(r)`). Seen from outside, the state
  key keeps its old value until `opened_at` is written too, and that value is no longer
  in Redis: the refinement needs a history variable (`before`, which restricts nothing),
  and a transition that is cut becomes `Interrupted`.
- `SyncInv`: for a round that nothing disturbed, what it read is still wanted; while
  it removes, the obsolete schedulers with an id are those it has yet to remove; while it
  upserts, every service it has no more to do is right (`Progress`).
- `ProberInv`: a socket has been active at most once per stage besides the chunks
  (`ActiveByStage`), and the time gone is the timeout for each of these and the
  present silence (`TimeIsSilence`).
- `EditInv`: what a check has read of the record is still the record, only its
  thresholds may be old; a check finds RECOVERING only in an outage. Whatever
  thresholds it compares, it enters and leaves an outage where the record does.

Of the API and the dashboard:

- `FamilyInv`: tokens are numbered as they are stored, and a family by its first one
  (`StoredOnly`); a request that asks about a token came with one (`SentAlong`); a
  family that was not raced for is in the hands of one request (`OneCallToAFamily`),
  which has found the token it revokes live and issues the next one only when none of
  the family is (`RotationInHand`). Without the last, one live token would not be
  inductive: an issue would add to whatever there is. `SessionInv`: of an undisturbed
  session one request is under way at most, what it looks for and brings is live.
- `AccountInv`: each query knows what the ones before it found (`QueryInv`), the last
  administrator's demotion is excused only by those that share it (`RolesShared`) or by
  the caller the guards admitted (`CallerRules`).
- `ScrapeInv`: the gauges are those of the scrape that is alone (`GaugesFilled`): what
  it has found and not yet counted becomes what it has counted, service by service.
- `AuditInv`: actions are numbered (`Numbered`), every row tells of one (`RowsTell`),
  rows are in the order of their actions unless they were due together (`RowsOrdered`),
  and no action is without a row unless that is due or was lost (`Recorded`). The row of a
  handler between its write and its answer is due as well, or the order would break
  there.
- `WalkInv`: at least as many rows are newer than a steady row not yet given as the
  walk has asked past, so the page it is on is still to come.
- `ReportInv`: counts were right when they were taken and checks are only added
  (`CountsTell`), the percentiles are those of the ascending latencies (`Ranked`), and
  incidents that follow one another have no tick in common (`OneAtATime`): their
  downtime is an injection into the ticks gone (`DowntimeIsPast`).
- `PageInv`, `SettingsInv` and the settled list of the console: what the callback of
  each query finds stored when it comes.

A step of one job, replica or request leaves the others alone (`OtherJobs`,
`OthersKeepFamilies`), so each invariant is proved for the one that moves and for the
surroundings separately.

Only model-checked: the liveness properties `Recovers`, `Detects`, `ProbesAgain`,
`SettlesDegraded`, `LockExpires`, `ProbeComesBack`, `SchedulersConverge`, `SessionEnds`
and `EndsAsFound` (fairness is out of the prover's reach), and the five violated
properties. In `MCLiveParts` a part's fairness is asked
only while it runs, so the composition implies the safety part of each component's
specification (`EveryPartMovesAlone`), and of those in `MCSafeParts`, which have no
fairness, the whole (`EveryPartByItself`): the components' theorems hold there too.

## Not modelled

- `apps/dashboard/src/components/ui/`, close to half of the implementation's lines, is
  the vendored shadcn component library: presentation, of which the pages use a few
  buttons, tables and dialogs.
- The pages' markup, cards, charts, the simulated log stream, the counters, theme:
  what they show is derived from the cached lists; what state they keep beside it
  (page number, selection, forms, session) is in the modules above.
- `getSummary`, `findOne`, `me`, the super administrator's listings: single reads or
  two reads that change nothing.
- Throttling, correlation identifiers, exception filter, validation, logging: library
  configuration.
- The failure simulation endpoints and `apps/test`: in the models they are the target.
- Seed data, container files, generated code, the shared package's types.
- Tenant checks of the incident and service API are conditions on identities that no
  modelled step changes. `url`, `timeoutMs` and `retryCount` of a service are read once
  by a check, with its row; only thresholds and interval are edited in the models.
- Two things are left to their own modules and not composed: the check of `HealthCheck`
  with a circuit of several replicas (`Circuit` has its own abstract check), and a
  probe that never settles (`HealthCheckLive` assumes it does).

## Plan

Done: the core (`MonitorStatus` to `CheckLock`) with its proofs; the worker's other
parts (`Circuit`, `HttpProber`, `QueueSync`, `EditedThresholds`); the API's
(`RefreshTokens`, `Accounts`, `AuditLog`, `MetricsScrape`, `ServiceReport`, `Paging`);
the dashboard's (`BrowserSession`, `ListPages`, `ServiceConsole`, `TenantSettings`);
the proofs of every safety property that is checked; the circuit's refinement where
calls do not overlap; what any number of workers guarantees while they keep apart, and
what the lock contributes to that; what operators who only acknowledge leave intact.

Left, in this order:

1. Replicas whose calls overlap on the circuit: an abstract circuit that is allowed the
   overlaps `CooldownKept` names, as the promise `Circuit` keeps in every behaviour.
2. Manual resolution beside a check: an abstract monitor with an operator's reset, and
   how far a check that is under way may undo it.
