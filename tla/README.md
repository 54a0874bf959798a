# InveniOps: TLA+ models and proofs

InveniOps ingests failure signals, collapses bursts of them into work items
(incidents), and takes each work item through a workflow that ends with a root
cause analysis; a console in the browser shows it all. This directory holds
TLA+ models of the backend and of the console's logic, the TLC configurations
that check them, and TLAPS proofs about them. Paths below are relative to
`backend/src` unless they start with `docs/` or `frontend/`.

## 1. The system

```
POST /signals ─► rate limiter ─► SignalBuffer ──tick──► BullMQ queue ─► worker slots
                                 (in memory)   drainAll                    │ processBatch
                                                                           ▼
      Redis: debounce sessions, locks ◄── debouncer ──► Postgres: work_items
      MongoDB: signals ◄── insertManyIdempotent         ▲   state_transitions, rca_records
      MongoDB: time series ◄── metrics points           │
      Redis: dashboard cache, alert claims ◄────────────┤
                                                        │
POST /workitems/:id/transition, /rca ─► WorkflowService ┘ ─► cache, alert, event
escalation scheduler ─► claim ─► alert, audit row              │ Redis pub/sub
                                                               ▼
GET /workitems ◄─ dashboard projection ◄─ cache      GET /incidents/stream (SSE)
      ▲                                                        │
browser: live feed (fetch, stream, polls) ◄────────────────────┘
         incident page, RCA form, analytics panels, health banner, session
```

One Node process runs the whole backend; several replicas may share the stores.
Within a process code runs to completion between awaits; everything else
interleaves at every await. The browser is a second, single-threaded program
whose requests, streams and timers interleave with the server and each other.

### Inventory

| Component | State it keeps | Operations | Talks to | What is hard | What makes it correct |
|---|---|---|---|---|---|
| Ingestion routes (`api/routes/signals.ts`) | counters | batch submit, bulk test | rate limiter, buffer | a batch of which part is dropped is refused with that part's rest kept; resends | every accepted signal is buffered or counted as dropped |
| Signal buffer (`services/ingestion/buffer.ts`) | four severity lanes, shed state, drop counters | submit, evict, tick, sink outcome, stop, drainAll | queue (sink) | sink calls in flight while submits go on; two drains at once at shutdown | capacity, hysteresis, ceilings, eviction and drain order, full accounting, progress |
| Queue (`workers/queue.ts`, BullMQ) | jobs, attempts | add, deliver, retry, stalled check | buffer, workers, Redis | at-least-once delivery, a stalled run beside its rerun | no job disappears |
| Worker (`workers/signalWorker.ts`, `processBatch.ts`) | local state of a run | resolve, insert, count, announce, dead-letter | debouncer, MongoDB, Postgres, cache, alerts | failure or crash between any two stores | counts follow what MongoDB has, one announcement, completed means persisted |
| Debouncer (`services/ingestion/debouncer.ts`) | Redis session and lock per component | resolveBatch | Redis, Postgres | lapses, lost locks, conflicts, closes in between | one active work item per component |
| Workflow (`services/workitems/workflowService.ts`, `repositories/postgres/workItemRepository.ts`) | work item, audit trail, analysis | transition, submit RCA | Postgres, cache, alerts, events | racing requests, retries after lost acknowledgements, effects after the commit | legal trail, one analysis per close, honest answers |
| State machine, RCA rules (`domain/state`, `domain/rca`, `frontend/.../rcaValidation.ts`) | none | next state, validate, MTTR | workflow, form | the guard on CLOSED; a mirror of the rules in the browser | only legal moves; both sides refuse the same |
| Dashboard cache and projection (`repositories/redis/dashboardCache.ts`, `services/dashboard`) | ZSET of active ids, summaries with TTL | upsert, remove, read, repopulate | workflow, worker, readers | stale snapshots written late, partial loss | lists no state before it was entered, recovers by TTL |
| Alerting (`services/alerting`, `domain/alerting`) | claims in Redis | dispatch, escalate, tick | worker, workflow, webhooks | claim before send, replicas, ticks that overlap | at most once per window, overdue is escalated |
| Rate limiter (`rateLimit/tokenBucket.ts`) | buckets in Redis | check and debit | routes | cost above capacity, clocks of replicas | never more than the refill allows, an honest Retry-After |
| Real-time events and feed (`services/realtime`, `frontend/src/hooks/useIncidents.tsx`) | stream, timers, list | publish, reconnect, poll, refetch | browser | gaps, late and aborted answers | never goes back, catches up |
| Bootstrap and shutdown (`index.ts`) | steps of boot and hooks | start, shutdown | all | order of the steps, a second signal | what was accepted is drained, or the loss has a named cause |
| Configuration (`config/index.ts`) | none | parse the environment | all | rounding of fractions to slots | the buffer gets marks that fit |
| Health probes (`utils/healthProbe.ts`) | snapshot | tick, answer | stores | ticks that overlap and end in any order | a lasting outage shows |
| Metrics (`utils/metrics.ts`, `api/routes/metrics.ts`) | counters, histogram | count, scrape, report and reset | all | numbers read before and after awaits | a scrape adds up, each count is on one line |
| Analytics (`repositories/metrics`, `services/aggregation`, `api/routes/analytics.ts`) | time series | record, query | MongoDB, panels | buckets, windows, ranges that meet | nothing lost or counted twice |
| Authentication (`services/auth`, `frontend/src/hooks/useAuth.tsx`) | accounts, token in the tab | sign up, log in, check, log out | Postgres | racing signups, expiry under way | a session is earned |
| Incident page and RCA form (`frontend/src/features`) | detail, draft in session storage | load, move, type, submit, leave | API | late answers of another incident, conflicts, leaving with a draft | the server's state wins, drafts stay |
| Other views | rows, page in the URL | load, turn pages, poll health | API | superseded answers | nothing stale is shown |
| Scripts (`scripts/scenarios`, `scripts/loadtest`) | totals, samples | send, retry, wait, verify, report | API, scrapes, stores | old samples, failed checks | the figures are those of the run, what is expected is what the backend does |

## 2. The modules

| Module | Models |
|---|---|
| `SignalBuffer`, `SignalBufferProofs` | the buffer, its drains and its shutdown; its bounds, orders and books for every capacity |
| `WorkItemLifecycle`, `WorkItemWorkflow`, `WorkItemWorkflowProofs` | abstract: what the tables promise of one work item; the requests that move it; refinement, trail, analysis, answers, effects for any set of requests |
| `SignalPipeline`, `SignalPipelineProofs` | queue, workers, processBatch, debouncer; types, one work item per component, counts, announcements, completion |
| `IncidentBoard`, `DashboardCache`, `DashboardProofs` | abstract: what a served list promises; the cache's commands, writers, readers, repopulation and failures; refinement, what the cache agrees with and when |
| `AlertRules`, `Alerting` | who is alerted about what and how soon; claims, deliveries, scheduler ticks, time |
| `IncidentFeed` | the live feed of a browser with its stream, timers and fetches, and the server's stream route |
| `RateLimiter` | the ingestion buckets, on the clocks of several replicas |
| `HealthProbe` | the cached probe behind GET /health |
| `NodeLifecycle` | one process from boot to exit: boot steps, signal requests, drain, shutdowns |
| `Telemetry`, `Recorders` | the order in which scrapes and reporter ticks read and reset; histograms, percentiles, samples |
| `Sessions` | accounts, tokens, tabs |
| `ConsoleViews` | loaders of rows, the pager in the URL, the health poller |
| `IncidentConsole` | the page of one incident, its moves, form, draft and leave dialog |
| `Configuration` | environment to settings |
| `RcaRules` | the server's rules, the form's, its defaults |
| `Analytics`, `AnalyticsPanels` | series, queries, routes; what the panels derive |
| `FeedPage` | filters, pages, notices, durations, banner and dot |
| `ScenarioRuns`, `LoadReport` | what the scripts send and wait for, what they conclude; what the load test offers, measures and reports |
| `RulesProofs` | about the modules without variables: `RcaRules`, `Configuration`, `Analytics`, `AnalyticsPanels`, `Recorders`, `FeedPage`, `LoadReport`, `ScenarioRuns` |
| `Parts`, `Reactions` | side by side, as they share no state: the seven parts of which safety alone is asked; alerting and the feed |
| `PartsProofs` | about the backend's small parts: `Alerting`, `RateLimiter`, `HealthProbe`, `NodeLifecycle`, `Telemetry` |
| `ConsoleProofs` | about the console: `Sessions`, `IncidentConsole`, `ConsoleViews`, `IncidentFeed`; about `Parts` and `Reactions` |
| `SumTheorems` | sums over finite sets, over groups, images and unions of them; recursion on the natural numbers |
| `MCSignalBuffer`, `MCWorkflow`, `MCPipeline`, `MCDashboard`, `MCReactions`, `MCParts`, `MCRules` | instances for TLC; `MCRules` holds the laws of the modules without variables |

How they compose. `SignalBuffer` ends where a batch is handed to the sink;
`SignalPipeline` starts with the jobs that came out of it. A signal that was
refused as part of a batch but kept in the buffer is sent again with its id, so
the instance of the pipeline has one signal in two jobs (or twice in one).
`NodeLifecycle` has the buffer as a bounded set and adds what surrounds it.
`SignalPipeline` and `WorkItemWorkflow` meet in the work item: the pipeline sees
it active or closed (`CloseItem`), the workflow sees no signals. The workflow has
its cache write, alert and event as one await each; `DashboardCache` and
`Alerting` take the inside of two of them apart, and `IncidentFeed` goes on
where the third ends, relying on `EventsFollowCache`. `Alerting` extends
`AlertRules`; `AnalyticsPanels` extends `Analytics`, from which its rows come.
`Parts` and `Reactions` put side by side what shares no state; each behaviour of
theirs is one of every part. Modules without variables are checked by `MCRules` and proved about where their
claims need no induction over data.

Definitions named `Faulty...` are seeded faults. No specification uses them;
`PROJECT.json` names, for every property of every passing run, one of them with
which the property must fail.

### SignalBuffer

`lane` is `queues`, one sequence per severity in arrival order; `state` is
`normal` or `shedding`; `dropped` the counters by severity and reason;
`inFlight[d]` the batch that the open sink call of drainer `d` (the tick, or a
run of the shutdown hook) holds. `Submit` is `submit` in one step, since
JavaScript does not yield in it: refused by the ceiling, refused by a full
buffer, pushed, or pushed for a P0 after the oldest signal of the least urgent
lane was evicted. `DrainTick` is the interval callback with its `draining` flag,
`DrainAllStep` an iteration of `drainAll`, `SinkSucceeds` and `SinkFails` the
settling of the promise. `Recompute` (hysteresis) is applied by each step that
changes the size. The fill fractions of the configuration appear as whole marks
(`HighMark`, `LowMark`, `Ceiling`), which is what comparing `size / capacity`
with them comes to; that the marks meet `BufferAssumption` for whatever
environment the process accepted is `StartedMarksFit` of `RulesProofs`.
`arrived` numbers the signals, `delivered` is a history variable.

### WorkItemLifecycle and WorkItemWorkflow

`state`, `rcas` and `audit` are the tables' content for one work item. A request
is `new`, `commit`, `cache`, `alert`, `publish`, `done`: each is an await of
`transitionWorkItem` or `submitIncidentRca`. `Read` is `findById` and the
verdict of the state graph on the snapshot; `Commit` the guarded transaction
(UPDATE ... WHERE state = fromState, the audit row, the analysis), `Conflict`
the same when no row matched; `CommitFails` and `CommitUnacknowledged` what
`withPostgresRetry` cannot tell apart. `CacheWrite`, `Dispatch` and `Publish` are
best effort and never fail a request. `Crash` ends a request anywhere.
`RecordEscalation` is the row that a tick of the scheduler adds, whatever the
state is by then. The event's claim key, `SET NX`, is `claimed`; its window (24 h)
does not pass here (it does in `Alerting`). A valid analysis implies
firstSignalAt <= start <= now, so neither the MTTR's clock-skew error nor a
second `rca_records` row can be reached from here; both are left out.

### SignalPipeline

`items` is `work_items` in insertion order (component, active, signal_count and,
as a history variable, how often its creation was announced), `stored` the
workItemId of each document in MongoDB, `session` and `lock` the debouncer's two
Redis keys per component, `status`, `holder` and `attempts` a job as BullMQ keeps
it, `run[w]` the local variables of the run in slot `w`. The places of a run are
the awaits of `resolve` (session, lock, poll, find, create, refind, seed), then
`insert`, `count`, `announce`, `finish`. The bulk insert is unordered and goes
document by document, so two runs can split a batch between them. `Throw` and
`CountFails` end an attempt at any await, `Crash` a slot, `Stall` takes the job
from a run that goes on. `Requeue` is BullMQ's stalled check, which puts a job that
nobody holds back once (`stalls`, `MaxStalledCount`); a second time it is failed
without a run (`FailStalledOut`), and forwarded only if no attempt was left.
`CreateUnacknowledged` and `CountUnacknowledged` are
retried commits. A session's count and age, which end its validity, are the one
action `SessionLapses`.

### DashboardCache

`row` is the state of each work item in Postgres, `summary` its hash with a TTL,
`listed` the ZSET without one. A cache write is two Redis commands that leave
together: `sent[a]` holds what Redis has yet to run, `Execute` runs one,
`LoseCommand` loses one, so that commands of other connections run in between. A
writer commits, sends, and publishes once its write was answered; a reader goes
through the awaits of `getActiveIncidents`, `getIncidentDetail` or
`incidentExists`: the empty-set check, the snapshot from Postgres, its
write-back, the page, each missing summary looked up and filled in. `raced` is
set when a write was lost or left the cache with another state than the row had
when it ran. `Implements` is `IncidentBoard`'s specification of `page`, the
list that was served last: an entry changes only to a state that the item has
entered.

### Alerting and AlertRules

An actor is a call under way: a dispatch of a worker or request, or a tick of a
scheduler in whichever replica (`setInterval` does not wait for the last tick).
Claims are keys with a TTL: `SET NX EX` of an event is one step, `SADD` and
`EXPIRE` of an escalation are two, with `RedisFails` and `Die` between any two
steps. `Query` takes the candidates by the widest cutoff, `IsOverdue` is
`maybeEscalate`'s check by the reconciled severity, after it come claim,
deliveries with retries per channel (the console's cannot fail), and the row.

### IncidentFeed

`version` counts the changes that the list endpoint serves; a page is a version.
`Mount` fetches and opens the stream; `Change` publishes to a stream that the
server has subscribed; `OnIncidentEvent` starts the debounce timer; `StreamFails`
waits and reconnects or, after `MAX_SSE_RETRIES`, polls; a fetch that is
superseded is aborted, while the server may still answer it. The list endpoint is
taken to answer with what it last knew of, which is what `DashboardCache` grants
as long as no cache write was lost or raced.

### Parts

- `RateLimiter`: `Check` is the Lua script over the bucket of the IP and the
  global one, in one step, at the caller's clock; `regained` sums up how far a
  slower clock set `ts` back.
- `HealthProbe`: the first tick starts at once, and `start()` sets the interval when
  it has ended; from then on a tick starts every interval whether or not the last
  one ended; a check settles or times out; the snapshot is replaced when all of a
  tick's checks have settled.
- `NodeLifecycle`: `boot` is what `main()` waits for; requests arrive once the
  server listens, and until it has closed; each SIGTERM or SIGINT runs the hooks
  of its own: stop timers, `drainAll`, stop the workers, close the server, exit.
- `Telemetry`: a scrape reads counters, waits, and reads the rest; a reporter
  tick resets the throughput and latency recorders around its own awaits, and
  may fail in between. Of the buffer it has the sums: what waits, what the sink
  holds (`Pop`, `SinkAnswers`), what was dropped or handed on.
- `Sessions`: a signup inserts under a unique index and may lose the
  acknowledgement; a token is signed, expires, is carried by requests and
  refused; the tab keeps it in memory only. A tab that had a session and has none
  sends requests without a token (`CallApi`), which are refused like any other.
- `ConsoleViews`: one loader with its inputs, aborts and pages, and the health
  poller whose effect is run again by a retry.
- `IncidentConsole`: `get` and `post` are the requests of the page, `form` the
  RCA form, `draft` the session storage, `parked` the navigation that the leave
  dialog holds back. Incidents stand at a rank from 0 (OPEN) to 3 (CLOSED).

### Modules without variables

`AlertRules`, `RcaRules`, `Configuration`, `Analytics`, `AnalyticsPanels`,
`Recorders`, `FeedPage`, `LoadReport`, `ScenarioRuns` are pure functions, with
what their callers rely on stated as operators at the end of each module. A time series is a set of
documents; a MongoDB pipeline is what it computes of one; an average is a
fraction, so that nothing is rounded. Fractions of the configuration are in
thousandths.

## 3. The runs

| Run | Instance | Shows | Distinct states |
|---|---|---|---|
| `buffer` | 3 slots, marks 2 and 0, batches of 2, one hook, 5 signals | the eight properties of the buffer (below) | 399781 |
| `workflow` | 3 requests in 3 workloads, 2 attempts, Postgres and crashes, 4 rows | trail, answers, announcements, refinement, progress | 284218 |
| `workflow_redis` | the same with Redis failing | effects never run ahead of the commit, never twice | 288110 |
| `closed_in_cache` | nothing fails | finding 1 | violation |
| `conflict_after_commit` | Postgres | finding 2 | violation |
| `pipeline` | 2 slots, 2 jobs that share a signal, 2 components, one close, one failure of any of five kinds | types, one work item per component, counts, completion | 1800048 |
| `pipeline_retries` | 2 bursts of one component, 2 outages or crashes | announced once, every job settles | 137659 |
| `counted_twice` | a signal id twice in one job, nothing fails | finding 3 | violation |
| `never_announced` | two jobs share a signal, nothing fails | finding 4 | violation |
| `dashboard` | one work item, to be created or to be closed, 1 writer, 2 readers, 2 commits, one Redis failure, crash or flush | cache and tables, the promise of the list, convergence | 508347 |
| `reactions` | alerting: 2 actors, a window of 2, time to 3, one failure or crash; feed: 2 fetches, 1 retry, 2 changes, 3 failures, 1 visit | claims, escalation, the feed, in the end too | 179691 |
| `parts` | eight parts of safety only, and the laws of `MCRules` | see below | 1419685 |

*Bounds.* The buffer's three slots are the least with room between the marks, a
ceiling of each kind (2, 1, 0) and a full buffer; five signals fill it, overflow
it and evict twice; two drains run at once. Two requests suffice for a race in
the workflow, three for a race followed by a move on what the winner left; the
workloads are the three moves in a row, a race for one move, and asks that the
graph or the guard refuse. Two slots and two jobs give the pipeline every pair of
a run with its rerun or with another job; one close gives a component a second
work item. In the dashboard a writer beside two readers is a write-through that
overtakes, or is overtaken by, a write-back and a repopulation; items share no
key but the set, and one item suffices for each entry of it. Two alerting actors
are a tick beside a tick or a dispatch; the window of 2 passes within the time
of 3. The feed has a fetch that is superseded by another, and enough failures to
give up on the stream, poll, and lose an event. In `parts` time runs past every
interval and timeout, ticks of the probe overlap (interval 1, timeout 2; how the
first tick delays the others where none overlap is in the theorem, for every
interval and timeout), buckets empty and fill, the node gets both signals at any
point of boot or shutdown, two tabs race for one address, the pager has a second
page, the page of an incident meets a conflict, a failing call, a logout, a
reload and a jump. Every `Max...` bounds a model only; each is in the guard of
the action it bounds. `CHECK_DEADLOCK FALSE`: requests get their answers, jobs
their ends, submissions run out, processes exit.

Parts that share no state are instances of one run each (`reactions`, `parts`),
`MCReactions` of `Reactions` and `MCParts` of `Parts`: a variable `part` picks one
in the initial state, and a behaviour moves this one only, so that the state space
is the sum of the parts' and not their product. That every part of such a
composition behaves as it does alone is proved (`PartsImplementEach`,
`ReactionsImplementBoth`).

*Fairness.* Buffer: the interval fires and a sink call of it settles. Workflow:
a request's next step happens if it can (a call that does not fail is answered).
Pipeline: a slot's next step happens, the stalled check requeues or fails, the
`failed` handler forwards. Dashboard: Redis runs what it is sent, TTLs pass, whoever is
under way goes on. Alerting: time passes, calls go on, and a scheduler's timer
starts a tick again and again (strong, as an actor is free only between calls).
Feed: timers fire, the server answers and accepts streams; that some answer
arrives before it is superseded is strong fairness, since polls and presses of
the button abort what is open, and a server that always takes longer than
`POLL_INTERVAL_MS` would never be heard. No failure, lapse, close, press or
client call is ever obliged to happen, and shutdown's sink calls are not obliged
to settle (`queue.add` waits for Redis without limit).

### Properties

Each is stated in words above its definition.

- Buffer: `CapacityBound`, `Hysteresis`, `CeilingHolds`, `EvictionOrder`,
  `DrainPriority`, `EverySignalAccounted`, and under fairness `SignalsLeave`.
- Workflow: `AuditChain`, `AnswersAreHonest`, `AnsweredMeansAnnounced`,
  `EffectsFollowCommit`, `Implements` (the abstract lifecycle, with it one
  analysis per close), `EveryRequestAnswered`.
- Pipeline: `OneWorkItemPerComponent`, `CountsArePersisted` (signal_count and
  MongoDB agree up to what runs under way will add; only an attempt that ends
  between insert and increment loses counts, only a lost acknowledgement of an
  increment doubles them), `AnnouncedOnce`, `CompletedIsPersisted`, `JobsSettle`.
- Dashboard: `QuietCacheAgrees` (a ghost or a stale summary comes of a lost write
  or of one that ran after a later commit, of nothing else), `EventsFollowCache`,
  `Implements` (the board), `SummariesConverge` (the TTL repairs what was lost).
- Alerting: `ClaimsApart` (no second send or escalation within a window, whatever
  fails between `SADD` and `EXPIRE`), `InTimeNeverEscalated` (although a tick
  works from a snapshot), `OverdueIsEscalated`.
- Feed: `FeedKeepsUp` (never an older page over a newer one; stream or timers,
  never both; every change shown in the end, or an error, or its event was lost
  under an open stream, which nothing repairs before the next event).
- `BucketsKeepTheirWord` (no more granted than held and gained, plus what clocks
  behind give back; who waits for Retry-After is not refused by that bucket, if
  the batch fits in it at all), `HealthShowsOutages`, `LossesHaveACause` (after
  exit 0 a signal answered 202 is in a job, or counted as dropped, or lost in one
  of three named ways), `ScrapeAddsUp`, `SessionsAreEarned`, `NothingStaleShown`,
  `ServerStateWins`, `DraftsKept`.

The laws of the modules without variables are the named assumptions of `MCRules`:
TLC evaluates them over samples before `parts` starts, and the run fails with a
false one; `RulesProofs` proves many of them of every input (section 4). `RcaLaws`: form and server refuse the same fields. `ConfigurationLaws`:
marks fit for capacities and fractions at and beside their bounds. `SeriesLaws`:
ranges that meet count every document once, windows have five rows at most,
answers lie in the range asked for, every signal of a batch is in a point, boots
converge. `PanelLaws`: ranges have tens of buckets, addresses are safe, charts
draw every count, a selection is one of the series, the ranking is an order.
`RecorderLaws`: histograms stay cumulative, percentiles cover their share,
samples of a scrape are distinct, a bump counts one. `LoadLaws`: the figures of a
report are those of its run, read by the names the backend renders, and the drain
is what the samples show. `ScriptLaws`: retries are bounded, ramps go up, the
expected alerts are those `AlertRules` sends, the templates pass `RcaRules`, and
the replay closes what is OPEN. `FeedLaws`: pages show every
row once, an empty list is explained, durations are close, banner and dot agree.

### Findings

1. `closed_in_cache`: a transition's cache write that lands after a close's
   removal puts the closed incident back into the active set, which has no TTL.
2. `conflict_after_commit`: the author of a commit whose acknowledgement was lost
   is answered 409, and the change is neither cached, alerted nor published.
3. `counted_twice`: two signals with one id in one job are stored once and counted
   twice (`processBatch.ts` 110-117). Signals also go *un*counted when an attempt
   ends between the insert and the increment: `CountsArePersisted` marks the
   border.
4. `never_announced`: a work item created by one job and first counted into by
   another is announced by neither.

Met while modelling, and stated by the border of a property rather than by a run
of their own:

- An escalation whose call fails between the claim and the alert is lost while
  the item stays OPEN: each later tick renews the window (`OverdueIsEscalated`
  is of behaviours without such trouble).
- After a partial loss of the cache the set is not empty, and what is missing is
  not repopulated before its next write (`QuietCacheAgrees`).
- With the default limits a batch of more than 50 is refused for good by a bucket
  of 50, with a Retry-After (`RetryAfterIsEnough` excludes such a cost).
- The first boots of two replicas race in `ensureCollections`, which its comment
  calls safe on every startup; one of them exits (`SeriesConverge`).
- A tab that goes straight from one incident's page to another's keeps the form,
  which then saves the one's text as the other's draft (`jumped`).
- `lib/api.ts` logs the tab out for a 401 of any request, also one of an earlier
  session of the tab (`SessionsAreEarned` speaks of the tab's tokens, not of the
  present one).
- A callback of a page that is gone (`StateMachineControl.tsx:52`, `RcaForm.tsx:235`)
  still refetches after a logout, without a token; its 401, if it arrives after the
  next login, ends that session (`SessionsAreEarned` calls it "stray").
- A job whose runs died or stalled twice is failed by BullMQ (`maxStalledCount` is
  left at 1) with attempts left: the `failed` handler takes it for one that "BullMQ
  will retry ... automatically" (`signalWorker.ts:76-81`), so its signals are neither
  stored nor in the dead letter queue (`JobsSettle` lets only such a job end so).
- The defaults of the RCA form are refused in the first minute of an incident
  (`DefaultsNeedAMinute`).
- An interval that is pinned in the address is kept in a longer range: 1 minute in
  7 days asks for 10080 buckets (`BucketsAreTens` excludes it).
- An empty `BUFFER_LOW_WATER_MARK_FRACTION` counts as 0, and an empty webhook
  address ends the boot (`Configuration`).
- The legend of the MTTR panel says 4 buckets, the window has 5 rows
  (`WindowIsBounded`).
- The load test takes the queue for drained after three looks at the last sample;
  when the scrapes after an empty sample fail, that one is looked at three times
  (`DrainWasSeen`).
- A replay that fails half-way cannot be repeated: its first move is refused
  (`ReplayClosesOpen`).

## 4. The proofs

Each theorem holds for every value of the constants that meets the named
`ASSUME`s of its module, any number of requests, slots, actors, tabs and failures
with them. An inductive invariant is named after its component (`...Inv`), and was
checked by TLC on the instance of the run before it was proved.

### The buffer (`SignalBufferProofs`)

`TypeOK`, `CapacityBound`, `WatermarkState`, `CeilingHolds`, the flips, and from
them `Hysteresis`. The inductive invariant is `IInv == TypeOK /\ CapacityBound /\
WatermarkState`: the capacity bound needs the types (lengths of lanes), and the
flips need the watermarks before the step. The lemmas say what a pop takes and
leaves, and how replacing one lane changes the size.

`EvictionOrder` and `DrainPriority` need that every lane is in the order of
arrival (`OrderInv`, by which a lane's first signal is its oldest, and what
arrives next is younger than all). A batch is the end of a chain of four lanes,
each of which gives what is still free: `TakesInTurn` and `TakesFill` say in
which order and how many, `BatchHolds` which signals. `EverySignalAccounted` is
proved with the sums of `SumTheorems`.

### Sums (`SumTheorems`)

`MapThenSumSet` is a fold, defined by recursion over the set. What is proved of
it needs no induction schema: were there a subset of a finite set on which two
functions that satisfy the recursion differ, there would be a least one
(`LeastSubset`, from the library's well-founded order on finite sets), and its
smaller neighbour gives the contradiction. From this: the sum exists, is a
natural number, and changes by what its one changed summand changes. What holds
of the empty set and of one element more holds of every finite set, again by a
set of counterexamples (`OneMore`); so a sum is that of its groups' sums
(`SumOfGroups`), of an image, of ones, of a union of sets that share nothing.
Recursion on the natural numbers goes the same way: a set of them has a least one
(`LeastNumber`), so that what a recursion goes through is there and unique
(`EndlessWay`).

### The workflow (`WorkItemWorkflowProofs`)

`TypeOK`; that every step of `WorkItemWorkflow` is a step of `WorkItemLifecycle`
or leaves the tables alone (`Implements`); `AuditChain` and `RcaIffClosed`, proved
of the lifecycle and carried over by the refinement; `AnswersAreHonest`;
`EffectsFollowCommit` and `AnsweredMeansAnnounced`. The refinement needs one fact
beyond types, `Decided`: a request that is at its write was permitted by the
graph from the state it saw, so that the guarded UPDATE, which compares that
state, makes a legal move. The lifecycle's own invariant (its types, the chain
and the analysis rule) is inductive as it stands. `AnswersAreHonest` needs that a
request which is still to commit and wrote already (a lost acknowledgement) finds
the state past the one it saw, so it cannot write again: `HonestInv`. The effects
rest on all of it: a state is entered by one request (the chain has one row that
moves to it), so until that request is at its alert nobody else has claimed the
state's key (`EffectsAwait`), and whatever was claimed is not ahead of the tables
(`EffectsInTime`).

### The pipeline (`SignalPipelineProofs`)

- `TypeOK`. `TypeInv` adds what makes it inductive: a run under way has a job, it
  resolves only while a signal is left and persists only when none is, it seeds a
  session with a work item it found (`Shaped`); a held job is active, and one
  that may still run has an attempt left (`QueueShaped`).
- `OneWorkItemPerComponent`. The unique index alone keeps a second row out; that
  sessions and documents name work items of their own component needs the same of
  the links of every run and of what it is about to seed (`Own`). Rows keep their
  component and are never removed (`Extends`), so links stay right.
- `AnnouncedOnce`. `OnceInv`: a row is in the `made` of one run at most, nothing
  a run made is announced before that run announces, and what a run is about to
  announce has a count.
- `CompletedIsPersisted`. `KeptInv`: from the increments on, a run's whole batch is
  stored; documents never lose their link.
- `CountsArePersisted`. `CountsInv`: the count and what runs will add (`Total`)
  bound the number of documents from both sides, and a document that a run found
  fresh is linked. An insert adds one document and one to the sum of the pending
  increments, an increment moves a part of that sum into the count. That no
  document is left out holds for all batches (`NoDocumentLeftOut`); that none
  counts twice needs batches without a signal twice, `DistinctBatches`: the run
  `counted_twice` (finding 3) shows the violation with one that has. The run
  `pipeline`, which checks the property, has distinct batches.

### The dashboard (`DashboardProofs`)

`Implements` (the board): nothing that was read from the tables, by whomever and
whenever, is ahead of them (`NoneAhead`: summaries, commands on their way, what
writers and readers hold), so that an entry of the page is a state that was
entered. Each step of the cache is a step of the board that serves a page or
moves a row, or leaves both alone. `QuietCacheAgrees` and `EventsFollowCache`
rest on `CacheInv`: while nothing raced, what the cache says of an item is what
its row says, or the command that brings it there has yet to run (`Reconciled`),
and what was announced, or is about to be, is visible to whoever asks (`InOrder`).

### The backend's small parts (`PartsProofs`)

- `ClaimsApart`: a claimed key lasts for a window from its claim on
  (`ClaimedKeysLast`). `InTimeNeverEscalated`: the clock of a tick was read before
  the row was, so whoever is about to escalate, or did, was late (`OnlyTheLate`).
- `LossesHaveACause`: a signal answered 202 is buffered, with a sink call, in a
  job, or counted (`AckedIsSomewhere`); only a hook that drains holds a batch
  (`HooksHoldNothing`); behind a drain that ran dry the buffer holds what came
  after it (`LeftIsLate`); and an exit with 0 is after one (`ExitAfterDrain`).
- `ScrapeAddsUp`: at any time no more is dropped, buffered or accepted than was
  received, also of what a scrape has read so far (`Accounts`), and what it reads
  later is only greater; the recorders, the ticks under way and the lines hold
  each count once (`LinesAddUp`, a sum over the ticks).
- `BucketsKeepTheirWord`: the refill by a clock that is not behind gives what the
  time between is worth, capped; with a hint, what the bucket holds and will gain
  until then covers the cost, and a debit by another ends the promise
  (`HintHolds`). Products of rates and times are proved about one at a time.
- `HealthShowsOutages`: a tick that began after a dependency's last change has it
  right (`LaterTicksKnow`); once one has begun that no older tick outlives, the
  snapshot is right, or the first of these is still to end (`SnapshotFollows`).
  What changed during the first tick waits for the second, one interval after the
  end of the first (`LastSet`): a timeout more.

### The console (`ConsoleProofs`)

- `SessionsAreEarned`: a token that a tab holds was signed for the address that
  the tab gave, an answer "stored" or "ok" means that the password was the
  account's (`AskIsEarned`), accounts are never changed. While a request without a
  token is under way, its tab had a token before the one it has now (`StrayInv`):
  tokens are signed once and each is delivered once, so a login brings a new one.
- `ServerStateWins`, `DraftsKept`: of the page's calls only the last is awaited
  (`GetsAwaited`), what it brings is of the route's incident and no older than
  the last move that was answered (`NothingOlder`); a form and a draft are of the
  incident they were written of (`FormIsOwn`, `DraftsAreOwn`), in a tab that has
  not jumped.
- `NothingStaleShown`, the views (`ViewsShowNothingStale`): of a loader's calls
  all but the last are aborted (`CallsAwaited`), of the poller's runs all but the
  last neither ask nor wait (`LastRunPolls`), what the last found is no older than
  what is shown, and the back-off keeps within its cap: a power of two is positive
  whatever the exponent, by the recursion of `SumTheorems`.
- `FeedNeverGoesBack`, the safety of `FeedKeepsUp`: all fetches but the provider's
  last are aborted, its page is no older than the one shown (`FetchAwaited`,
  `PagesAreRead`), and stream and timers end with the provider (`FeedRests`).

`PartsImplementEach` and `ReactionsImplementBoth`: a behaviour of what is put side
by side is one of each part, with its fairness where it has any, so that all that
is proved of a part holds in the composition; `PartsTyped` and `ReactionsTyped`
are the type invariants of the runs `parts` and `reactions`.

### Rules without state (`RulesProofs`)

These need no invariant; their theorems are arithmetic, sets, sequences and sums.

*Root causes and settings.* For every
submission, first signal and clock, form and server mark the same fields
(`Mirror`), one message for each (`OneMessage`), what is accepted has a repair
time (`AcceptedIsTimed`), and when the form's defaults are valid
(`DefaultsInTime`). Both verdicts are unions of conditional errors; two lemmas
spell their membership out, and the fields are told apart by name. For every
environment that starts, `MarksFit` and `HeadroomInOrder`: the products of
capacity and fraction are in the order of the fractions, and rounding the lower
one down and the higher one up keeps them apart.

*Series and answers.* For every interval `SpecKeepsInterval` and `BucketHolds`; for
every listing `SeriesConverge`. A count is a sum of ones over a group of documents,
and every document is in the group of its key (`CountedOnce`), so the rows of a
range sum up to its documents and ranges that meet lose and repeat none
(`NothingBetweenRanges`); in the same way the points of a batch tell of each of
its signals once (`BatchIsCounted`). Each row of an answer has the key of a
document in the range (`AnswersKeepToTheRange`). Rows of one series differ in
their buckets, so they are told apart by how many lie between them and a given
row, which in its window are four at most (`RollingWindowIsBounded`).

*Recorders.* Observing a value moves the buckets from its own on up by one
(`ObservationsStayCumulative`); a scrape renders a function from names and labels
(`ScrapeIsWellFormed`), by which it has one sample of each; a bump changes the
total by the one summand that it changes (`EventCountsOnce`).

*Panels and feed.* Every address, with whatever text, is read as one of the options
(`AnyAddressIsSafe`), the defaults ask for tens of buckets (`TensOfBuckets`), and
the ranking is an order, as fractions compare by their products
(`RankingIsAnOrder`). Pages are intervals of the feed that follow each other
(`PagesShowTheFeed`), the page in use is one of them (`SettledPageIsThere`), and
banner and dot never contradict each other (`BannerAndDotSaySo`).

*Scripts.* `OfferIsAsAsked` and `RampsGoUp` bound a rounding; `SamplesAreLate` says
how late a sampled latency may be, from the first poll that found the document: a
poll takes its time after it has looked, and may meet or miss what is stored
meanwhile, so the bound is the next poll that begins after the document is there;
`BothWaitsAgree` compares the two ways to wait on every sequence of checks.

### What is assumed, and what is model-checked only

Assumptions are the named `ASSUME`s of the modules; TLC evaluates them in the
runs. They say what the code's types and configuration grant (numbers are natural
numbers, marks are in order, some item, incident, tab, address and password
exists, the signals that stop a process are finitely many, as are the reporter's
ticks under way).

Model-checked only: what is asked "in the end" (`SignalsLeave`,
`EveryRequestAnswered`, `JobsSettle`, `SummariesConverge`, `OverdueIsEscalated`,
the last part of `FeedKeepsUp`), since the provers know nothing of fairness; and
those laws of `MCRules` that rest on folds over sequences, which a proof would have
to follow by induction over data, or on sorting (`SortSeq` belongs to TLC and has
no definition that the provers know): the percentiles
(`PercentileCovers`, `PercentileIsABound`, `SamePercentiles`), the rows and columns
of the charts (`EveryCountIsDrawn`, `NothingIsAddedUpTwice`, `SelectionIsThere`),
the filtered list (`EmptinessExplained`), and of the scripts the merged summaries,
the differences of two scrapes, the drain, the beats, the retries, the templates
and the replay. `DurationIsClose` (a text of the page) is left to TLC too.

## 5. The plan

What is left:

1. The laws on folds over sequences that TLC alone evaluates, by a recursion on
   their length as in `SumTheorems`.
2. The safety that leads up to the progress properties: that in each state that
   is not at rest some fair action can be taken.

## 6. Not modelled

BullMQ, Redis, Postgres and MongoDB are present by what the code relies on:
atomic commands, a partial unique index, guarded updates, at-least-once delivery,
the failure of a job that stalls twice. Back-off delays and the trimming of
finished jobs are left out, and the expiry of the limiter's keys 3600 s after their
last use (`tokenBucket.ts:57-59`): by then a bucket is full, as a missing one is,
unless its capacity is more than it regains in 3600 s.

Of the backend: message texts and payloads, logging, heartbeats of the stream,
the bodies of error answers and the 404 route, the field checks of
`signalValidation.ts` (a set of malformed signals stands for them), bcrypt and
signatures (their results). Products of doubles are exact here; a ceiling of the
running program may be one slot lower.

Of the console: markup, style and wording; the frame between a render and its
effect; changes of the clock (summer time) in `datetime-local` fields; in
`IncidentConsole` the refresh of a page that is gone already (`Sessions` has its
request). `StyleGuidePage.tsx` and the landing page
are static, `frontend/src/lib/api.ts` is there as what its callers see: an
answer, an abort, an error, a 401.

Of the scripts under `scripts/`, the processes they start, their files and
output, the severity mix and the ids of generated signals, and the stress of
`bulkStress.js`, whose pollers and drain are those of `LoadReport`. Tests,
migrations and deployment files are read, not modelled.
