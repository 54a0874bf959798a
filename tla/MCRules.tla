------------------------------ MODULE MCRules ------------------------------
(* The laws of the modules without variables, over small inputs: TLC       *)
(* evaluates the assumptions before the run that extends this module. What *)
(* RulesProofs proves of every input is evaluated as well.                 *)
EXTENDS Integers, Sequences, FiniteSets, TLC

LOCAL Rca     == INSTANCE RcaRules
LOCAL Config  == INSTANCE Configuration
LOCAL Series  == INSTANCE Analytics
LOCAL Panels  == INSTANCE AnalyticsPanels
LOCAL Numbers == INSTANCE Recorders
LOCAL Feed    == INSTANCE FeedPage
LOCAL Load    == INSTANCE LoadReport
LOCAL Script  == INSTANCE ScenarioRuns

-----------------------------------------------------------------------------
(* An analysis around the minute of the first signal. *)

RcaTimes == {Rca!NoTime, 0, 59999, 60000, 60001, 120000, 180000}

RcaSamples ==
  {[start |-> s, end |-> e, category |-> c, padded |-> p,
    length |-> [f \in Rca!TextField |-> IF f = "fixApplied" THEN n ELSE 10]] :
     s \in RcaTimes, e \in RcaTimes, c \in {"blank", "other", "NETWORK"}, p \in BOOLEAN,
     n \in {0, 9, 10}}

ASSUME RcaLaws ==
  \A first, now \in RcaTimes \ {Rca!NoTime} :
    /\ \A rca \in RcaSamples :
         /\ Rca!FormMirrorsServer(rca, first, now)
         /\ Rca!OneMessagePerField(rca, first, now)
         /\ Rca!AcceptedHasMttr(rca, first, now)
    /\ first <= now => Rca!DefaultsNeedAMinute(first, now)

-----------------------------------------------------------------------------
(* Capacities and fractions at and beside their bounds. *)

Thousandths(n) == [form |-> "number", n |-> n]

Env(capacity, low, high, p3, p2) ==
  [number |-> [BUFFER_CAPACITY |-> capacity,
               BUFFER_LOW_WATER_MARK_FRACTION |-> low, BUFFER_HIGH_WATER_MARK_FRACTION |-> high,
               BUFFER_SHED_CEILING_P3_FRACTION |-> p3, BUFFER_SHED_CEILING_P2_FRACTION |-> p2],
   address |-> [a \in Config!Addresses |-> "url"] @@ [w \in Config!Webhooks |-> "absent"],
   mode |-> "absent", secret |-> 32]

EnvSamples ==
  {Env(Thousandths(c), low, Thousandths(high), Thousandths(p3), Thousandths(p2)) :
     c \in {0, 500, 1000, 3000, 7000}, high \in {1, 500, 999, 1000, 1001},
     low \in {Thousandths(n) : n \in {-1, 0, 499, 500, 999}} \cup {[form |-> "empty", n |-> 0]},
     p3 \in {0, 1, 399}, p2 \in {399, 400, 699, 700}}

ASSUME ConfigurationLaws ==
  /\ \A env \in EnvSamples :
       LET config == Config!LoadConfig(env)
       IN  config.started => Config!MarksFit(config.setting) /\ Config!HeadroomInOrder(config.setting)
  /\ \E env \in EnvSamples : Config!LoadConfig(env).started
  /\ Config!LoadConfig(Env(Thousandths(20000 * Config!Unit), [form |-> "empty", n |-> 0],
                           Thousandths(800), Thousandths(150), Thousandths(400))).started

-----------------------------------------------------------------------------
(* Series of a few documents in a few buckets. *)

Spec60 == Series!ToBucketSpec(60)

Document(id, ts, component, severity, type, value) ==
  [id |-> id, ts |-> ts, value |-> value,
   dims |-> [componentId |-> component, severity |-> severity, componentType |-> type]]

SeriesSamples ==
  LET docs == {Document(1, 0, "a", "P0", "API", 2), Document(2, 59, "a", "P0", "API", 3),
               Document(3, 60, "a", "P2", "CACHE", 1), Document(4, 61, "b", "P0", "API", 4),
               Document(5, 120, "b", "P2", "API", 2), Document(6, 180, "a", "P0", "QUEUE", 1),
               Document(7, 240, "a", "P0", "API", 5), Document(8, 420, "a", "P0", "API", 7),
               Document(9, 480, "b", "P0", "API", 1)}
  IN  {docs \ gone : gone \in {g \in SUBSET docs : Cardinality(g) <= 2}}

ASSUME SeriesLaws ==
  /\ \A i \in (1..130) \cup {3600, 5400, 7200, 86400, 90000, 172800} :
       /\ Series!SpecKeepsInterval(i)
       /\ \A ts \in {0, 1, 59, 60, 3599, 3600, 86399, 86400} :
            Series!BucketHolds(ts, Series!ToBucketSpec(i))
  /\ \A s \in SeriesSamples :
       /\ \A middle \in {0, 59, 60, 61, 300} : Series!RangesMeet(s, 0, middle, 300, Spec60)
       /\ \A r \in Series!QueryMttrTrend(s, 0, 600, Spec60, "severity") :
            Series!WindowIsBounded(Series!QueryMttrTrend(s, 0, 600, Spec60, "severity"), r)
       /\ Series!EverySignalHasAPoint(s, 0)
       /\ \A from, to \in {0, 61, 300}, given \in SUBSET {"from", "to", "interval", "groupBy"} :
            Series!AnswersAreInRange([from |-> from, to |-> to, interval |-> 90,
                                      groupBy |-> "severity", given |-> given], s)
  /\ LET names == {Series!AllSeries[n] : n \in DOMAIN Series!AllSeries}
     IN  \A existing \in SUBSET names : \A listed \in SUBSET existing :
           Series!SeriesConverge(listed, existing)

PanelAddresses ==
  [range : {"", "15m", "1h", "6h", "24h", "7d", "other"},
   interval : {"", "1m", "5m", "15m", "1h", "6h", "other"}]

HealthRows ==
  {[avg |-> a, open |-> o, incidents |-> i] : a \in {<<-1, 1>>, <<1, 2>>, <<2, 3>>, <<3, 2>>},
                                               o \in 0..1, i \in 1..2}

ASSUME PanelLaws ==
  /\ \A address \in PanelAddresses :
       /\ Panels!BucketsAreTens(address, 10 * Series!Day)
       /\ \A key \in {"15m", "7d", "other"} : Panels!AddressIsSafe(address, key)
  /\ \A s \in SeriesSamples :
       /\ Panels!NothingIsAddedUpTwice(s, 0, 300, Spec60)
       /\ \A by \in {"severity", "componentType"} :
            LET trend == Series!QueryMttrTrend(s, 0, 600, Spec60, by)
            IN  /\ Panels!EveryCountIsDrawn(s, 0, 300, Spec60, by)
                /\ \A v \in {"", "P0", "P3", "QUEUE"} : Panels!SelectionIsThere(trend, by, v)
  /\ \A a, b, c \in HealthRows : Panels!RankIsOrder(a, b, c)

-----------------------------------------------------------------------------
(* Observations at the bounds of the buckets; snapshots of a process that  *)
(* just started, and of one that has dispatched.                           *)

Histograms[n \in 0..3] ==
  IF n = 0 THEN {Numbers!Empty}
  ELSE Histograms[n - 1] \cup {Numbers!Observe(h, v) : h \in Histograms[n - 1],
                                                       v \in {-5, 10, 11, 10000, 10001}}

ScrapeSamples ==
  LET none == [s \in Numbers!Severities |-> 0]
  IN  {[received |-> none, accepted |-> none,
        dropped |-> [s \in Numbers!Severities |-> [r \in Numbers!DropReasons |-> 0]],
        depth |-> none, fill |-> 0, queue |-> [waiting |-> 0, active |-> 0, dlq |-> 0],
        jobs |-> [processed |-> 0, failed |-> 0], items |-> items, alerts |-> alerts,
        escalations |-> 0, latency |-> h] :
         items \in {<<>>, [OPEN |-> 1]}, h \in Histograms[1],
         alerts \in {<<>>, Numbers!Bump(<<>>, "slack", "failed"),
                     Numbers!Bump(Numbers!Bump(<<>>, "slack", "failed"), "console", "delivered")}}

ASSUME RecorderLaws ==
  /\ \A h \in Histograms[3] : /\ Numbers!Cumulative(h)
                              /\ \A v \in {0, 25, 26} : Numbers!ObserveKeepsCumulative(h, v)
  /\ \A n \in 0..4 : \A samples \in [1..n -> {1, 2, 5}] : \A p \in {50, 99} :
       Numbers!PercentileCovers(samples, p)
  /\ \A input \in ScrapeSamples :
       /\ Numbers!SamplesAreApart(input)
       /\ \A o \in {"delivered", "failed"} : Numbers!BumpCountsOne(input.alerts, "slack", o)

-----------------------------------------------------------------------------
(* Feeds around the size of a page, addresses with and without a match.    *)

FeedSamples ==
  {[n \in 1..k |-> [id |-> n, severity |-> IF n % 2 = 0 THEN "P0" ELSE "P1",
                    state |-> "OPEN", componentType |-> "API"]] : k \in {0, 1, 2, 3}}

ASSUME FeedLaws ==
  /\ \A k \in {0, 1, 24, 25, 26, 50, 51, 76} :
       /\ Feed!PagesShowAll([n \in 1..k |-> n])
       /\ \A page \in 1..5, changed \in BOOLEAN : Feed!PageIsThere(page, k, changed)
  /\ \A feed \in FeedSamples, loading, error \in BOOLEAN :
       \A address \in {<<>>, [severity |-> "P0"], [severity |-> "P9"], [state |-> "CLOSED"],
                       [severity |-> "P1", componentType |-> "API"], [severity |-> ""]} :
         Feed!EmptinessExplained(feed, address, loading, error)
  /\ \A s \in (0..130) \cup {3569, 3570, 3599, 3600, 5000, 86369, 86370, 86399, 86400, 90000,
                             172799} : Feed!DurationIsClose(s)
  /\ \A up \in SUBSET Feed!Stores, shedding \in BOOLEAN,
        phase \in {"checking", "reachable", "unreachable"} :
       /\ Feed!BannerAndDotAgree(phase, Feed!BuildHealth(up, shedding))
       /\ Feed!BannerAndDotAgree(phase, Feed!NoHealth)

-----------------------------------------------------------------------------
(* Rates around the number of shards, answers of up to three shards, ticks *)
(* that fail, polls with documents stored before, during and after them.   *)

StatusLists == UNION {[1..n -> {0, 202, 429}] : n \in 0..2} \cup {<<400, 503, 202>>}

Scenarios ==
  {<<"sustained-ramp", [target |-> 500, up |-> 20, hold |-> 40, down |-> 10]>>,
   <<"burst-recovery", [baseline |-> 100, spike |-> 500, before |-> 15, during |-> 10,
                        after |-> 20]>>,
   <<"debounce-spread", [rate |-> 400, duration |-> 20]>>}

SignalDocs ==
  [{"a", "b"} -> [sent : {Load!None, 0}, persisted : {0, 1, 4, 6, 9}]]

Counting(input, n) ==
  [input EXCEPT !.received["P1"] = 3 * n, !.accepted["P1"] = 2 * n,
                !.dropped["P1"]["hard_capacity"] = n, !.jobs.processed = n, !.jobs.failed = 2 * n,
                !.queue.waiting = n, !.queue.active = 5]

PollSamples ==
  {[n \in 1..3 |-> [from |-> 3 * n - 3, at |-> 3 * n - 1, ok |-> n \in good,
                    met |-> IF n \in lucky THEN {"a"} ELSE {}]] :
     good \in SUBSET (1..3), lucky \in SUBSET (1..3)}

ASSUME LoadLaws ==
  /\ \A rate \in (0..30) \cup {100, 500, 12000} :
       /\ \A shards \in 1..7 : Load!OfferIsClose(rate, shards)
       /\ Load!BudgetFits(rate)
  /\ \A s \in Scenarios : \A shards \in {1, 5} : Load!EstimateIsTheStages(s[1], s[2], shards)
  /\ \A input \in ScrapeSamples : \A m, n \in {0, 1, 5} : m <= n =>
       Load!DiffReadsTheCounters(Counting(input, m), Counting(input, n))
  /\ \A count \in {1, 6, 8, 13} : Load!ComponentsAreSpread(count)
  /\ \A a, b \in StatusLists : Load!MergeAddsUp(<<a, b>>) /\ Load!MergeAddsUp(<<a, b, a>>)
  /\ \A n \in 0..3 : \A values \in [1..n -> {9, 10, 26, 10000, 10001}] :
       /\ \A h \in Histograms[1] : Load!DiffIsTheRun(h, values)
       /\ \A p \in {50, 95, 99} : Load!PercentileIsABound(values, p) /\ Load!SamePercentiles(values, p)
  /\ \A n \in 0..5 : \A ticks \in [1..n -> {Load!None, 0, 1}] : \A needed \in 1..3 :
       Load!DrainWasSeen(ticks, needed)
  /\ \A docs \in SignalDocs : \A polls \in PollSamples : Load!SampleIsLate(docs, polls)

ASSUME ScriptLaws ==
  /\ \A from, to \in {0, 1, 2, 7, 10} : \A duration \in {0, 1, 2, 3, 15} :
       Script!RampGoesUp(from, to, duration)
  /\ \A statuses \in [1..4 -> {202, 429, 503}] : \A most \in 0..3 :
       Script!RetriesAreBounded(statuses, most)
  /\ \A beats \in [1..3 -> {0, 2, 3} \X {0, 1, 4}] : Script!BeatsKeepOrder(beats)
  /\ \A n \in 0..4 : \A checks \in [1..n -> {"ready", "not", "threw"}] :
       Script!WaitsAgree(checks)
  /\ \A type \in DOMAIN Script!SeverityFloor :
       /\ \A reported \in DOMAIN Script!SeverityRank : Script!ExpectsWhatIsSent(type, reported)
       /\ \A first, now \in {0, 1, 2000} : Script!TemplatesPass(type, first, now)
  /\ \A from \in {"OPEN", "INVESTIGATING", "RESOLVED", "CLOSED"} :
       Script!ReplayClosesOpen(from)

=============================================================================
