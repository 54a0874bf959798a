----------------------------- MODULE Analytics -----------------------------
(***************************************************************************)
(* The analytics path: the time series of repositories/metrics, the        *)
(* queries of services/aggregation and api/routes/analytics.ts, and what   *)
(* the panels of frontend/src/features/analytics make of their answers.    *)
(* Pure functions: no variables.                                           *)
(*                                                                         *)
(* A series is a finite set of documents [id, ts, dims, value]: dims maps  *)
(* the names of its dimensions to values. Times are seconds since the      *)
(* start of 2000, from where MongoDB's $dateTrunc counts its bins. An      *)
(* average is the fraction <<numerator, denominator>> that it is.          *)
(***************************************************************************)
EXTENDS Integers, Sequences, FiniteSets, FiniteSetsExt

(* The sum of a function over a set. *)
SumOver(S, f(_)) ==
  LET of == [d \in S |-> f(d)]
  IN  MapThenSumSet(LAMBDA d : of[d], S)

-----------------------------------------------------------------------------
(* What is written.                                                        *)

Day == 86400

(* retentionSeconds of each series: "30 days for high-volume, short-lived  *)
(* ones, 90 for the rest".                                                 *)
Retention ==
  [signal_volume_metrics |-> 30 * Day, workitem_created_metrics |-> 90 * Day,
   state_transition_metrics |-> 30 * Day, mttr_metrics |-> 90 * Day,
   alert_dispatch_metrics |-> 30 * Day]

AllSeries == <<"signal_volume_metrics", "workitem_created_metrics",
               "state_transition_metrics", "mttr_metrics", "alert_dispatch_metrics">>

(* ensureCollections: creates the series that the listing did not show, in *)
(* order, up to one that another process created meanwhile: an error, as   *)
(* createCollection is not idempotent.                                     *)
EnsureCollections(listed, existing) ==
  LET todo  == {n \in DOMAIN AllSeries : AllSeries[n] \notin listed}
      taken == {n \in todo : AllSeries[n] \in existing}
  IN  [fails    |-> taken # {},
       existing |-> existing \cup {AllSeries[n] : n \in {m \in todo : \A t \in taken : m < t}}]

(* record...(points) through MetricsWriter.safe: no points, no write; the  *)
(* insert is unordered, so that one that fails leaves any part of them;    *)
(* and whatever happens the caller goes on.                                *)
Recorded(series, points) == {series \cup kept : kept \in SUBSET points}

(* buildSignalVolumePoints: one point for each pair of component and       *)
(* severity in the batch, at the time of the write.                        *)
VolumePoints(signals, now) ==
  {[id |-> <<dims, now>>, ts |-> now, dims |-> dims,
    value |-> Cardinality({s \in signals : s.dims = dims})] :
     dims \in {s.dims : s \in signals}}

-----------------------------------------------------------------------------
(* How time is cut up.                                                     *)

(* Seconds of a unit of $dateTrunc. *)
UnitSeconds == [day |-> Day, hour |-> 3600, minute |-> 60, second |-> 1]

(* toBucketSpec: the largest unit that divides the interval.               *)
ToBucketSpec(interval) ==
  LET unit == CASE interval % Day = 0 -> "day"
                [] interval % Day # 0 /\ interval % 3600 = 0 -> "hour"
                [] interval % 3600 # 0 /\ interval % 60 = 0 -> "minute"
                [] interval % 60 # 0 -> "second"
  IN  [unit |-> unit, binSize |-> interval \div UnitSeconds[unit]]

Width(spec) == spec.binSize * UnitSeconds[spec.unit]

(* $dateTrunc. *)
Bucket(ts, spec) == (ts \div Width(spec)) * Width(spec)

-----------------------------------------------------------------------------
(* What is read.                                                           *)

(* The $match of each pipeline: the end is excluded.                       *)
InRange(series, from, to) == {d \in series : from <= d.ts /\ d.ts < to}

(* $group by bucket and dimensions: the keys, and the documents of one.    *)
Keys(docs, spec, names) ==
  {[bucket |-> Bucket(d.ts, spec), by |-> [n \in names |-> d.dims[n]]] : d \in docs}

Group(docs, spec, key) ==
  {d \in docs : /\ Bucket(d.ts, spec) = key.bucket
                /\ \A n \in DOMAIN key.by : d.dims[n] = key.by[n]}

Counted(docs, spec, names) ==
  {[key |-> k, count |-> SumOver(Group(docs, spec, k), LAMBDA d : d.value)] :
     k \in Keys(docs, spec, names)}

(* queryThroughput. *)
QueryThroughput(series, from, to, spec) ==
  Counted(InRange(series, from, to), spec, {"componentId", "severity"})

(* queryIncidentCounts, by groupedCountPipeline. *)
QueryIncidentCounts(series, from, to, spec, groupBy) ==
  Counted(InRange(series, from, to), spec, {groupBy})

Add(a, b) == <<a[1] * b[2] + b[1] * a[2], a[2] * b[2]>>

Average(docs) == <<SumOver(docs, LAMBDA d : d.value), Cardinality(docs)>>

(* ROLLING_WINDOW_BUCKETS: the window is that many rows before, and this.  *)
RollingWindow == 4

(* $setWindowFields: rows of the same partition, not buckets of the clock: *)
(* an interval without a repair takes no place in the window.              *)
Window(rows, row) ==
  LET earlier(r) == {s \in rows : s.key.by = row.key.by /\ s.key.bucket <= row.key.bucket
                                   /\ s.key.bucket > r.key.bucket}
  IN  {r \in rows : /\ r.key.by = row.key.by /\ r.key.bucket <= row.key.bucket
                    /\ Cardinality(earlier(r)) <= RollingWindow}

MeanOf(rows) ==
  LET total == FoldSet(LAMBDA r, sum : Add(r.avg, sum), <<0, 1>>, rows)
  IN  <<total[1], total[2] * Cardinality(rows)>>

(* queryMttrTrend: the rolling average is that of the averages of its      *)
(* rows, each of the same weight however many repairs it stands for.       *)
QueryMttrTrend(series, from, to, spec, groupBy) ==
  LET docs == InRange(series, from, to)
      row(key) == [key |-> key, avg |-> Average(Group(docs, spec, key)),
                   samples |-> Cardinality(Group(docs, spec, key))]
      rows == {row(k) : k \in Keys(docs, spec, {groupBy})}
  IN  {[key |-> r.key, avg |-> r.avg, samples |-> r.samples,
        rolling |-> MeanOf(Window(rows, r))] : r \in rows}

(* getComponentHealth: the signals since the start of the window, without  *)
(* an end; the repairs of all time; and the work items by state, the       *)
(* closed ones included.                                                   *)
ComponentHealth(volume, mttr, items, componentId, now, window) ==
  LET recent  == {d \in volume : d.dims.componentId = componentId /\ d.ts >= now - window}
      repairs == {d \in mttr : d.dims.componentId = componentId}
      mine    == {i \in items : i.componentId = componentId}
  IN  [componentId |-> componentId,
       recentSignals |-> SumOver(recent, LAMBDA d : d.value),
       repaired |-> repairs # {},
       avg |-> IF repairs = {} THEN <<-1, 1>> ELSE Average(repairs),
       byState |-> [s \in {i.state : i \in mine} |-> Cardinality({i \in mine : i.state = s})]]

-----------------------------------------------------------------------------
(* What is answered. given names the parameters of a query that are there; *)
(* both ends of the range are asked for, in any order.                     *)

RangeQuery(query) ==
  /\ {"from", "to"} \subseteq query.given
  /\ "interval" \in query.given => query.interval > 0

GroupByQuery(query) ==
  /\ RangeQuery(query)
  /\ "groupBy" \in query.given => query.groupBy \in {"componentType", "severity"}

IntervalOf(query) == IF "interval" \in query.given THEN query.interval ELSE 60

GroupByOf(query) == IF "groupBy" \in query.given THEN query.groupBy ELSE "componentType"

BadRequest == [status |-> 400, points |-> {}]

HandleThroughput(query, series) ==
  IF ~ RangeQuery(query) THEN BadRequest
  ELSE [status |-> 200,
        points |-> QueryThroughput(series, query.from, query.to, ToBucketSpec(IntervalOf(query)))]

HandleIncidents(query, series) ==
  IF ~ GroupByQuery(query) THEN BadRequest
  ELSE [status |-> 200,
        points |-> QueryIncidentCounts(series, query.from, query.to,
                                       ToBucketSpec(IntervalOf(query)), GroupByOf(query))]

HandleMttr(query, series) ==
  IF ~ GroupByQuery(query) THEN BadRequest
  ELSE [status |-> 200,
        points |-> QueryMttrTrend(series, query.from, query.to,
                                  ToBucketSpec(IntervalOf(query)), GroupByOf(query))]

-----------------------------------------------------------------------------
(* What a reader of the answers may rely on.                               *)

(* toBucketSpec changes the words, not the length of a bucket; and so the  *)
(* bins of an interval are the same in whatever unit it divides.           *)
SpecKeepsInterval(interval) == Width(ToBucketSpec(interval)) = interval

(* A bucket holds the times from its own on, up to the next one's.         *)
BucketHolds(ts, spec) == Bucket(ts, spec) <= ts /\ ts < Bucket(ts, spec) + Width(spec)

(* createCollection's error ends a boot that raced with another, and the   *)
(* next one finishes what is left, then and ever after without an error.   *)
SeriesConverge(listed, existing) ==
  LET first == EnsureCollections(listed, existing)
      next  == EnsureCollections(first.existing, first.existing)
      last  == EnsureCollections(next.existing, next.existing)
  IN  /\ existing \subseteq first.existing
      /\ ~ next.fails /\ \A n \in DOMAIN AllSeries : AllSeries[n] \in next.existing
      /\ ~ last.fails /\ last.existing = next.existing

(* A range from its end to its start is empty, not an error; and what is   *)
(* answered is of the range that was asked for, up to the start of a       *)
(* bucket that the range begins in the middle of.                          *)
AnswersAreInRange(query, series) ==
  LET answers == {HandleThroughput(query, series), HandleIncidents(query, series),
                  HandleMttr(query, series)}
  IN  \A a \in answers :
        /\ a.status = 400 \/ (query.from >= query.to => a.points = {})
        /\ \A p \in a.points : /\ p.key.bucket < query.to
                               /\ p.key.bucket + IntervalOf(query) > query.from

(* A series tells of each signal once, whatever the batch held.            *)
EverySignalHasAPoint(signals, now) ==
  SumOver(VolumePoints(signals, now), LAMBDA p : p.value) = Cardinality(signals)

(* No document is lost or counted twice between two ranges that meet, as   *)
(* the panels' do when they are refreshed: the end of a range is excluded. *)
RangesMeet(series, from, middle, to, spec) ==
  SumOver(QueryThroughput(series, from, middle, spec), LAMBDA r : r.count)
    + SumOver(QueryThroughput(series, middle, to, spec), LAMBDA r : r.count)
    = SumOver(InRange(series, from, to), LAMBDA d : d.value)

(* "a trailing rolling average over the last ROLLING_WINDOW_BUCKETS+1      *)
(* buckets" (metricsRepository.ts:262), of rows of one partition; the      *)
(* legend of the panel says 4 (MttrPanel.tsx:84).                          *)
WindowIsBounded(rows, row) ==
  /\ row \in Window(rows, row)
  /\ Cardinality(Window(rows, row)) <= RollingWindow + 1

=============================================================================
