-------------------------- MODULE AnalyticsPanels --------------------------
(***************************************************************************)
(* What the analytics page and the header show: the range that the address *)
(* stands for (useTimeRange.ts), and the rows, series and ranking that the *)
(* panels derive from the answers of Analytics. Pure functions: no         *)
(* variables.                                                              *)
(***************************************************************************)
EXTENDS Analytics, SequencesExt

-----------------------------------------------------------------------------
(* useTimeRange: the address is the only state; "" is a parameter that is  *)
(* absent.                                                                 *)

RangeSeconds ==
  [k \in {"15m", "1h", "6h", "24h", "7d"} |->
     CASE k = "15m" -> 900 [] k = "1h" -> 3600 [] k = "6h" -> 21600
       [] k = "24h" -> 86400 [] k = "7d" -> 604800]

IntervalSeconds ==
  [k \in {"1m", "5m", "15m", "1h", "6h"} |->
     CASE k = "1m" -> 60 [] k = "5m" -> 300 [] k = "15m" -> 900
       [] k = "1h" -> 3600 [] k = "6h" -> 21600]

DefaultRange == "6h"

DefaultInterval ==
  [k \in {"15m", "1h", "6h", "24h", "7d"} |->
     CASE k = "15m" -> "1m" [] k = "1h" -> "5m" [] k = "6h" -> "15m"
       [] k = "24h" -> "1h" [] k = "7d" -> "6h"]

IsRangeKey(text) == text \in DOMAIN RangeSeconds

IsIntervalKey(text) == text \in DOMAIN IntervalSeconds

RangeKey(address) == IF IsRangeKey(address.range) THEN address.range ELSE DefaultRange

IntervalKey(address) ==
  IF IsIntervalKey(address.interval) THEN address.interval ELSE DefaultInterval[RangeKey(address)]

(* The snapshot that all panels ask for. *)
TimeRange(address, now) ==
  [from |-> now - RangeSeconds[RangeKey(address)], to |-> now,
   interval |-> IntervalSeconds[IntervalKey(address)]]

(* setRange: an interval that is none is dropped, so that it follows.      *)
SetRange(address, key) ==
  [range |-> key, interval |-> IF IsIntervalKey(address.interval) THEN address.interval ELSE ""]

SetInterval(address, key) == [address EXCEPT !.interval = key]

-----------------------------------------------------------------------------
(* The panels. Rows are sorted by bucket.                                  *)

ByBucket(rows) == SetToSortSeq(rows, LAMBDA a, b : a.bucket < b.bucket)

(* ThroughputPanel: one total for each bucket. *)
ThroughputRows(points) ==
  ByBucket({[bucket |-> b,
             total |-> SumOver({p \in points : p.key.bucket = b}, LAMBDA p : p.count)] :
              b \in {p.key.bucket : p \in points}})

(* useIngestionThroughput: signals per second over the last minute.        *)
HeaderRate(points, window) == <<SumOver(points, LAMBDA p : p.count), window>>

ValueOf(point, groupBy) == point.key.by[groupBy]

(* IncidentVolumePanel: a column for each value in a row for each bucket;  *)
(* of two points for the same cell one is shown.                           *)
PivotRows(points, groupBy) ==
  LET here(b) == {p \in points : p.key.bucket = b}
      cell(b, v) == (CHOOSE p \in here(b) : ValueOf(p, groupBy) = v).count
  IN  ByBucket({[bucket |-> b,
                 column |-> [v \in {ValueOf(p, groupBy) : p \in here(b)} |-> cell(b, v)]] :
                  b \in {p.key.bucket : p \in points}})

SeverityOrder == <<"P0", "P1", "P2", "P3">>

ComponentTypeOrder == <<"API", "MCP_HOST", "CACHE", "QUEUE", "RDBMS", "NOSQL">>

(* The order in which the server sorts them. *)
ByName == <<"API", "CACHE", "MCP_HOST", "NOSQL", "P0", "P1", "P2", "P3", "QUEUE", "RDBMS">>

OrderOf(groupBy) == IF groupBy = "severity" THEN SeverityOrder ELSE ComponentTypeOrder

(* The series that are drawn, in the order of the palette. *)
ActiveSeries(points, groupBy) ==
  SelectSeq(OrderOf(groupBy), LAMBDA v : \E p \in points : ValueOf(p, groupBy) = v)

(* MttrPanel: the value with the most repairs leads, the first by name of  *)
(* those that have as many...                                              *)
SamplesOf(points, groupBy, value) ==
  SumOver({p \in points : ValueOf(p, groupBy) = value}, LAMBDA p : p.samples)

DefaultValue(points, groupBy) ==
  LET present == SelectSeq(ByName, LAMBDA v : \E p \in points : ValueOf(p, groupBy) = v)
      most    == {n \in DOMAIN present :
                    \A m \in DOMAIN present : SamplesOf(points, groupBy, present[m])
                                                <= SamplesOf(points, groupBy, present[n])}
  IN  IF present = <<>> THEN "" ELSE present[CHOOSE n \in most : \A m \in most : n <= m]

(* ... unless one that is there was chosen. *)
EffectiveValue(points, groupBy, selected) ==
  IF selected # "" /\ \E n \in DOMAIN ActiveSeries(points, groupBy) :
                        ActiveSeries(points, groupBy)[n] = selected
    THEN selected
    ELSE DefaultValue(points, groupBy)

MttrRows(points, groupBy, selected) ==
  ByBucket({[bucket |-> p.key.bucket, avg |-> p.avg, rolling |-> p.rolling] :
              p \in {q \in points : ValueOf(q, groupBy)
                                      = EffectiveValue(points, groupBy, selected)}})

(* ComponentHealthPanel: toRow, and the order of rankWorstFirst.           *)
HealthRow(health) ==
  [componentId |-> health.componentId, avg |-> health.avg,
   incidents |-> SumOver(DOMAIN health.byState, LAMBDA s : health.byState[s]),
   open |-> SumOver(DOMAIN health.byState \ {"CLOSED"}, LAMBDA s : health.byState[s])]

Less(a, b) == a[1] * b[2] < b[1] * a[2]

WorseThan(a, b) ==
  \/ a.open > b.open
  \/ a.open = b.open /\ Less(b.avg, a.avg)
  \/ a.open = b.open /\ ~ Less(a.avg, b.avg) /\ ~ Less(b.avg, a.avg) /\ a.incidents > b.incidents

-----------------------------------------------------------------------------
(* What an operator who looks at the page may rely on.                     *)

(* "keeps the bucket count reasonable (tens, not thousands) at every       *)
(* range" (useTimeRange.ts:30): as long as no interval is pinned, which    *)
(* setRange keeps: 1m in 7d is 10080 buckets of each series.               *)
BucketsAreTens(address, now) ==
  LET r == TimeRange(address, now)
  IN  ~ IsIntervalKey(address.interval) =>
        /\ (r.to - r.from) % r.interval = 0
        /\ (r.to - r.from) \div r.interval \in 10..30

(* Whatever the address holds, and whatever is chosen after it, the range  *)
(* and the interval asked for are options of the selectors.                *)
AddressIsSafe(address, key) ==
  /\ IsRangeKey(RangeKey(address)) /\ IsIntervalKey(IntervalKey(address))
  /\ IsRangeKey(key) =>
       /\ RangeKey(SetRange(address, key)) = key
       /\ IsIntervalKey(address.interval) =>
            IntervalKey(SetRange(address, key)) = IntervalKey(address)

(* The chart, its columns and the header tell of the same signals as the   *)
(* series that they come from: the panels only reshape.                    *)
NothingIsAddedUpTwice(series, from, to, spec) ==
  LET points == QueryThroughput(series, from, to, spec)
      total  == SumOver(InRange(series, from, to), LAMBDA d : d.value)
      rows   == ThroughputRows(points)
  IN  /\ SumOver(DOMAIN rows, LAMBDA n : rows[n].total) = total
      /\ HeaderRate(points, to - from)[1] = total

(* No two points want the same cell, and no value is without a series, so  *)
(* that every incident that was counted is drawn.                          *)
EveryCountIsDrawn(series, from, to, spec, groupBy) ==
  LET points == QueryIncidentCounts(series, from, to, spec, groupBy)
      rows   == PivotRows(points, groupBy)
      drawn  == ActiveSeries(points, groupBy)
  IN  /\ \A p, q \in points : p.key = q.key => p = q
      /\ {ValueOf(p, groupBy) : p \in points} = {drawn[n] : n \in DOMAIN drawn}
      /\ SumOver(DOMAIN rows, LAMBDA n : SumOver(DOMAIN rows[n].column,
                                                 LAMBDA v : rows[n].column[v]))
           = SumOver(InRange(series, from, to), LAMBDA d : d.value)

(* "flipping severity-componentType never leaves a dangling selection"     *)
(* (MttrPanel.tsx:136): what is shown is there whenever anything is.       *)
SelectionIsThere(points, groupBy, selected) ==
  points # {} => \E p \in points : ValueOf(p, groupBy) = EffectiveValue(points, groupBy, selected)

(* rankWorstFirst is an order: no row is before itself, or before one that *)
(* is before it, whatever the sort compares first.                         *)
RankIsOrder(a, b, c) ==
  /\ ~ WorseThan(a, a)
  /\ WorseThan(a, b) => ~ WorseThan(b, a)
  /\ WorseThan(a, b) /\ WorseThan(b, c) => WorseThan(a, c)

=============================================================================
