---------------------------- MODULE LoadReport ----------------------------
(***************************************************************************)
(* The load test (scripts/loadtest): what it offers, how it classifies the *)
(* answers, what its pollers make of what they see, when it takes the      *)
(* pipeline for drained, and the figures of the report. Pure functions: no *)
(* variables. Fractions are in percent, None is null; products of doubles  *)
(* are exact.                                                              *)
(***************************************************************************)
EXTENDS Integers, Sequences, FiniteSets, SequencesExt

LOCAL Numbers == INSTANCE Recorders

None == -1

LOCAL SumOf(s) == FoldLeft(+, 0, s)

-----------------------------------------------------------------------------
(* What is offered: every shard takes its part of a rate, but at least 1.  *)

PerShard(rate, shards) == Max({1, (2 * rate + shards) \div (2 * shards)})

(* Rounded up: a fifth, and three fifths, of the rate. *)
VuBudget(peak) ==
  [preAllocated |-> Min({500, (peak + 4) \div 5 + 10}),
   max          |-> Min({1500, (3 * peak + 4) \div 5 + 50})]

LOCAL Stage(target, seconds) == [target |-> target, seconds |-> seconds]

(* buildScenarioOptions: the stages of one shard. The scenarios but two    *)
(* keep one rate.                                                          *)
Stages(scenario, cfg, shards) ==
  LET part(rate) == PerShard(rate, shards)
  IN  CASE scenario = "sustained-ramp" ->
             <<Stage(part(cfg.target), cfg.up), Stage(part(cfg.target), cfg.hold),
               Stage(0, cfg.down)>>
        [] scenario = "burst-recovery" ->
             <<Stage(part(cfg.baseline), cfg.before), Stage(part(cfg.spike), 1),
               Stage(part(cfg.spike), cfg.during), Stage(part(cfg.baseline), 1),
               Stage(part(cfg.baseline), cfg.after)>>
        [] OTHER -> <<Stage(part(cfg.rate), cfg.duration)>>

(* estimateDurationSec, of the orchestrator. *)
EstimateDuration(scenario, cfg) ==
  CASE scenario = "sustained-ramp" -> cfg.up + cfg.hold + cfg.down
    [] scenario = "burst-recovery" -> cfg.before + 1 + cfg.during + 1 + cfg.after
    [] OTHER                       -> cfg.duration

ComponentTypes == <<"API", "MCP_HOST", "CACHE", "QUEUE", "RDBMS", "NOSQL">>

(* pickComponent, of the index that was drawn. *)
PickComponent(index) ==
  [type |-> ComponentTypes[(index % Len(ComponentTypes)) + 1],
   slot |-> index \div Len(ComponentTypes)]

-----------------------------------------------------------------------------
(* What the shards count: one counter for each answer, 0 is no answer.     *)

Counters == {"accepted202", "rateLimited429", "bufferSaturated503", "otherStatus",
             "requestErrors"}

CounterOf(status) ==
  CASE status = 0   -> "requestErrors"
    [] status = 202 -> "accepted202"
    [] status = 429 -> "rateLimited429"
    [] status = 503 -> "bufferSaturated503"
    [] OTHER        -> "otherStatus"

(* The counters of a shard that got these answers. *)
Counted(statuses) ==
  [c \in Counters |-> Cardinality({i \in DOMAIN statuses : CounterOf(statuses[i]) = c})]

(* mergeK6Summaries: counters add up, the average is that of the shards'   *)
(* averages (rounded down here), the tail is the worst.                    *)
MergeSummaries(shards) ==
  LET of(field) == {shards[i][field] : i \in DOMAIN shards}
  IN  [count |-> [c \in Counters |-> SumOf([i \in DOMAIN shards |-> shards[i].count[c]])],
       avg |-> IF shards = <<>> THEN None
               ELSE SumOf([i \in DOMAIN shards |-> shards[i].avg]) \div Len(shards),
       p99 |-> IF shards = <<>> THEN None ELSE Max(of("p99")),
       min |-> IF shards = <<>> THEN None ELSE Min(of("min"))]

-----------------------------------------------------------------------------
(* Reading a scrape: the samples that were rendered, 0 for one that is not *)
(* there. No two have one name and the same labels.                        *)

FindValue(samples, name, labels) ==
  LET found == {s \in samples : s[1] = name /\ s[2] = labels}
  IN  IF found = {} THEN 0 ELSE (CHOOSE s \in found : TRUE)[3]

SumValues(samples, name) ==
  MapThenSumSet(LAMBDA s : s[3], {s \in samples : s[1] = name})

DiffValue(before, after, name, labels) ==
  FindValue(after, name, labels) - FindValue(before, name, labels)

(* computeMetricsDiff, without the histogram. *)
MetricsDiff(before, after) ==
  LET diff(name, labels) == DiffValue(before, after, name, labels)
      of(name) == [s \in Numbers!Severities |-> diff(name, <<s>>)]
  IN  [received |-> of("ims_signals_received_total"),
       accepted |-> of("ims_signals_accepted_total"),
       dropped  |-> [s \in Numbers!Severities |->
                       [r \in Numbers!DropReasons |-> diff("ims_signals_dropped_total", <<s, r>>)]],
       processed |-> diff("ims_queue_jobs_total", <<"processed">>),
       failed    |-> diff("ims_queue_jobs_total", <<"failed">>)]

(* Two scrapes of a histogram, <<buckets, total, sum>> each: the change of *)
(* every cumulative bucket, and the bound of the bucket a percentile is in.*)

DiffHistogram(before, after) ==
  [buckets |-> [b \in DOMAIN after[1] |-> Max({0, after[1][b] - before[1][b]})],
   count   |-> Max({0, after[2] - before[2]}),
   sum     |-> Max({0, after[3] - before[3]})]

HistogramPercentile(diff, p) ==
  LET reached == {b \in DOMAIN diff.buckets : 100 * diff.buckets[b] >= p * diff.count}
      first   == Min(reached)
  IN  IF diff.count = 0 \/ reached = {} \/ first \notin DOMAIN Numbers!Boundaries THEN None
      ELSE Numbers!Boundaries[first]

-----------------------------------------------------------------------------
(* The pollers. A tick of the backend's is the queue depth it read, or     *)
(* None when the scrape failed, which changes nothing: latest stays.       *)

PollerAfter(ticks) ==
  FoldLeft(LAMBDA poller, depth :
             IF depth = None THEN poller
             ELSE [latest |-> depth, peak |-> Max({poller.peak, depth})],
           [latest |-> None, peak |-> 0], ticks)

(* waitForDrain: what it saw of latest so far, with how many in a row have *)
(* to be 0. It stops at the first such row.                                *)
QuietAfter(looks) ==
  FoldLeft(LAMBDA quiet, latest : IF latest = 0 THEN quiet + 1 ELSE 0, 0, looks)

WaitForDrain(looks, needed) ==
  \E n \in DOMAIN looks : QuietAfter(SubSeq(looks, 1, n)) >= needed

(* The poller of the tagged signals: each keeps the time of the first poll *)
(* that succeeded and found it. docs: [id -> [sent, persisted]]. A poll    *)
(* looks from one time to another, which is the one it keeps; what is      *)
(* stored in the meantime it may have met or missed. polls: [from, at, ok, *)
(* met], one after the other.                                              *)
Finds(poll, id, doc) ==
  /\ poll.ok
  /\ \/ doc.persisted <= poll.from
     \/ doc.persisted <= poll.at /\ id \in poll.met

FirstSeen(docs, polls) ==
  LET found(id) == {i \in DOMAIN polls : Finds(polls[i], id, docs[id])}
  IN  [id \in {d \in DOMAIN docs : found(d) # {}} |-> polls[Min(found(id))].at]

(* getSamples: only those that carry the time they were sent. *)
Latencies(docs, polls) ==
  LET seen == FirstSeen(docs, polls)
  IN  [id \in {d \in DOMAIN seen : docs[d].sent # None} |-> seen[id] - docs[id].sent]

(* summarizePerSignalSamples. *)
PercentileOf(ascending, p) ==
  ascending[Min({Len(ascending), (p * Len(ascending)) \div 100 + 1})]

Summarize(latencies) ==
  LET sorted == SortSeq(latencies, <)
  IN  IF latencies = <<>> THEN [size |-> 0, p50 |-> None, p99 |-> None, min |-> None, max |-> None]
      ELSE [size |-> Len(sorted), p50 |-> PercentileOf(sorted, 50),
            p99 |-> PercentileOf(sorted, 99),
            min |-> sorted[1], max |-> sorted[Len(sorted)]]

-----------------------------------------------------------------------------
(* buildReport, of what was counted and what is in MongoDB; rates are per  *)
(* second (rounded down here).                                             *)

BuildReport(count, persisted, seconds) ==
  LET perSecond(n) == IF seconds > 0 THEN n \div seconds ELSE 0
  IN  [totalRequests |-> FoldFunction(+, 0, count),
       gap |-> count.accepted202 - persisted,
       acceptedPerSec |-> perSecond(count.accepted202),
       persistedPerSec |-> perSecond(persisted)]

(* The regression gate asks for what was persisted, not for what was       *)
(* accepted; without a floor it never fails.                               *)
GateFails(report, floor) == floor # None /\ report.persistedPerSec < floor
-----------------------------------------------------------------------------
(* Laws. *)

(* All shards together offer what was asked for, to half a request per     *)
(* shard and second, unless the floor of 1 makes them offer more.          *)
OfferIsClose(rate, shards) ==
  LET offered == shards * PerShard(rate, shards)
  IN  \/ 2 * (offered - rate) \in (-shards)..shards
      \/ 2 * rate < shards /\ offered = shards

(* The stages of k6 take as long as the orchestrator thinks they do. *)
EstimateIsTheStages(scenario, cfg, shards) ==
  LET stages == Stages(scenario, cfg, shards)
  IN  SumOf([i \in DOMAIN stages |-> stages[i].seconds]) = EstimateDuration(scenario, cfg)

(* A generator is never given fewer virtual users than it starts with. *)
BudgetFits(peak) == VuBudget(peak).preAllocated <= VuBudget(peak).max

(* Components are distinct, and spread over the types. *)
ComponentsAreSpread(count) ==
  LET OfType(t) == Cardinality({i \in 0..(count - 1) : PickComponent(i).type = t})
      counts    == {OfType(ComponentTypes[k]) : k \in DOMAIN ComponentTypes}
  IN  /\ \A i, j \in 0..(count - 1) : PickComponent(i) = PickComponent(j) => i = j
      /\ Max(counts) - Min(counts) <= 1

(* Whatever the shards, their counters add up to one for each request. *)
MergeAddsUp(all) ==
  LET shards == [i \in DOMAIN all |->
                   [count |-> Counted(all[i]), avg |-> i, p99 |-> i, min |-> i]]
  IN  /\ MergeSummaries(shards).count = Counted(FlattenSeq(all))
      /\ BuildReport(MergeSummaries(shards).count, 0, 1).totalRequests = Len(FlattenSeq(all))

(* The names that are looked up are those the backend renders: the figures *)
(* are the growth of its counters, and the queue depth is all that waits   *)
(* or is worked on.                                                        *)
DiffReadsTheCounters(a, b) ==
  LET diff == MetricsDiff(Numbers!Samples(a), Numbers!Samples(b))
  IN  /\ \A s \in Numbers!Severities :
           /\ diff.received[s] = b.received[s] - a.received[s]
           /\ diff.accepted[s] = b.accepted[s] - a.accepted[s]
           /\ \A r \in Numbers!DropReasons : diff.dropped[s][r] = b.dropped[s][r] - a.dropped[s][r]
      /\ diff.processed = b.jobs.processed - a.jobs.processed
      /\ diff.failed = b.jobs.failed - a.jobs.failed
      /\ SumValues(Numbers!Samples(b), "ims_queue_depth") = b.queue.waiting + b.queue.active

LOCAL After(h, values) == FoldLeft(Numbers!Observe, h, values)

LOCAL Scraped(h) == <<Numbers!Rendered(h), h.total, h.sum>>

(* The difference of two scrapes is the histogram of what was observed in  *)
(* between, whatever was observed before ("an exact consequence").         *)
DiffIsTheRun(h, values) ==
  DiffHistogram(Scraped(h), Scraped(After(h, values)))
    = DiffHistogram(Scraped(Numbers!Empty), Scraped(After(Numbers!Empty, values)))

(* The percentile is the least bound that covers its share; null only if   *)
(* no bound does.                                                          *)
PercentileIsABound(values, p) ==
  LET answer == HistogramPercentile(
                  DiffHistogram(Scraped(Numbers!Empty), Scraped(After(Numbers!Empty, values))), p)
      Covers(bound) ==
        100 * Cardinality({i \in DOMAIN values : values[i] <= bound}) >= p * Len(values)
      bounds == {b \in ToSet(Numbers!Boundaries) : values # <<>> /\ Covers(b)}
  IN  answer = IF bounds = {} THEN None ELSE Min(bounds)

(* The percentiles of the samples are those of the backend's reporter.     *)
SamePercentiles(latencies, p) ==
  latencies # <<>> => LET sorted == SortSeq(latencies, <)
                      IN  PercentileOf(sorted, p) = Numbers!PercentileOf(sorted, p)

(* Drained means that the queue was seen empty and not seen otherwise      *)
(* since: the looks are at the last sample of the poller, so one sample    *)
(* will do when the scrapes after it fail.                                 *)
DrainWasSeen(ticks, needed) ==
  LET looks == [n \in DOMAIN ticks |-> PollerAfter(SubSeq(ticks, 1, n)).latest]
  IN  WaitForDrain(looks, needed)
        <=> \E n \in DOMAIN ticks :
              /\ ticks[n] = 0
              /\ n + needed - 1 <= Len(ticks)
              /\ \A m \in n..(n + needed - 1) : ticks[m] \in {0, None}

(* What was sampled is never too short, and too long by less than what     *)
(* passes until the end of any poll that succeeds and begins after the     *)
(* signal is stored ("accurate to within one poll interval", and the time  *)
(* that poll takes).                                                       *)
SampleIsLate(docs, polls) ==
  LET latency == Latencies(docs, polls)
  IN  \A id \in DOMAIN latency :
        LET excess == latency[id] - (docs[id].persisted - docs[id].sent)
        IN  /\ excess >= 0
            /\ \A i \in DOMAIN polls :
                 polls[i].ok /\ polls[i].from >= docs[id].persisted
                   => excess <= polls[i].at - docs[id].persisted
=============================================================================
