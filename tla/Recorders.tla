----------------------------- MODULE Recorders -----------------------------
(***************************************************************************)
(* The recorders of utils/metrics.ts and the body of GET /metrics          *)
(* (api/routes/metrics.ts): what an observation does to a histogram, what  *)
(* a line of the reporter is computed from, and which samples a scrape     *)
(* finds. Pure functions: no variables. When they run is Telemetry.        *)
(***************************************************************************)
EXTENDS Integers, Sequences, FiniteSets, SequencesExt

(* E2E_LATENCY_BUCKETS_MS. *)
Boundaries == <<10, 25, 50, 100, 250, 500, 1000, 2500, 5000, 10000>>

-----------------------------------------------------------------------------
(* Histogram. *)

Empty == [counts |-> [b \in DOMAIN Boundaries |-> 0], total |-> 0, sum |-> 0]

Observe(h, value) ==
  [counts |-> [b \in DOMAIN Boundaries |->
                 IF value <= Boundaries[b] THEN h.counts[b] + 1 ELSE h.counts[b]],
   total |-> h.total + 1, sum |-> h.sum + value]

(* renderHistogram: the bucket of every observation, "+Inf", is the total. *)
Rendered(h) == Append(h.counts, h.total)

-----------------------------------------------------------------------------
(* createQueueMetricsRecorder: the numbers since the last line. Fractions  *)
(* are in percent; -1 is null.                                             *)

PercentileOf(ascending, p) ==
  LET place == (p * Len(ascending)) \div 100
  IN  IF ascending = <<>> THEN -1
      ELSE ascending[IF place < Len(ascending) THEN place + 1 ELSE Len(ascending)]

ReportOf(samples) ==
  LET sorted == SortSeq(samples, <)
  IN  [processed |-> Len(samples),
       sum |-> FoldLeft(+, 0, samples),
       p50 |-> PercentileOf(sorted, 50), p99 |-> PercentileOf(sorted, 99)]

(* sumDroppedThisPeriod, of all there are. *)
TotalDropped(byReason) == byReason.shed_ceiling + byReason.hard_capacity + byReason.sink_failure

-----------------------------------------------------------------------------
(* createAlertMetricsRecorder: a channel is there from its first delivery  *)
(* or failure on.                                                          *)

Bump(alerts, channel, outcome) ==
  LET entry == IF channel \in DOMAIN alerts THEN alerts[channel]
               ELSE [delivered |-> 0, failed |-> 0]
  IN  [c \in DOMAIN alerts \cup {channel} |->
         IF c = channel THEN [entry EXCEPT ![outcome] = @ + 1] ELSE alerts[c]]

-----------------------------------------------------------------------------
(* renderPrometheusMetrics: <<family, labels, value>> of each sample; those*)
(* of the work items are 0 for a state that no row is in.                  *)

Severities == {"P0", "P1", "P2", "P3"}
DropReasons == {"shed_ceiling", "hard_capacity", "sink_failure"}
WorkItemStates == {"OPEN", "INVESTIGATING", "RESOLVED", "CLOSED"}

Samples(input) ==
  UNION {
    {<<"ims_signals_received_total", <<s>>, input.received[s]>> : s \in Severities},
    {<<"ims_signals_accepted_total", <<s>>, input.accepted[s]>> : s \in Severities},
    {<<"ims_signals_dropped_total", <<s, r>>, input.dropped[s][r]>> :
       s \in Severities, r \in DropReasons},
    {<<"ims_buffer_depth", <<s>>, input.depth[s]>> : s \in Severities},
    {<<"ims_buffer_fill_ratio", <<>>, input.fill>>,
     <<"ims_queue_depth", <<"waiting">>, input.queue.waiting>>,
     <<"ims_queue_depth", <<"active">>, input.queue.active>>,
     <<"ims_queue_dlq_size", <<>>, input.queue.dlq>>,
     <<"ims_queue_jobs_total", <<"processed">>, input.jobs.processed>>,
     <<"ims_queue_jobs_total", <<"failed">>, input.jobs.failed>>,
     <<"ims_escalations_triggered_total", <<>>, input.escalations>>},
    {<<"ims_work_items", <<s>>,
       IF s \in DOMAIN input.items THEN input.items[s] ELSE 0>> : s \in WorkItemStates},
    {<<"ims_alerts_total", <<c, o>>, input.alerts[c][o]>> :
       c \in DOMAIN input.alerts, o \in {"delivered", "failed"}},
    {<<"ims_signal_e2e_latency_ms", <<b>>, Rendered(input.latency)[b]>> :
       b \in DOMAIN Rendered(input.latency)} }

-----------------------------------------------------------------------------
(* What a scraper and a reader of the lines may rely on.                   *)

(* "bucket[i] always includes everything bucket[i-1] does"                 *)
(* (metrics.ts:87), "+Inf" included, which is what makes quantiles of the  *)
(* scrapes sound: for any histogram that is so, and any observation.       *)
Cumulative(h) ==
  /\ \A b \in DOMAIN Boundaries : h.counts[b] \in 0..h.total
  /\ \A a, b \in DOMAIN Boundaries : a <= b => h.counts[a] <= h.counts[b]

ObserveKeepsCumulative(h, value) == Cumulative(h) => Cumulative(Observe(h, value))

(* A percentile is one of the latencies, and at least that share of them   *)
(* is no longer than it: the last one, of a few.                           *)
PercentileCovers(samples, p) ==
  LET sorted == SortSeq(samples, <)
      value  == PercentileOf(sorted, p)
  IN  samples # <<>> =>
        /\ \E n \in DOMAIN samples : samples[n] = value
        /\ 100 * Cardinality({n \in DOMAIN samples : samples[n] <= value}) >= p * Len(samples)

(* No two samples have the same name and labels, so that a scrape is one   *)
(* the format allows, and no alert that was recorded is left out.          *)
SamplesAreApart(input) ==
  /\ \A a, b \in Samples(input) : a[1] = b[1] /\ a[2] = b[2] => a = b
  /\ \A c \in DOMAIN input.alerts :
       \E a \in Samples(input) : a[1] = "ims_alerts_total" /\ a[2] = <<c, "failed">>

(* One event counts once, whatever channels there are.                     *)
BumpCountsOne(alerts, channel, outcome) ==
  LET events(m) == [c \in DOMAIN m |-> m[c].delivered + m[c].failed]
      total(m)  == MapThenSumSet(LAMBDA c : events(m)[c], DOMAIN m)
  IN  total(Bump(alerts, channel, outcome)) = total(alerts) + 1

=============================================================================
