----------------------------- MODULE Telemetry -----------------------------
(***************************************************************************)
(* What a process tells of its signals: the counters and recorders of      *)
(* utils/metrics.ts, the scrape of GET /metrics (api/routes/metrics.ts)    *)
(* and the line that the reporter prints. Both read some numbers before    *)
(* they wait for Postgres or Redis and others after, while requests and    *)
(* jobs go on.                                                             *)
(*                                                                         *)
(* All signals are of one severity; each latency is 1, so that a sum is a  *)
(* count. The buffer is its depth here: see SignalBuffer.                  *)
(***************************************************************************)
EXTENDS Integers, FiniteSets, FiniteSetsExt

CONSTANTS
  Scrapes,        (* GETs of /metrics, and ticks of the reporter, that may    *)
  Ticks,          (* be open together                                         *)
  Slots,          (* of the buffer                                            *)
  Burst,
  MaxSignals,     (* bound of the model: signals received                     *)
  MaxTicks        (* bound of the model: lines printed or lost                *)

ASSUME TelemetryAssumption == /\ IsFiniteSet(Ticks)
                              /\ {Slots, Burst, MaxSignals, MaxTicks} \subseteq Nat

VARIABLES
  received, accepted,           (* signalCounters                             *)
  depth, popped, dropped, sent, (* of the buffer; popped: in the batches that *)
                                (* its sink has                               *)
  throughput,                   (* throughputCounter                          *)
  jobs, samples,                (* jobs recorded ever, and since the last     *)
                                (* reset                                      *)
  scrape,                       (* [Scrapes -> ScrapeState]                   *)
  tick,                         (* [Ticks -> TickState]                       *)
  lastDropped,                  (* previousTotalDropped                       *)
  printed                       (* history: [signals, drops, latencies] of    *)
                                (* the lines, and those of the ticks lost     *)

telemetryVars == <<received, accepted, depth, popped, dropped, sent, throughput, jobs,
                   samples, scrape, tick, lastDropped, printed>>

bufferVars == <<depth, popped, dropped, sent>>

ScrapeState == [at : {"idle", "counting", "sent"}, received : Nat, accepted : Nat,
                depth : Nat, dropped : Nat]

TickState == [at : {"idle", "counting"}, signals : Nat, drops : Nat]

Sums == [signals : Nat, drops : Nat, latencies : Nat, lines : Nat]

NoScrape == [at |-> "idle", received |-> 0, accepted |-> 0, depth |-> 0, dropped |-> 0]

NoTick == [at |-> "idle", signals |-> 0, drops |-> 0]

TelemetryInit ==
  /\ received = 0 /\ accepted = 0 /\ depth = 0 /\ popped = 0 /\ dropped = 0 /\ sent = 0
  /\ throughput = 0 /\ jobs = 0 /\ samples = 0
  /\ scrape = [c \in Scrapes |-> NoScrape] /\ tick = [k \in Ticks |-> NoTick]
  /\ lastDropped = 0
  /\ printed = [signals |-> 0, drops |-> 0, latencies |-> 0, lines |-> 0]

(* handleIngest from recordReceived on, handleBulkTest: no await between,  *)
(* so that nothing else runs. A batch that the buffer refuses a part of is *)
(* answered 503 and not counted as accepted, the part it kept included. An *)
(* arrival at a full buffer may evict one that was kept (hard_capacity).   *)
Ingest(n) ==
  /\ received + n <= MaxSignals
  /\ received' = received + n
  /\ \E kept \in 0..n : \E evicted \in 0..kept :
       /\ depth' = depth + kept - evicted /\ dropped' = dropped + (n - kept) + evicted
       /\ depth' <= Slots /\ (evicted > 0 => depth' = Slots)
       /\ accepted' = IF kept = n THEN accepted + n ELSE accepted
       /\ throughput' = IF kept = n THEN throughput + n ELSE throughput
  /\ UNCHANGED <<popped, sent, jobs, samples, scrape, tick, lastDropped, printed>>

(* drainToSink up to its await: n signals are the sink's. *)
Pop(n) ==
  /\ 0 < n /\ n <= depth
  /\ depth' = depth - n /\ popped' = popped + n
  /\ UNCHANGED <<received, accepted, dropped, sent, throughput, jobs, samples, scrape, tick,
                 lastDropped, printed>>

(* ... and after it: handed on, or given up (sink_failure). The batches of *)
(* the interval and of a shutdown are not told apart.                      *)
SinkAnswers(n) ==
  /\ 0 < n /\ n <= popped
  /\ popped' = popped - n
  /\ \/ sent' = sent + n /\ UNCHANGED dropped
     \/ dropped' = dropped + n /\ UNCHANGED sent
  /\ UNCHANGED <<received, accepted, depth, throughput, jobs, samples, scrape, tick,
                 lastDropped, printed>>

(* recordJobProcessed: a batch of the queue is persisted. *)
RecordJob ==
  /\ jobs < sent
  /\ jobs' = jobs + 1 /\ samples' = samples + 1
  /\ UNCHANGED <<received, accepted, bufferVars, throughput, scrape, tick, lastDropped, printed>>

-----------------------------------------------------------------------------
(* Definitions named Faulty... are seeded faults: each replaces the        *)
(* definition after it in a run that must then find a property violated.   *)

(* gatherMetricsSnapshot before its await: the buffer... *)
ReadFirst == [NoScrape EXCEPT !.depth = depth, !.dropped = dropped]

(* Fault: the drops are read with the counters. *)
FaultyReadThen(c) == [scrape[c] EXCEPT !.at = "sent", !.received = received,
                                       !.accepted = accepted, !.dropped = dropped]

(* ... and after it: the counters.                                         *)
ReadThen(c) == [scrape[c] EXCEPT !.at = "sent", !.received = received, !.accepted = accepted]

StartScrape(c) ==
  /\ scrape[c].at # "counting"
  /\ scrape' = [scrape EXCEPT ![c] = [ReadFirst EXCEPT !.at = "counting"]]
  /\ UNCHANGED <<received, accepted, bufferVars, throughput, jobs, samples, tick,
                 lastDropped, printed>>

(* countAllGroupedByState answers, or throws: 500. *)
EndScrape(c) ==
  /\ scrape[c].at = "counting"
  /\ \/ scrape' = [scrape EXCEPT ![c] = ReadThen(c)]
     \/ scrape' = [scrape EXCEPT ![c] = NoScrape]
  /\ UNCHANGED <<received, accepted, bufferVars, throughput, jobs, samples, tick,
                 lastDropped, printed>>

-----------------------------------------------------------------------------
(* startMetricsReporter: ticks overlap when Redis or Postgres takes longer *)
(* than the interval.                                                      *)

Started == printed.lines + Cardinality({k \in Ticks : tick[k].at = "counting"})

StartTick(k) ==
  /\ tick[k].at = "idle" /\ Started < MaxTicks
  /\ tick' = [tick EXCEPT ![k] = [at |-> "counting", signals |-> throughput,
                                  drops |-> IF dropped > lastDropped
                                            THEN dropped - lastDropped ELSE 0]]
  /\ throughput' = 0 /\ lastDropped' = dropped
  /\ UNCHANGED <<received, accepted, bufferVars, jobs, samples, scrape, printed>>

(* getQueueStats counts the jobs first and resets the recorder when it has *)
(* them. When it throws, the signals and drops of the tick are on no line, *)
(* the latencies on the next.                                              *)
EndTick(k) ==
  /\ tick[k].at = "counting"
  /\ tick' = [tick EXCEPT ![k] = NoTick]
  /\ \E answered \in BOOLEAN :
       /\ samples' = IF answered THEN 0 ELSE samples
       /\ printed' = [signals |-> printed.signals + tick[k].signals,
                      drops |-> printed.drops + tick[k].drops,
                      latencies |-> printed.latencies + IF answered THEN samples ELSE 0,
                      lines |-> printed.lines + 1]
  /\ UNCHANGED <<received, accepted, bufferVars, throughput, jobs, scrape, lastDropped>>

-----------------------------------------------------------------------------

TelemetryNext ==
  \/ \E n \in 1..Burst : Ingest(n) \/ Pop(n) \/ SinkAnswers(n)
  \/ RecordJob
  \/ \E c \in Scrapes : StartScrape(c) \/ EndScrape(c)
  \/ \E k \in Ticks : StartTick(k) \/ EndTick(k)

TelemetrySpec == TelemetryInit /\ [][TelemetryNext]_telemetryVars

-----------------------------------------------------------------------------

TelemetryTypeOK ==
  /\ {received, accepted, depth, popped, dropped, sent, throughput, jobs, samples,
      lastDropped} \subseteq Nat
  /\ scrape \in [Scrapes -> ScrapeState] /\ tick \in [Ticks -> TickState] /\ printed \in Sums

(* Whatever came in while it waited, a scrape never tells of more signals  *)
(* dropped, in the buffer or accepted than were received; and a signal     *)
(* that was counted as accepted, a drop and a latency is on one line of    *)
(* the reporter at most, overlapping ticks or not: those of a tick that    *)
(* failed are the only ones on none.                                       *)
ScrapeAddsUp ==
  /\ \A c \in Scrapes :
       scrape[c].at = "sent" => /\ scrape[c].dropped + scrape[c].depth <= scrape[c].received
                                /\ scrape[c].accepted <= scrape[c].received
  /\ accepted = printed.signals + throughput + MapThenSumSet(LAMBDA k : tick[k].signals, Ticks)
  /\ lastDropped = printed.drops + MapThenSumSet(LAMBDA k : tick[k].drops, Ticks)
  /\ jobs = printed.latencies + samples

=============================================================================
