---------------------------- MODULE SignalBuffer ----------------------------
(***************************************************************************)
(* The in-memory ingestion buffer, backend/src/services/ingestion/         *)
(* buffer.ts: four severity lanes that share one capacity, a watermark     *)
(* state machine that sheds by per-severity ceilings, eviction in favour   *)
(* of P0, an interval-driven drain to an asynchronous sink, and the        *)
(* drainAll loop of a shutdown hook.                                       *)
(*                                                                         *)
(* JavaScript runs to completion: submit() and the pop of a batch are one  *)
(* atomic step each; the sink's promise settles in a later step, and every *)
(* other operation may run in between.                                     *)
(***************************************************************************)
EXTENDS Integers, Sequences, FiniteSets, FiniteSetsExt, Functions

CONSTANTS
  Capacity,     (* BUFFER_CAPACITY                                            *)
  HighMark,     (* the least size whose fill fraction reaches the high mark   *)
  LowMark,      (* the greatest size whose fill fraction is within the low    *)
  Ceiling,      (* floor(capacity * fraction) of each severity but P0         *)
  BatchSize,    (* BUFFER_DRAIN_BATCH_SIZE                                    *)
  Hooks,        (* the runs of the shutdown hook, each one call of drainAll   *)
  MaxSignals    (* bound of the model: signals ever submitted                 *)

Severity == 0..3                        \* P0 (most urgent) .. P3
Sheddable == Severity \ {0}
Reason   == {"shed_ceiling", "hard_capacity", "sink_failure"}
Tick     == "tick"                      \* the drain that setInterval starts
Drainers == {Tick} \cup Hooks
Signal   == [sev : Severity, id : Nat]

(* The zod schema of config/index.ts (positive capacity, low < high) and   *)
(* the rounding of the fractions to whole slots.                           *)
ASSUME BufferAssumption ==
  /\ Capacity \in Nat \ {0}
  /\ HighMark \in 1..Capacity
  /\ LowMark \in Nat
  /\ LowMark < HighMark
  /\ Ceiling \in [Sheddable -> 0..Capacity]
  /\ BatchSize \in Nat \ {0}
  /\ MaxSignals \in Nat
  /\ Tick \notin Hooks /\ IsFiniteSet(Hooks)

VARIABLES
  lane,       (* [Severity -> Seq(Signal)], the oldest signal first           *)
  state,      (* "normal" or "shedding"                                       *)
  dropped,    (* droppedBySeverityAndReason                                   *)
  timer,      (* the interval timer is set                                    *)
  inFlight,   (* [Drainers -> Seq(Signal)], the batch its sink call holds     *)
  drainAll,   (* [Hooks -> {"idle", "looping", "done"}]                       *)
  overdue,    (* the hooks whose drainAll deadline has passed                 *)
  arrived,    (* signals submitted so far; numbers them in arrival order      *)
  delivered   (* history: signals whose sink call succeeded                   *)

vars == <<lane, state, dropped, timer, inFlight, drainAll, overdue, arrived,
          delivered>>

-----------------------------------------------------------------------------

(* The totalSize getter. *)
Size(q) == Len(q[0]) + Len(q[1]) + Len(q[2]) + Len(q[3])

(* Definitions named Faulty... are seeded faults: each replaces the        *)
(* definition after it in a run that must then find a property violated.   *)

(* recomputeState: hysteresis between the two watermarks. *)
Recompute(st, size) ==
  CASE st = "normal"   /\ size >= HighMark -> "shedding"
    [] st = "shedding" /\ size <= LowMark  -> "normal"
    [] OTHER -> st

(* What popPriorityBatch takes from lane s: whatever room the lanes of     *)
(* higher priority leave in the batch.                                     *)
Ahead(q, s) == CASE s = 0 -> 0
                 [] s = 1 -> Len(q[0])
                 [] s = 2 -> Len(q[0]) + Len(q[1])
                 [] s = 3 -> Len(q[0]) + Len(q[1]) + Len(q[2])

Take(q, s) ==
  IF Ahead(q, s) >= BatchSize THEN 0
  ELSE IF Len(q[s]) <= BatchSize - Ahead(q, s) THEN Len(q[s])
  ELSE BatchSize - Ahead(q, s)

(* Fault: the lanes are concatenated lowest severity first. *)
FaultyBatchOf(q) == SubSeq(q[3], 1, Take(q, 3)) \o SubSeq(q[2], 1, Take(q, 2))
                    \o SubSeq(q[1], 1, Take(q, 1)) \o SubSeq(q[0], 1, Take(q, 0))

BatchOf(q) == SubSeq(q[0], 1, Take(q, 0)) \o SubSeq(q[1], 1, Take(q, 1))
              \o SubSeq(q[2], 1, Take(q, 2)) \o SubSeq(q[3], 1, Take(q, 3))

Rest(q) == [s \in Severity |-> SubSeq(q[s], Take(q, s) + 1, Len(q[s]))]

(* Fault: the counter runs down. *)
FaultyDropping(s, reason, n) == [dropped EXCEPT ![s][reason] = @ - n]

(* recordDrop, n times. *)
Dropping(s, reason, n) == [dropped EXCEPT ![s][reason] = @ + n]

-----------------------------------------------------------------------------

(* The buffer as index.ts leaves it before it listens: setSink and start   *)
(* have run, nothing has been submitted.                                   *)
Init ==
  /\ lane = [s \in Severity |-> <<>>]
  /\ state = "normal"
  /\ dropped = [s \in Severity |-> [r \in Reason |-> 0]]
  /\ timer = TRUE
  /\ inFlight = [d \in Drainers |-> <<>>]
  /\ drainAll = [h \in Hooks |-> "idle"]
  /\ overdue = {}
  /\ arrived = 0
  /\ delivered = 0

drainVars == <<timer, inFlight, drainAll, overdue, delivered>>

Arrive == /\ arrived < MaxSignals
          /\ arrived' = arrived + 1

(* Fault: > for >=. *)
FaultyOverCeiling(s) == state = "shedding" /\ s # 0 /\ Len(lane[s]) > Ceiling[s]

OverCeiling(s) == state = "shedding" /\ s # 0 /\ Len(lane[s]) >= Ceiling[s]

(* submit: a shed severity at its ceiling is refused. *)
SubmitShed(s) ==
  /\ Arrive
  /\ OverCeiling(s)
  /\ dropped' = Dropping(s, "shed_ceiling", 1)
  /\ UNCHANGED <<lane, state, drainVars>>

(* submit: no slot is left and the signal is not a P0. *)
SubmitFull(s) ==
  /\ Arrive
  /\ ~ OverCeiling(s)
  /\ Size(lane) >= Capacity
  /\ s # 0
  /\ dropped' = Dropping(s, "hard_capacity", 1)
  /\ UNCHANGED <<lane, state, drainVars>>

(* push and recomputeState, after an eviction left the lanes as q. *)
Push(q, s) ==
  /\ lane' = [q EXCEPT ![s] = Append(@, [sev |-> s, id |-> arrived + 1])]
  /\ state' = Recompute(state, Size(q) + 1)

(* Fault: room is tested with <= for <. *)
FaultySubmitAccepted(s) ==
  /\ Arrive
  /\ ~ OverCeiling(s)
  /\ Size(lane) <= Capacity
  /\ Push(lane, s)
  /\ UNCHANGED <<dropped, drainVars>>

SubmitAccepted(s) ==
  /\ Arrive
  /\ ~ OverCeiling(s)
  /\ Size(lane) < Capacity
  /\ Push(lane, s)
  /\ UNCHANGED <<dropped, drainVars>>

(* Fault: PRIORITY_ORDER is searched without reversing it. *)
FaultyIsVictimLane(q, v) == q[v] # <<>> /\ \A t \in Severity : t < v => q[t] = <<>>

(* The lane evictToMakeRoomForP0 takes its victim from. *)
IsVictimLane(q, v) == q[v] # <<>> /\ \A t \in Severity : t > v => q[t] = <<>>

(* submit of a P0 into a full buffer: the oldest signal of the lowest      *)
(* non-empty lane makes room for it.                                       *)
SubmitEvicting ==
  /\ Arrive
  /\ Size(lane) >= Capacity
  /\ \E v \in Severity :
       /\ IsVictimLane(lane, v)
       /\ dropped' = Dropping(v, "hard_capacity", 1)
       /\ Push([lane EXCEPT ![v] = Tail(@)], 0)
  /\ UNCHANGED drainVars

Submit(s) == \/ SubmitShed(s)
             \/ SubmitFull(s)
             \/ SubmitAccepted(s)
             \/ s = 0 /\ SubmitEvicting

-----------------------------------------------------------------------------

(* Fault: the pop does not recompute the state. *)
FaultyStartDrain(d) ==
  /\ Size(lane) > 0
  /\ inFlight' = [inFlight EXCEPT ![d] = BatchOf(lane)]
  /\ lane' = Rest(lane)
  /\ UNCHANGED <<state, dropped, arrived, delivered>>

(* drainToSink up to its await: pop a batch, recompute, call the sink. *)
StartDrain(d) ==
  /\ Size(lane) > 0
  /\ inFlight' = [inFlight EXCEPT ![d] = BatchOf(lane)]
  /\ lane' = Rest(lane)
  /\ state' = Recompute(state, Size(Rest(lane)))
  /\ UNCHANGED <<dropped, arrived, delivered>>

(* Fault: a tick waits for a full batch. *)
FaultyDrainTick ==
  /\ timer
  /\ inFlight[Tick] = <<>>
  /\ Size(lane) >= BatchSize
  /\ StartDrain(Tick)
  /\ UNCHANGED <<timer, drainAll, overdue>>

(* The interval callback: the draining flag skips a tick while the last    *)
(* tick's batch is with the sink. A tick on an empty buffer does nothing.  *)
DrainTick ==
  /\ timer
  /\ inFlight[Tick] = <<>>
  /\ StartDrain(Tick)
  /\ UNCHANGED <<timer, drainAll, overdue>>

SinkSucceeds(d) ==
  /\ inFlight[d] # <<>>
  /\ delivered' = delivered + Len(inFlight[d])
  /\ inFlight' = [inFlight EXCEPT ![d] = <<>>]
  /\ UNCHANGED <<lane, state, dropped, timer, drainAll, overdue, arrived>>

(* Fault: the batch counts once, for its first signal. *)
FaultyCountOf(batch, s) == IF batch[1].sev = s THEN 1 ELSE 0

CountOf(batch, s) == Cardinality({i \in DOMAIN batch : batch[i].sev = s})

(* The sink rejects: the whole batch is counted as dropped, not requeued. *)
SinkFails(d) ==
  /\ inFlight[d] # <<>>
  /\ dropped' = [s \in Severity |->
       [dropped[s] EXCEPT !["sink_failure"] = @ + CountOf(inFlight[d], s)]]
  /\ inFlight' = [inFlight EXCEPT ![d] = <<>>]
  /\ UNCHANGED <<lane, state, timer, drainAll, overdue, arrived, delivered>>

(* The shutdown hook: stop() and, without a yield, the entry of drainAll. *)
BeginShutdown(h) ==
  /\ drainAll[h] = "idle"
  /\ timer' = FALSE
  /\ drainAll' = [drainAll EXCEPT ![h] = "looping"]
  /\ UNCHANGED <<lane, state, dropped, inFlight, overdue, arrived, delivered>>

(* drainAll's loop condition, evaluated when no sink call of h is open. *)
DrainAllStep(h) ==
  /\ drainAll[h] = "looping"
  /\ inFlight[h] = <<>>
  /\ h \notin overdue
  /\ StartDrain(h)
  /\ UNCHANGED <<timer, drainAll, overdue>>

DrainAllReturns(h) ==
  /\ drainAll[h] = "looping"
  /\ inFlight[h] = <<>>
  /\ Size(lane) = 0 \/ h \in overdue
  /\ drainAll' = [drainAll EXCEPT ![h] = "done"]
  /\ UNCHANGED <<lane, state, dropped, timer, inFlight, overdue, arrived,
                 delivered>>

(* Date.now() reaches the deadline; the loop notices at its next test. *)
DeadlinePasses(h) ==
  /\ drainAll[h] = "looping"
  /\ h \notin overdue
  /\ overdue' = overdue \cup {h}
  /\ UNCHANGED <<lane, state, dropped, timer, inFlight, drainAll, arrived,
                 delivered>>

Next ==
  \/ \E s \in Severity : Submit(s)
  \/ DrainTick
  \/ \E d \in Drainers : SinkSucceeds(d) \/ SinkFails(d)
  \/ \E h \in Hooks : \/ BeginShutdown(h)
                      \/ DrainAllStep(h)
                      \/ DrainAllReturns(h)
                      \/ DeadlinePasses(h)

Spec == Init /\ [][Next]_vars

(* setInterval keeps firing, and a sink call settles one way or the other  *)
(* (queue.add answers or throws once Redis is reachable). Clients are not  *)
(* obliged to submit, nor operators to shut down.                          *)
Fairness == WF_vars(DrainTick) /\ WF_vars(SinkSucceeds(Tick) \/ SinkFails(Tick))

FairSpec == Spec /\ Fairness

-----------------------------------------------------------------------------

Buffered == UNION {Range(lane[s]) : s \in Severity}
Flying   == UNION {Range(inFlight[d]) : d \in Drainers}

(* Every variable stays in its type. *)
TypeOK ==
  /\ lane \in [Severity -> Seq(Signal)]
  /\ state \in {"normal", "shedding"}
  /\ dropped \in [Severity -> [Reason -> Nat]]
  /\ timer \in BOOLEAN
  /\ inFlight \in [Drainers -> Seq(Signal)]
  /\ drainAll \in [Hooks -> {"idle", "looping", "done"}]
  /\ overdue \in SUBSET Hooks
  /\ arrived \in Nat
  /\ delivered \in Nat

(* docs/backpressure.md: totalSize never exceeds the capacity, whatever    *)
(* the mix of arrivals, evictions and drains.                              *)
CapacityBound == Size(lane) <= Capacity

(* recomputeState runs after every change of the size: at or above the     *)
(* high mark the buffer is shedding, at or below the low mark it is not,   *)
(* whichever path (submit, eviction, tick, drainAll) changed the size.     *)
WatermarkState ==
  /\ Size(lane) >= HighMark => state = "shedding"
  /\ Size(lane) <= LowMark  => state = "normal"

(* The state flips only at a mark, never between the two. *)
FlipsAtMark ==
  state' # state => \/ state' = "shedding" /\ Size(lane') >= HighMark
                    \/ state' = "normal"   /\ Size(lane') <= LowMark

(* Hysteresis over any mix of submits, evictions, ticks and shutdown       *)
(* drains: the state is where the size puts it at the marks, and does not  *)
(* move between them.                                                      *)
Hysteresis == WatermarkState /\ [][WatermarkState' /\ FlipsAtMark]_vars

(* While shedding, a lane at or above its ceiling does not grow. *)
CeilingHolds ==
  [][\A s \in Sheddable :
       state = "shedding" /\ Len(lane[s]) >= Ceiling[s]
         => Len(lane'[s]) <= Len(lane[s])]_vars

(* A signal leaves the buffer otherwise than to a sink call only to make   *)
(* room for a P0 in a full buffer, only when nothing less severe than it   *)
(* is buffered (so a P0 only when P0 signals are all there is), and only   *)
(* as the oldest of its severity.                                          *)
EvictionOrder ==
  [][\A x \in Buffered \ (Buffered' \cup Flying') :
       /\ Size(lane) = Capacity
       /\ Len(lane'[0]) >= Len(lane[0])
       /\ \A y \in Buffered' \cap Buffered :
            y.sev <= x.sev /\ (y.sev = x.sev => x.id < y.id)]_vars

(* A batch handed to a sink call holds exactly the most urgent signals, in *)
(* order: by severity, and in arrival order within a severity.             *)
Before(x, y) == x.sev < y.sev \/ (x.sev = y.sev /\ x.id < y.id)

DrainPriority ==
  [][\A d \in Drainers : LET batch == inFlight'[d] IN
       inFlight[d] = <<>> /\ batch # <<>> =>
         /\ \A i, j \in DOMAIN batch : i < j => Before(batch[i], batch[j])
         /\ \A x \in Range(batch), y \in Buffered' : Before(x, y)
         /\ Len(batch) = BatchSize \/ Buffered' = {}]_vars

(* Nothing is dropped silently: every signal ever submitted is buffered,   *)
(* with a sink call, delivered, or counted under exactly one drop reason,  *)
(* also while a tick's batch and drainAll's batches are out together.      *)
EverySignalAccounted ==
  arrived = Size(lane) + delivered
            + MapThenSumSet(LAMBDA d : Len(inFlight[d]), Drainers)
            + MapThenSumSet(LAMBDA sr : dropped[sr[1]][sr[2]], Severity \X Reason)

(* While the interval runs, a buffered signal leaves the buffer, to the    *)
(* sink or as a counted drop, and shedding ends. Under Fairness, and with  *)
(* finitely many submissions (MaxSignals): an endless flood of P0 may      *)
(* starve the lower lanes by design.                                       *)
SignalsLeave ==
  \A n \in 1..MaxSignals :
    (\E x \in Buffered : x.id = n) ~> (~ timer \/ ~ \E x \in Buffered : x.id = n)

=============================================================================
