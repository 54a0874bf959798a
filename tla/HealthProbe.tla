---------------------------- MODULE HealthProbe ----------------------------
(***************************************************************************)
(* The cached dependency probe behind GET /health (backend/src/utils/      *)
(* healthProbe.ts and services/observability/healthProbeInstance.ts). A    *)
(* timer, set when the first tick has ended, starts a tick every Interval  *)
(* and does not wait for the last one; a tick asks every dependency, gives *)
(* each Timeout, and replaces the snapshot once all have settled. Timers   *)
(* fire on time: the event loop is not blocked.                            *)
(***************************************************************************)
EXTENDS Naturals

CONSTANTS
  Dependencies, (* postgres, mongo, redis, queue                              *)
  Interval,     (* probeIntervalMs                                            *)
  Timeout,      (* probeTimeoutMs, of a check and of the tick around it       *)
  MaxUptime,    (* bound of the model: time                                   *)
  MaxOutages    (* bound of the model: changes of a dependency's state        *)

ASSUME ProbeAssumption ==
  /\ Interval \in Nat \ {0} /\ Timeout \in Nat \ {0}
  /\ MaxUptime \in Nat /\ MaxOutages \in Nat

VARIABLES
  uptime,
  health,     (* [Dependencies -> {"up", "refuses", "hangs"}]                 *)
  since,      (* history: [Dependencies -> Nat], when that changed last       *)
  outages,
  nextTick,   (* when the interval timer fires, NoTimer before it is set      *)
  ticks,      (* the ticks under way: [start, answers]                        *)
  snapshot    (* [Dependencies -> {"up", "down"}], what get() returns         *)

probeVars == <<uptime, health, since, outages, nextTick, ticks, snapshot>>

NoTimer == 0

Pending(start) == [start |-> start, answers |-> [d \in Dependencies |-> "pending"]]

(* start() runs the first tick at once and awaits it; until it ends, the   *)
(* fallback.                                                               *)
ProbeInit ==
  /\ uptime = 0
  /\ health = [d \in Dependencies |-> "up"]
  /\ since = [d \in Dependencies |-> 0]
  /\ outages = 0
  /\ nextTick = NoTimer
  /\ ticks = {Pending(0)}
  /\ snapshot = [d \in Dependencies |-> "down"]

Settled(t) == \A d \in Dependencies : t.answers[d] # "pending"

TimerDue == nextTick # NoTimer /\ nextTick <= uptime

(* A timer that is due goes before the time moves on. *)
Due == TimerDue \/ \E t \in ticks : t.start + Timeout <= uptime

WaitOne ==
  /\ uptime < MaxUptime /\ ~ Due
  /\ uptime' = uptime + 1
  /\ UNCHANGED <<health, since, outages, nextTick, ticks, snapshot>>

DependencyChanges(d, h) ==
  /\ outages < MaxOutages /\ outages' = outages + 1
  /\ health[d] # h
  /\ health' = [health EXCEPT ![d] = h]
  /\ since' = [since EXCEPT ![d] = uptime]
  /\ UNCHANGED <<uptime, nextTick, ticks, snapshot>>

TimerFires ==
  /\ TimerDue
  /\ ticks' = ticks \cup {Pending(uptime)}
  /\ nextTick' = uptime + Interval
  /\ UNCHANGED <<uptime, health, since, outages, snapshot>>

Answer(t, d, a) == ticks' = (ticks \ {t}) \cup {[t EXCEPT !.answers[d] = a]}

(* probeDependency: the check answers, or throws at once. *)
CheckSettles(t, d) ==
  /\ t.answers[d] = "pending" /\ health[d] # "hangs"
  /\ Answer(t, d, IF health[d] = "up" THEN "up" ELSE "down")
  /\ UNCHANGED <<uptime, health, since, outages, nextTick, snapshot>>

(* After the first tick, however it ended, start() sets the interval. *)
SetInterval == nextTick' = IF nextTick = NoTimer THEN uptime + Interval ELSE nextTick

(* Definitions named Faulty... are seeded faults: each replaces the        *)
(* definition after it in a run that must then find a property violated.   *)

(* Fault: the timer of the whole tick fires before those of its checks. *)
FaultyCheckTimesOut(t, d) ==
  /\ t.answers[d] = "pending" /\ health[d] = "hangs"
  /\ t.start + Timeout <= uptime
  /\ ticks' = ticks \ {t}
  /\ SetInterval
  /\ UNCHANGED <<uptime, health, since, outages, snapshot>>

(* Its own timer, set before the timer of the tick with the same delay and *)
(* so fired before it, settles a hanging check: the tick's never wins.     *)
CheckTimesOut(t, d) ==
  /\ t.answers[d] = "pending" /\ health[d] = "hangs"
  /\ t.start + Timeout <= uptime
  /\ Answer(t, d, "down")
  /\ UNCHANGED <<uptime, health, since, outages, nextTick, snapshot>>

(* The tick ends: the last to end wins, not the last that began. *)
TickEnds(t) ==
  /\ Settled(t)
  /\ snapshot' = t.answers
  /\ ticks' = ticks \ {t}
  /\ SetInterval
  /\ UNCHANGED <<uptime, health, since, outages>>

ProbeNext ==
  \/ WaitOne \/ TimerFires
  \/ \E d \in Dependencies : \E h \in {"up", "refuses", "hangs"} : DependencyChanges(d, h)
  \/ \E t \in ticks : \/ \E d \in Dependencies : CheckSettles(t, d) \/ CheckTimesOut(t, d)
                      \/ TickEnds(t)

ProbeSpec == ProbeInit /\ [][ProbeNext]_probeVars

-----------------------------------------------------------------------------

(* buildHealthResponse: shedding is no outage. *)
HttpStatus == IF \A d \in Dependencies : snapshot[d] = "up" THEN 200 ELSE 503

ProbeTypeOK ==
  /\ uptime \in Nat /\ outages \in Nat /\ nextTick \in Nat
  /\ health \in [Dependencies -> {"up", "refuses", "hangs"}]
  /\ since \in [Dependencies -> Nat]
  /\ \A t \in ticks : t.start <= uptime /\ uptime <= t.start + Timeout
  /\ snapshot \in [Dependencies -> {"up", "down"}]

(* Only where ticks overlap can one that began before the change undo what *)
(* a later one has shown already; the next to end shows it again. And a    *)
(* change that the first tick may have missed waits for the second, which  *)
(* begins an Interval after the first has ended, not after it began.       *)
Lag(d) ==
  Interval + Timeout + IF Timeout >= Interval \/ since[d] < Timeout THEN Timeout ELSE 0

Steady(d) == uptime > since[d] + Lag(d)

(* A cached answer may be old, not wrong for good: whatever ticks overlap, *)
(* whichever ends last and however long the first one hung, an outage or a *)
(* recovery that has lasted longer than that shows in what GET /health     *)
(* answers.                                                                *)
HealthShowsOutages ==
  /\ (\E d \in Dependencies : Steady(d) /\ health[d] # "up") => HttpStatus = 503
  /\ (\A d \in Dependencies : Steady(d) /\ health[d] = "up") => HttpStatus = 200

=============================================================================
