------------------------------ MODULE Alerting ------------------------------
(***************************************************************************)
(* Alert dispatch and escalation (backend/src/services/alerting) of one    *)
(* work item. Actors are calls under way, in whichever replica: dispatch   *)
(* by a worker or a request, or a tick of an escalation scheduler; setInterval*)
(* does not wait for a tick, so ticks of one replica overlap as those of   *)
(* two do. Claims are Redis keys; between any two awaits everything else   *)
(* may run and time may pass.                                              *)
(***************************************************************************)
EXTENDS AlertRules

CONSTANTS
  Actors,
  Cases,        (* <<component type, reported severity>> of the work item     *)
  Window,       (* suppressionWindowSeconds                                   *)
  Events,       (* the events that are dispatched: "created", and states      *)
  MaxAttempts,  (* tries of each channel                                      *)
  MaxTime,      (* bound of the model: the clock stops here                   *)
  MaxTrouble    (* bound of the model: crashes and failures of Redis and of   *)
                (* Postgres; a webhook may always fail                        *)

ASSUME AlertingAssumption ==
  /\ Cases \subseteq (STRING \X Severity)
  /\ Events \subseteq {"created", "OPEN", "INVESTIGATING", "RESOLVED", "CLOSED"}
  /\ Window \in Nat \ {0} /\ MaxAttempts \in Nat \ {0}
  /\ MaxTime \in Nat /\ MaxTrouble \in Nat

VARIABLES
  item,       (* its case; firstSignalAt is 0                                 *)
  open,       (* the row is OPEN                                              *)
  inTime,     (* history: it left OPEN before its delay had passed            *)
  now,
  expires,    (* [Keys -> Nat], the key exists until then; 0 for a key that   *)
              (* does not exist, Forever for one without a TTL                *)
  act,        (* [Actors -> ActState]                                         *)
  trail,      (* the OPEN -> OPEN rows of the audit trail                     *)
  claims,     (* history: [Keys -> Nat], claims that succeeded                *)
  claimedAt,  (* history: [Keys -> Nat], the time of the last one             *)
  trouble

alertingVars == <<item, open, inTime, now, expires, act, trail, claims,
                  claimedAt, trouble>>

(* deliveryKey of an event, and escalationKey. *)
Keys == Events \cup {"escalated"}

Forever == MaxTime + Window + 1

(* tries: those left of each channel that is still being sent to. *)
ActState ==
  [at : {"idle", "claim", "query", "level", "renew", "send", "record"},
   key : Keys, since : 0..MaxTime, added : BOOLEAN,
   tries : [Channel \cup {"console"} -> 0..MaxAttempts]]

NoTries == [c \in Channel \cup {"console"} |-> 0]

NoCall == [at |-> "idle", key |-> "escalated", since |-> 0, added |-> FALSE,
            tries |-> NoTries]

(* What the strategy of its type makes of what was reported. *)
Reconciled == Reconcile(StrategyOf(item[1]).floor, item[2])

(* The delay the two rules promise: that of the more urgent of the floor   *)
(* and the report.                                                         *)
Deadline == LET floor == StrategyOf(item[1]).floor IN
  IF Within[floor] <= Within[item[2]] THEN Within[floor] ELSE Within[item[2]]

(* Created just now, or acknowledged already. *)
AlertingInit ==
  /\ item \in Cases
  /\ open \in BOOLEAN /\ inTime = (~ open /\ 0 < Deadline)
  /\ now = 0
  /\ expires = [k \in Keys |-> 0]
  /\ act = [a \in Actors |-> NoCall]
  /\ trail = 0
  /\ claims = [k \in Keys |-> 0] /\ claimedAt = [k \in Keys |-> 0]
  /\ trouble = 0

Trouble == trouble < MaxTrouble /\ trouble' = trouble + 1

Exists(k) == now < expires[k]

-----------------------------------------------------------------------------
(* Time, and the work item.                                                *)

Pass ==
  /\ now < MaxTime
  /\ now' = now + 1
  /\ UNCHANGED <<item, open, inTime, expires, act, trail, claims, claimedAt, trouble>>

Acknowledge ==
  /\ open
  /\ open' = FALSE /\ inTime' = (now < Deadline)
  /\ UNCHANGED <<item, now, expires, act, trail, claims, claimedAt, trouble>>

-----------------------------------------------------------------------------
(* Claims.                                                                 *)

(* Definitions named Faulty... are seeded faults: each replaces the        *)
(* definition after it in a run that must then find a property violated.   *)

GoTo(a, place) == act' = [act EXCEPT ![a].at = place]

Finish(a) == act' = [act EXCEPT ![a] = NoCall]

(* Fault: a first try, and MaxAttempts more. *)
FaultyTargeting(channels) ==
  [c \in Channel \cup {"console"} |-> IF c \in Targets(channels) THEN MaxAttempts + 1 ELSE 0]

Targeting(channels) ==
  [c \in Channel \cup {"console"} |-> IF c \in Targets(channels) THEN MaxAttempts ELSE 0]

(* The console and each configured channel, side by side. *)
FanOut(a, channels) == act' = [act EXCEPT ![a].at = "send", ![a].tries = Targeting(channels)]

Claim(k) == /\ claims' = [claims EXCEPT ![k] = @ + 1]
            /\ claimedAt' = [claimedAt EXCEPT ![k] = now]

(* dispatch(): a work item was created, or has moved on; a second call for *)
(* an event is a job that ran twice or a replica beside this one.          *)
Dispatch(a, e) ==
  /\ act[a].at = "idle"
  /\ e # "created" => ~ open
  /\ act' = [act EXCEPT ![a] = [NoCall EXCEPT !.at = "claim", !.key = e]]
  /\ UNCHANGED <<item, open, inTime, now, expires, trail, claims, claimedAt, trouble>>

(* Fault: GET, then SET: here the other's SET went in between. *)
FaultyMayDeliver(k) == TRUE

MayDeliver(k) == ~ Exists(k)

(* claimAlertDelivery: SET NX EX, one command. *)
ClaimDelivery(a) ==
  /\ act[a].at = "claim"
  /\ IF MayDeliver(act[a].key)
       THEN /\ Claim(act[a].key)
            /\ expires' = [expires EXCEPT ![act[a].key] = now + Window]
            /\ FanOut(a, StrategyOf(item[1]).channels)
       ELSE Finish(a) /\ UNCHANGED <<expires, claims, claimedAt>>
  /\ UNCHANGED <<item, open, inTime, now, trail, trouble>>

(* A tick takes its time before it asks for candidates. *)
BeginTick(a) ==
  /\ act[a].at = "idle"
  /\ act' = [act EXCEPT ![a] = [NoCall EXCEPT !.at = "query", !.since = now]]
  /\ UNCHANGED <<item, open, inTime, now, expires, trail, claims, claimedAt, trouble>>

(* findOpenWorkItemsOlderThan the shortest of the delays. *)
IsCandidate(t) == open /\ t >= Within["P0"]

(* Fault: every candidate is taken for overdue. *)
FaultyIsOverdue(t) == TRUE

(* maybeEscalate: past the delay of its own severity. *)
IsOverdue(t) == t >= Within[Reconciled]

Query(a) ==
  /\ act[a].at = "query"
  /\ IF IsCandidate(act[a].since) /\ IsOverdue(act[a].since) 
       THEN act' = [act EXCEPT ![a] = [NoCall EXCEPT !.at = "level"]]
       ELSE Finish(a)
  /\ UNCHANGED <<item, open, inTime, now, expires, trail, claims, claimedAt, trouble>>

(* claimEscalationLevel: SADD; whoever added the level has claimed it. *)
ClaimLevel(a) ==
  /\ act[a].at = "level"
  /\ IF Exists("escalated")
       THEN UNCHANGED <<expires, claims, claimedAt>>
       ELSE Claim("escalated") /\ expires' = [expires EXCEPT !["escalated"] = Forever]
  /\ act' = [act EXCEPT ![a].at = "renew", ![a].added = ~ Exists("escalated")]
  /\ UNCHANGED <<item, open, inTime, now, trail, trouble>>

(* EXPIRE, added or not; the only channel is the one to escalate to. *)
RenewLevel(a) ==
  /\ act[a].at = "renew"
  /\ expires' = IF Exists("escalated") THEN [expires EXCEPT !["escalated"] = now + Window]
                                       ELSE expires
  /\ IF act[a].added THEN FanOut(a, {EscalateTo[Reconciled]}) ELSE Finish(a)
  /\ UNCHANGED <<item, open, inTime, now, trail, claims, claimedAt, trouble>>

(* Redis fails the command: logged, and nobody is told. *)
RedisFails(a) ==
  /\ Trouble
  /\ act[a].at \in {"claim", "level", "renew"}
  /\ Finish(a)
  /\ UNCHANGED <<item, open, inTime, now, expires, trail, claims, claimedAt>>

-----------------------------------------------------------------------------
(* Delivery.                                                               *)

(* sendVia: the channel has it. *)
SendVia(a, c) ==
  /\ act[a].at = "send" /\ act[a].tries[c] > 0
  /\ act' = [act EXCEPT ![a].tries[c] = 0]
  /\ UNCHANGED <<item, open, inTime, now, expires, trail, claims, claimedAt, trouble>>

(* It writes to the log. *)
NeverFails(c) == c = "console"

(* A webhook times out or refuses; after the last try the failure is       *)
(* swallowed.                                                              *)
DeliveryFails(a, c) ==
  /\ act[a].at = "send" /\ act[a].tries[c] > 0 /\ ~ NeverFails(c)
  /\ act' = [act EXCEPT ![a].tries[c] = @ - 1]
  /\ UNCHANGED <<item, open, inTime, now, expires, trail, claims, claimedAt, trouble>>

(* Every channel has settled; only an escalation goes to the audit trail.  *)
AllSettled(a) ==
  /\ act[a].at = "send" /\ act[a].tries = NoTries
  /\ IF act[a].key = "escalated" THEN GoTo(a, "record") ELSE Finish(a)
  /\ UNCHANGED <<item, open, inTime, now, expires, trail, claims, claimedAt, trouble>>

(* recordEscalation, whatever the row's state is by now. *)
Record(a) ==
  /\ act[a].at = "record"
  /\ trail' = trail + 1
  /\ Finish(a)
  /\ UNCHANGED <<item, open, inTime, now, expires, claims, claimedAt, trouble>>

(* Its acknowledgement is lost, and withPostgresRetry inserts once more; or*)
(* no try succeeds and the tick fails.                                     *)
RecordUnacknowledged(a) ==
  /\ Trouble
  /\ act[a].at = "record"
  /\ trail' = trail + 1
  /\ UNCHANGED <<item, open, inTime, now, expires, act, claims, claimedAt>>

RecordFails(a) ==
  /\ Trouble
  /\ act[a].at = "record"
  /\ Finish(a)
  /\ UNCHANGED <<item, open, inTime, now, expires, trail, claims, claimedAt>>

(* The process that makes the call stops. *)
Die(a) ==
  /\ Trouble
  /\ act[a].at # "idle"
  /\ Finish(a)
  /\ UNCHANGED <<item, open, inTime, now, expires, trail, claims, claimedAt>>

-----------------------------------------------------------------------------

GoOn(a) ==
  \/ ClaimDelivery(a) \/ Query(a) \/ ClaimLevel(a) \/ RenewLevel(a)
  \/ \E c \in Channel \cup {"console"} : SendVia(a, c) \/ DeliveryFails(a, c)
  \/ AllSettled(a) \/ Record(a)

AlertingFails(a) == \/ RedisFails(a) \/ Die(a)
                    \/ RecordUnacknowledged(a) \/ RecordFails(a)

AlertingNext ==
  \/ Pass \/ Acknowledge
  \/ \E a \in Actors : \/ \E e \in Events : Dispatch(a, e)
                       \/ BeginTick(a) \/ GoOn(a) \/ AlertingFails(a)

(* Time passes, calls go on, and the timers of the schedulers fire. *)
AlertingFairness ==
  /\ WF_alertingVars(Pass)
  /\ \A a \in Actors : /\ WF_alertingVars(GoOn(a))
                       /\ SF_alertingVars(BeginTick(a))

AlertingSpec == AlertingInit /\ [][AlertingNext]_alertingVars

FairAlertingSpec == AlertingSpec /\ AlertingFairness

-----------------------------------------------------------------------------

AlertingTypeOK ==
  /\ item \in Cases /\ open \in BOOLEAN
  /\ inTime \in BOOLEAN /\ now \in 0..MaxTime
  /\ expires \in [Keys -> 0..Forever]
  /\ act \in [Actors -> ActState]
  /\ trail \in Nat /\ trouble \in 0..MaxTrouble
  /\ claims \in [Keys -> Nat] /\ claimedAt \in [Keys -> 0..now]

(* "A restart or a second replica can't double-send" (suppression.ts): two *)
(* calls that both get to send one event, or both escalate, are a window   *)
(* apart, whatever fails between SADD and EXPIRE.                          *)
ClaimsApart ==
  [][\A k \in Keys : claims'[k] # claims[k] =>
       claims[k] = 0 \/ now >= claimedAt[k] + Window]_alertingVars

(* A tick works from a snapshot, but takes its time before it: whoever     *)
(* leaves OPEN before the deadline is not escalated, however late the tick *)
(* gets to the claim.                                                      *)
InTimeNeverEscalated == inTime => claims["escalated"] = 0

(* Webhooks may fail: a work item that stays OPEN is escalated in the end, *)
(* on the console at least, and the row says so.                           *)
OverdueIsEscalated == <>[](open /\ trouble = 0) /\ Deadline <= MaxTime => <>(trail > 0)

=============================================================================
