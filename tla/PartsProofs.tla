----------------------------- MODULE PartsProofs -----------------------------
(***************************************************************************)
(* Proofs about the parts of the backend that share no state, each for     *)
(* every value of its constants: alerting, a process from boot to exit,    *)
(* the numbers that it tells of itself, the limiter, the health probe.     *)
(***************************************************************************)
EXTENDS Alerting, NodeLifecycle, Telemetry, RateLimiter, HealthProbe, SumTheorems, TLAPS

-----------------------------------------------------------------------------
(* Alerting: types.                                                        *)

LEMMA Strategies ==
  ASSUME NEW t
  PROVE  StrategyOf(t).floor \in Severity /\ StrategyOf(t).channels \subseteq Channel
<1>1. DOMAIN Registered = {"RDBMS", "NOSQL", "CACHE", "API", "MCP_HOST", "QUEUE"}
  BY DEF Registered
<1>2. CASE t \in DOMAIN Registered
  <2>1. t \in {"RDBMS", "NOSQL", "CACHE", "API", "MCP_HOST", "QUEUE"}
    BY <1>1, <1>2
  <2> QED
    BY <1>2, <2>1 DEF StrategyOf, Registered, RdbmsStrategy, NosqlStrategy, CacheStrategy,
       ApiStrategy, McpHostStrategy, QueueStrategy, Severity, Channel
<1>3. CASE t \notin DOMAIN Registered
  BY <1>3 DEF StrategyOf, DefaultStrategy, Severity, Channel
<1> QED
  BY <1>2, <1>3

(* The delay that a tick waits for is the one that was promised: the rank  *)
(* of severities and the order of their delays agree.                      *)
LEMMA MoreUrgentIsSooner ==
  ASSUME item \in Cases
  PROVE  /\ Reconciled \in Severity
         /\ Within[Reconciled] = Deadline /\ Deadline \in Nat
<1> DEFINE f == StrategyOf(item[1]).floor
           r == item[2]
<1>1. f \in Severity /\ r \in Severity
  BY Strategies, AlertingAssumption
<1>2. Reconciled = IF Urgency[r] < Urgency[f] THEN r ELSE f
  BY DEF Reconciled, Reconcile
<1>3. Deadline = IF Within[f] <= Within[r] THEN Within[f] ELSE Within[r]
  BY DEF Deadline
<1> HIDE DEF f, r
<1>4. /\ Within["P0"] \in Nat /\ Within["P1"] \in Nat /\ Within["P2"] \in Nat /\ Within["P3"] \in Nat
      /\ Within["P0"] <= Within["P1"] /\ Within["P1"] <= Within["P2"]
      /\ Within["P2"] <= Within["P3"]
  BY RulesAssumption DEF Severity
<1>5. /\ Urgency["P0"] = 0 /\ Urgency["P1"] = 1 /\ Urgency["P2"] = 2 /\ Urgency["P3"] = 3
  BY DEF Urgency
<1>6. Reconciled \in Severity
  BY <1>1, <1>2
<1>7. Within[Reconciled] = Deadline
  <2>1. CASE f = "P0"
    BY <1>1, <1>2, <1>3, <1>4, <1>5, <2>1 DEF Severity
  <2>2. CASE f = "P1"
    BY <1>1, <1>2, <1>3, <1>4, <1>5, <2>2 DEF Severity
  <2>3. CASE f = "P2"
    BY <1>1, <1>2, <1>3, <1>4, <1>5, <2>3 DEF Severity
  <2>4. CASE f = "P3"
    BY <1>1, <1>2, <1>3, <1>4, <1>5, <2>4 DEF Severity
  <2> QED
    BY <1>1, <2>1, <2>2, <2>3, <2>4 DEF Severity
<1>8. Deadline \in Nat
  BY <1>6, <1>7, RulesAssumption
<1> QED
  BY <1>6, <1>7, <1>8

LEMMA CallStates ==
  /\ NoTries \in [Channel \cup {"console"} -> 0..MaxAttempts]
  /\ NoCall \in ActState /\ NoCall.at = "idle"
  /\ \A channels : Targeting(channels) \in [Channel \cup {"console"} -> 0..MaxAttempts]
<1>1. MaxAttempts \in Nat
  BY AlertingAssumption
<1>2. NoTries \in [Channel \cup {"console"} -> 0..MaxAttempts]
  BY <1>1 DEF NoTries
<1>3. 0 \in 0..MaxTime
  BY AlertingAssumption
<1>4. NoCall \in ActState /\ NoCall.at = "idle"
  BY <1>2, <1>3 DEF NoCall, ActState, Keys
<1>5. \A channels : Targeting(channels) \in [Channel \cup {"console"} -> 0..MaxAttempts]
  BY <1>1 DEF Targeting
<1> QED
  BY <1>2, <1>4, <1>5

LEMMA AlertingInitTypes == AlertingInit => AlertingTypeOK
<1> SUFFICES ASSUME AlertingInit PROVE AlertingTypeOK
  OBVIOUS
<1>1. 0 \in 0..MaxTime /\ 0 \in 0..Forever /\ 0 \in 0..MaxTrouble /\ MaxTime \in Nat
  BY AlertingAssumption DEF Forever
<1> QED
  BY <1>1, CallStates DEF AlertingInit, AlertingTypeOK

(* What every step of a call is: its own state becomes a legal one.        *)
LEMMA CallTypes ==
  ASSUME AlertingTypeOK, NEW a \in Actors
  PROVE  /\ act[a] \in ActState /\ now \in Nat
         /\ \A r \in ActState : [act EXCEPT ![a] = r] \in [Actors -> ActState]
         /\ now + Window \in 0..Forever /\ Forever \in 0..Forever /\ now \in 0..now
<1>1. MaxTime \in Nat /\ Window \in Nat
  BY AlertingAssumption
<1>2. now \in 0..MaxTime
  BY DEF AlertingTypeOK
<1> QED
  BY <1>1, <1>2 DEF AlertingTypeOK, Forever

LEMMA AlertingStepTypes ==
  ASSUME AlertingTypeOK
  PROVE  /\ Pass \/ Acknowledge => AlertingTypeOK'
         /\ \A a \in Actors : /\ BeginTick(a) \/ GoOn(a) \/ AlertingFails(a) => AlertingTypeOK'
                              /\ \A e \in Events : Dispatch(a, e) => AlertingTypeOK'
<1>0. /\ MaxTime \in Nat /\ MaxTrouble \in Nat /\ MaxAttempts \in Nat /\ "escalated" \in Keys
      /\ trouble \in 0..MaxTrouble /\ (Trouble => trouble' \in 0..MaxTrouble)
  BY AlertingAssumption DEF AlertingTypeOK, Trouble, Keys
<1>1. ASSUME Pass PROVE AlertingTypeOK'
  <2>1. now' \in 0..MaxTime /\ 0..now \subseteq 0..now'
    BY <1>0, <1>1 DEF Pass, AlertingTypeOK
  <2> QED
    BY <1>1, <2>1 DEF Pass, AlertingTypeOK
<1>2. ASSUME Acknowledge PROVE AlertingTypeOK'
  <2>1. (now < Deadline) \in BOOLEAN
    OBVIOUS
  <2>2. inTime' \in BOOLEAN /\ open' \in BOOLEAN
    BY <1>2, <2>1, Zenon DEF Acknowledge
  <2>3. UNCHANGED <<item, now, expires, act, trail, claims, claimedAt, trouble>>
    BY <1>2 DEF Acknowledge
  <2> QED
    BY <2>2, <2>3 DEF AlertingTypeOK
<1>3. ASSUME NEW a \in Actors, act' \in [Actors -> ActState],
             trouble' \in 0..MaxTrouble,
             UNCHANGED <<item, open, inTime, now, expires, trail, claims, claimedAt>>
      PROVE  AlertingTypeOK'
  BY <1>3 DEF AlertingTypeOK
<1>4. ASSUME NEW a \in Actors, NEW e \in Events, Dispatch(a, e) PROVE AlertingTypeOK'
  <2>1. [NoCall EXCEPT !.at = "claim", !.key = e] \in ActState
    BY CallStates DEF ActState, Keys
  <2> QED
    BY <1>0, <1>3, <1>4, <2>1, CallTypes DEF Dispatch
<1>5. ASSUME NEW a \in Actors, BeginTick(a) PROVE AlertingTypeOK'
  <2>1. [NoCall EXCEPT !.at = "query", !.since = now] \in ActState
    BY CallStates DEF ActState, AlertingTypeOK
  <2> QED
    BY <1>0, <1>3, <1>5, <2>1, CallTypes DEF BeginTick
<1>6. ASSUME NEW a \in Actors, ClaimDelivery(a) PROVE AlertingTypeOK'
  <2>1. act[a] \in ActState /\ act[a].key \in Keys
    BY CallTypes DEF ActState
  <2>2. act' \in [Actors -> ActState]
    <3> DEFINE t == Targeting(StrategyOf(item[1]).channels)
    <3>1. t \in [Channel \cup {"console"} -> 0..MaxAttempts]
      BY CallStates
    <3>2. \/ act' = [act EXCEPT ![a].at = "send", ![a].tries = t]
          \/ act' = [act EXCEPT ![a] = NoCall]
      BY <1>6 DEF ClaimDelivery, FanOut, Finish
    <3> HIDE DEF t
    <3> QED
      BY <2>1, <3>1, <3>2, CallStates DEF AlertingTypeOK, ActState
  <2>3. /\ claims' \in [Keys -> Nat] /\ claimedAt' \in [Keys -> 0..now]
        /\ expires' \in [Keys -> 0..Forever]
    BY <1>6, <2>1, CallTypes DEF ClaimDelivery, Claim, AlertingTypeOK
  <2> QED
    BY <1>6, <2>2, <2>3 DEF ClaimDelivery, AlertingTypeOK
<1>7. ASSUME NEW a \in Actors, Query(a) PROVE AlertingTypeOK'
  <2>1. [NoCall EXCEPT !.at = "level"] \in ActState
    BY CallStates DEF ActState
  <2> QED
    BY <1>0, <1>3, <1>7, <2>1, CallTypes, CallStates DEF Query, Finish
<1>8. ASSUME NEW a \in Actors, ClaimLevel(a) PROVE AlertingTypeOK'
  <2>1. act' \in [Actors -> ActState]
    <3>1. PICK b \in BOOLEAN : act' = [act EXCEPT ![a].at = "renew", ![a].added = b]
      <4>1. (~ Exists("escalated")) \in BOOLEAN
        OBVIOUS
      <4> QED
        BY <1>8, <4>1, Zenon DEF ClaimLevel
    <3>2. [act[a] EXCEPT !.at = "renew", !.added = b] \in ActState
      BY CallTypes DEF ActState
    <3>3. act' = [act EXCEPT ![a] = [act[a] EXCEPT !.at = "renew", !.added = b]]
      BY <3>1, CallTypes DEF ActState, AlertingTypeOK
    <3> QED
      BY <3>2, <3>3, CallTypes
  <2>2. /\ claims' \in [Keys -> Nat] /\ claimedAt' \in [Keys -> 0..now]
        /\ expires' \in [Keys -> 0..Forever]
    BY <1>0, <1>8, CallTypes DEF ClaimLevel, Claim, AlertingTypeOK
  <2> QED
    BY <1>8, <2>1, <2>2 DEF ClaimLevel, AlertingTypeOK
<1>9. ASSUME NEW a \in Actors, RenewLevel(a) PROVE AlertingTypeOK'
  <2>1. act' \in [Actors -> ActState]
    <3> DEFINE t == Targeting({EscalateTo[Reconciled]})
    <3>1. t \in [Channel \cup {"console"} -> 0..MaxAttempts]
      BY CallStates
    <3>2. \/ act' = [act EXCEPT ![a].at = "send", ![a].tries = t]
          \/ act' = [act EXCEPT ![a] = NoCall]
      BY <1>9 DEF RenewLevel, FanOut, Finish
    <3> HIDE DEF t
    <3> QED
      BY <3>1, <3>2, CallStates DEF AlertingTypeOK, ActState
  <2>2. expires' \in [Keys -> 0..Forever]
    BY <1>0, <1>9, CallTypes DEF RenewLevel, AlertingTypeOK
  <2> QED
    BY <1>9, <2>1, <2>2 DEF RenewLevel, AlertingTypeOK
<1>10. ASSUME NEW a \in Actors, NEW c \in Channel \cup {"console"},
              SendVia(a, c) \/ DeliveryFails(a, c)
       PROVE  AlertingTypeOK'
  <2>1. act[a] \in ActState /\ act[a].tries \in [Channel \cup {"console"} -> 0..MaxAttempts]
    BY CallTypes DEF ActState
  <2>2. act[a].tries[c] \in 0..MaxAttempts
    BY <2>1
  <2>3. CASE SendVia(a, c)
    <3>1. act' = [act EXCEPT ![a].tries[c] = 0] /\ 0 \in 0..MaxAttempts
      BY <1>0, <2>3 DEF SendVia
    <3>2. act' \in [Actors -> ActState]
      BY <2>1, <3>1 DEF AlertingTypeOK, ActState
    <3> QED
      BY <1>0, <1>3, <2>3, <3>2 DEF SendVia
  <2>4. CASE DeliveryFails(a, c)
    <3>1. /\ act' = [act EXCEPT ![a].tries[c] = act[a].tries[c] - 1]
          /\ act[a].tries[c] - 1 \in 0..MaxAttempts
      BY <1>0, <2>2, <2>4 DEF DeliveryFails
    <3>2. act' \in [Actors -> ActState]
      BY <2>1, <3>1 DEF AlertingTypeOK, ActState
    <3> QED
      BY <1>0, <1>3, <2>4, <3>2 DEF DeliveryFails
  <2> QED
    BY <1>10, <2>3, <2>4
<1>11. ASSUME NEW a \in Actors, AllSettled(a) PROVE AlertingTypeOK'
  <2>1. act' \in [Actors -> ActState]
    BY <1>11, CallStates DEF AllSettled, GoTo, Finish, AlertingTypeOK, ActState
  <2> QED
    BY <1>0, <1>3, <1>11, <2>1 DEF AllSettled
<1>12. ASSUME NEW a \in Actors, Record(a) \/ RecordUnacknowledged(a) \/ RecordFails(a)
       PROVE  AlertingTypeOK'
  <2>1. act' = act \/ act' = [act EXCEPT ![a] = NoCall]
    BY <1>12 DEF Record, RecordUnacknowledged, RecordFails, Finish
  <2>2. act' \in [Actors -> ActState]
    BY <2>1, CallTypes, CallStates DEF AlertingTypeOK
  <2>3. trouble' \in 0..MaxTrouble /\ trail' \in Nat
    BY <1>0, <1>12 DEF Record, RecordUnacknowledged, RecordFails, AlertingTypeOK
  <2> QED
    BY <1>12, <2>2, <2>3 DEF Record, RecordUnacknowledged, RecordFails, AlertingTypeOK
<1>13. ASSUME NEW a \in Actors, RedisFails(a) \/ Die(a) PROVE AlertingTypeOK'
  <2>1. act' \in [Actors -> ActState]
    BY <1>13, CallTypes, CallStates DEF RedisFails, Die, Finish
  <2> QED
    BY <1>0, <1>3, <1>13, <2>1 DEF RedisFails, Die
<1> QED
  BY <1>1, <1>2, <1>4, <1>5, <1>6, <1>7, <1>8, <1>9, <1>10, <1>11, <1>12, <1>13
     DEF GoOn, AlertingFails

LEMMA AlertingNextTypes == AlertingTypeOK /\ [AlertingNext]_alertingVars => AlertingTypeOK'
<1> SUFFICES ASSUME AlertingTypeOK, [AlertingNext]_alertingVars PROVE AlertingTypeOK'
  OBVIOUS
<1>1. CASE UNCHANGED alertingVars
  BY <1>1 DEF alertingVars, AlertingTypeOK
<1>2. CASE AlertingNext
  BY <1>2, AlertingStepTypes DEF AlertingNext
<1> QED
  BY <1>1, <1>2

(* Alerts, calls, claims and the trail keep their types. *)
THEOREM AlertingTyped == AlertingSpec => []AlertingTypeOK
  BY AlertingInitTypes, AlertingNextTypes, PTL DEF AlertingSpec

-----------------------------------------------------------------------------
(* Alerting: claims.                                                       *)

(* A claimed key lasts for a window from its claim on. *)
ClaimedKeysLast == \A k \in Keys : claims[k] = 0 \/ claimedAt[k] + Window <= expires[k]

Late == Deadline <= now /\ ~ inTime

(* Whoever is about to escalate, or did, was late: the clock of a tick was *)
(* read before the row was.                                                *)
OnlyTheLate ==
  /\ inTime => ~ open
  /\ \A a \in Actors :
       /\ act[a].at = "claim" => act[a].key # "escalated"
       /\ act[a].at = "query" => act[a].since <= now
       /\ act[a].at = "level" => Late
  /\ claims["escalated"] # 0 => Late

AlertingInv == AlertingTypeOK /\ ClaimedKeysLast /\ OnlyTheLate

(* Steps that claim nothing, let no key go and take nobody to the level.   *)
LEMMA NothingClaimed ==
  ASSUME AlertingInv, AlertingTypeOK', NEW a \in Actors,
         UNCHANGED <<item, open, inTime, now, expires, claims, claimedAt>>,
         \A b \in Actors \ {a} : act'[b] = act[b],
         \/ act'[a].at \notin {"claim", "query", "level"}
         \/ act'[a].at = "claim" /\ act'[a].key # "escalated"
         \/ act'[a].at = "query" /\ act'[a].since <= now
         \/ act'[a].at = "level" /\ Late
  PROVE  AlertingInv'
<1>1. ClaimedKeysLast'
  BY DEF AlertingInv, ClaimedKeysLast
<1>2. Late' = Late
  BY DEF Late, Deadline
<1>3. OnlyTheLate'
  BY <1>2 DEF AlertingInv, OnlyTheLate
<1> QED
  BY <1>1, <1>3 DEF AlertingInv

LEMMA AlertingStep ==
  ASSUME AlertingInv, AlertingTypeOK'
  PROVE  /\ Pass \/ Acknowledge => AlertingInv'
         /\ \A a \in Actors : /\ BeginTick(a) \/ GoOn(a) \/ AlertingFails(a) => AlertingInv'
                              /\ \A e \in Events : Dispatch(a, e) => AlertingInv'
<1>0. /\ AlertingTypeOK /\ ClaimedKeysLast /\ OnlyTheLate
      /\ now \in Nat /\ Window \in Nat \ {0} /\ Deadline \in Nat
      /\ "escalated" \in Keys /\ "escalated" \notin Events
      /\ act \in [Actors -> ActState]
  BY AlertingAssumption, MoreUrgentIsSooner DEF AlertingInv, AlertingTypeOK, Keys
<1>1. ASSUME Pass PROVE AlertingInv'
  <2>1. now' = now + 1 /\ UNCHANGED <<item, open, inTime, expires, act, claims, claimedAt>>
    BY <1>1 DEF Pass
  <2>2. Late => Late'
    BY <1>0, <2>1 DEF Late, Deadline
  <2>3. OnlyTheLate'
    <3>1. \A a \in Actors : act[a].at = "query" => act[a].since <= now'
      <4>1. \A a \in Actors : act[a].since \in Nat
        BY <1>0 DEF ActState
      <4> QED
        BY <1>0, <2>1, <4>1 DEF OnlyTheLate
    <3> QED
      BY <1>0, <2>1, <2>2, <3>1 DEF OnlyTheLate
  <2>4. ClaimedKeysLast'
    BY <1>0, <2>1 DEF ClaimedKeysLast
  <2> QED
    BY <2>3, <2>4 DEF AlertingInv
<1>2. ASSUME Acknowledge PROVE AlertingInv'
  <2>1. /\ open /\ ~ open' /\ (inTime' <=> now < Deadline)
        /\ UNCHANGED <<item, now, expires, act, claims, claimedAt>>
    BY <1>2, Zenon DEF Acknowledge
  <2>2. Late => Late'
    BY <1>0, <2>1 DEF Late, Deadline
  <2>3. OnlyTheLate'
    BY <1>0, <2>1, <2>2 DEF OnlyTheLate
  <2>4. ClaimedKeysLast'
    BY <1>0, <2>1 DEF ClaimedKeysLast
  <2> QED
    BY <2>3, <2>4 DEF AlertingInv
<1>3. ASSUME NEW a \in Actors, NEW e \in Events, Dispatch(a, e) PROVE AlertingInv'
  <2>1. act'[a] = [NoCall EXCEPT !.at = "claim", !.key = e]
    BY <1>0, <1>3 DEF Dispatch
  <2>2. act'[a].at = "claim" /\ act'[a].key # "escalated"
    BY <1>0, <2>1 DEF NoCall
  <2> QED
    BY <1>0, <1>3, <2>2, NothingClaimed DEF Dispatch
<1>4. ASSUME NEW a \in Actors, BeginTick(a) PROVE AlertingInv'
  <2>1. act'[a] = [NoCall EXCEPT !.at = "query", !.since = now]
    BY <1>0, <1>4 DEF BeginTick
  <2>2. act'[a].at = "query" /\ act'[a].since <= now
    BY <1>0, <2>1 DEF NoCall
  <2> QED
    BY <1>0, <1>4, <2>2, NothingClaimed DEF BeginTick
<1>5. ASSUME NEW a \in Actors, ClaimDelivery(a) PROVE AlertingInv'
  <2> DEFINE k == act[a].key
  <2>1. k \in Keys /\ k # "escalated" /\ act[a].at = "claim"
    BY <1>0, <1>5 DEF ActState, ClaimDelivery, OnlyTheLate
  <2>2. /\ act'[a].at \in {"send", "idle"} /\ \A b \in Actors \ {a} : act'[b] = act[b]
        /\ UNCHANGED <<item, open, inTime, now>>
    BY <1>0, <1>5, CallStates DEF ClaimDelivery, FanOut, Finish, ActState
  <2> HIDE DEF k
  <2>3. \/ UNCHANGED <<expires, claims, claimedAt>>
        \/ /\ claims' = [claims EXCEPT ![k] = @ + 1]
           /\ claimedAt' = [claimedAt EXCEPT ![k] = now]
           /\ expires' = [expires EXCEPT ![k] = now + Window]
    BY <1>5 DEF ClaimDelivery, Claim, k
  <2>4. CASE UNCHANGED <<expires, claims, claimedAt>>
    BY <2>2, <2>4, NothingClaimed
  <2>5. CASE /\ claims' = [claims EXCEPT ![k] = @ + 1]
             /\ claimedAt' = [claimedAt EXCEPT ![k] = now]
             /\ expires' = [expires EXCEPT ![k] = now + Window]
    <3>1. ClaimedKeysLast'
      BY <1>0, <2>1, <2>5 DEF ClaimedKeysLast, AlertingTypeOK
    <3>2. Late' = Late
      BY <2>2 DEF Late, Deadline
    <3>3. claims'["escalated"] = claims["escalated"]
      BY <1>0, <2>1, <2>5 DEF AlertingTypeOK
    <3>4. OnlyTheLate'
      BY <1>0, <2>2, <3>2, <3>3 DEF OnlyTheLate
    <3> QED
      BY <3>1, <3>4 DEF AlertingInv
  <2> QED
    BY <2>3, <2>4, <2>5
<1>6. ASSUME NEW a \in Actors, Query(a) PROVE AlertingInv'
  <2>1. CASE IsCandidate(act[a].since) /\ IsOverdue(act[a].since)
    <3>1. act'[a] = [NoCall EXCEPT !.at = "level"] /\ act'[a].at = "level"
      BY <1>0, <1>6, <2>1 DEF Query, NoCall
    <3>2. Late
      <4>1. act[a].since \in Nat /\ act[a].since <= now /\ Deadline <= act[a].since
        BY <1>0, <1>6, <2>1, MoreUrgentIsSooner
           DEF Query, ActState, OnlyTheLate, IsOverdue, AlertingTypeOK
      <4> QED
        BY <1>0, <2>1, <4>1 DEF IsCandidate, OnlyTheLate, Late
    <3> QED
      BY <1>0, <1>6, <3>1, <3>2, NothingClaimed DEF Query, Finish
  <2>2. CASE ~ (IsCandidate(act[a].since) /\ IsOverdue(act[a].since))
    BY <1>0, <1>6, <2>2, CallStates, NothingClaimed DEF Query, Finish
  <2> QED
    BY <2>1, <2>2
<1>7. ASSUME NEW a \in Actors, ClaimLevel(a) PROVE AlertingInv'
  <2>1. /\ act'[a].at = "renew" /\ \A b \in Actors \ {a} : act'[b] = act[b]
        /\ UNCHANGED <<item, open, inTime, now>> /\ act[a].at = "level"
    BY <1>0, <1>7, Zenon DEF ClaimLevel, ActState
  <2>2. \/ UNCHANGED <<expires, claims, claimedAt>>
        \/ /\ claims' = [claims EXCEPT !["escalated"] = @ + 1]
           /\ claimedAt' = [claimedAt EXCEPT !["escalated"] = now]
           /\ expires' = [expires EXCEPT !["escalated"] = Forever]
    BY <1>7, Zenon DEF ClaimLevel, Claim
  <2>3. CASE UNCHANGED <<expires, claims, claimedAt>>
    BY <2>1, <2>3, NothingClaimed
  <2>4. CASE /\ claims' = [claims EXCEPT !["escalated"] = @ + 1]
             /\ claimedAt' = [claimedAt EXCEPT !["escalated"] = now]
             /\ expires' = [expires EXCEPT !["escalated"] = Forever]
    <3>1. now + Window <= Forever
      BY <1>0, CallTypes
    <3>2. ClaimedKeysLast'
      BY <1>0, <2>4, <3>1 DEF ClaimedKeysLast, AlertingTypeOK
    <3>3. Late /\ Late'
      BY <1>0, <2>1 DEF Late, Deadline, OnlyTheLate
    <3>4. OnlyTheLate'
      BY <1>0, <2>1, <3>3 DEF OnlyTheLate
    <3> QED
      BY <3>2, <3>4 DEF AlertingInv
  <2> QED
    BY <2>2, <2>3, <2>4
<1>8. ASSUME NEW a \in Actors, RenewLevel(a) PROVE AlertingInv'
  <2>1. /\ act'[a].at \in {"send", "idle"} /\ \A b \in Actors \ {a} : act'[b] = act[b]
        /\ UNCHANGED <<item, open, inTime, now, claims, claimedAt>>
    BY <1>0, <1>8, CallStates DEF RenewLevel, FanOut, Finish, ActState
  <2>2. \/ expires' = expires
        \/ expires' = [expires EXCEPT !["escalated"] = now + Window]
    BY <1>8 DEF RenewLevel
  <2>3. ClaimedKeysLast'
    <3>1. claimedAt["escalated"] \in Nat /\ claimedAt["escalated"] <= now
      BY <1>0 DEF AlertingTypeOK
    <3> QED
      BY <1>0, <2>1, <2>2, <3>1 DEF ClaimedKeysLast, AlertingTypeOK
  <2>4. Late' = Late
    BY <2>1 DEF Late, Deadline
  <2>5. OnlyTheLate'
    BY <1>0, <2>1, <2>4 DEF OnlyTheLate
  <2> QED
    BY <2>3, <2>5 DEF AlertingInv
<1>9. ASSUME NEW a \in Actors,
             \/ RedisFails(a) \/ Die(a) \/ AllSettled(a) \/ Record(a)
             \/ RecordUnacknowledged(a) \/ RecordFails(a)
             \/ \E c \in Channel \cup {"console"} : SendVia(a, c) \/ DeliveryFails(a, c)
      PROVE  AlertingInv'
  <2>1. UNCHANGED <<item, open, inTime, now, expires, claims, claimedAt>>
    BY <1>9, Zenon DEF RedisFails, Die, AllSettled, Record, RecordUnacknowledged, RecordFails,
                       SendVia, DeliveryFails
  <2>2. /\ act'[a].at \in {"idle", "record", "send"}
        /\ \A b \in Actors \ {a} : act'[b] = act[b]
    <3>1. CASE RedisFails(a) \/ Die(a) \/ Record(a) \/ RecordFails(a)
      BY <1>0, <3>1, CallStates DEF RedisFails, Die, Record, RecordFails, Finish
    <3>2. CASE AllSettled(a)
      BY <1>0, <3>2, CallStates DEF AllSettled, GoTo, Finish, ActState
    <3>3. CASE RecordUnacknowledged(a)
      BY <1>0, <3>3 DEF RecordUnacknowledged
    <3>4. ASSUME NEW c \in Channel \cup {"console"}, SendVia(a, c) \/ DeliveryFails(a, c)
          PROVE  /\ act'[a].at = "send"
                 /\ \A b \in Actors \ {a} : act'[b] = act[b]
      BY <1>0, <3>4 DEF SendVia, DeliveryFails, ActState
    <3> QED
      BY <1>9, <3>1, <3>2, <3>3, <3>4
  <2> QED
    BY <2>1, <2>2, NothingClaimed
<1> QED
  BY <1>1, <1>2, <1>3, <1>4, <1>5, <1>6, <1>7, <1>8, <1>9 DEF GoOn, AlertingFails

LEMMA AlertingInductive == AlertingSpec => []AlertingInv
<1>1. AlertingInit => AlertingInv
  <2> SUFFICES ASSUME AlertingInit PROVE AlertingInv
    OBVIOUS
  <2>1. AlertingTypeOK /\ Deadline \in Nat
    BY AlertingInitTypes, MoreUrgentIsSooner DEF AlertingTypeOK
  <2>2. \A k \in Keys : claims[k] = 0
    BY DEF AlertingInit
  <2>3. \A a \in Actors : act[a].at = "idle"
    BY CallStates DEF AlertingInit
  <2>4. inTime => ~ open
    BY Zenon DEF AlertingInit
  <2> QED
    BY <2>1, <2>2, <2>3, <2>4 DEF AlertingInv, ClaimedKeysLast, OnlyTheLate, Keys
<1>2. AlertingInv /\ [AlertingNext]_alertingVars => AlertingInv'
  <2> SUFFICES ASSUME AlertingInv, [AlertingNext]_alertingVars PROVE AlertingInv'
    OBVIOUS
  <2>1. AlertingTypeOK'
    BY AlertingNextTypes DEF AlertingInv
  <2>2. CASE UNCHANGED alertingVars
    <3>1. Late' = Late
      BY <2>2 DEF alertingVars, Late, Deadline
    <3> QED
      BY <2>1, <2>2, <3>1 DEF alertingVars, AlertingInv, ClaimedKeysLast, OnlyTheLate
  <2>3. CASE AlertingNext
    BY <2>1, <2>3, AlertingStep DEF AlertingNext
  <2> QED
    BY <2>2, <2>3
<1> QED
  BY <1>1, <1>2, PTL DEF AlertingSpec

(* Whoever left OPEN before the deadline is not escalated, however late a  *)
(* tick gets to its claim.                                                 *)
THEOREM NoneInTimeEscalated == AlertingSpec => []InTimeNeverEscalated
<1>1. AlertingInv => InTimeNeverEscalated
  BY DEF AlertingInv, OnlyTheLate, Late, InTimeNeverEscalated
<1> QED
  BY <1>1, AlertingInductive, PTL

(* Two calls that both send one event, or both escalate, are a window      *)
(* apart, whatever fails between the commands of a claim.                  *)
THEOREM ClaimsAreApart == AlertingSpec => ClaimsApart
<1>1. ASSUME AlertingInv, [AlertingNext]_alertingVars, NEW k \in Keys, claims'[k] # claims[k]
      PROVE  claims[k] = 0 \/ now >= claimedAt[k] + Window
  <2>1. now \in Nat /\ Window \in Nat /\ expires[k] \in Nat /\ claimedAt[k] \in Nat
    BY <1>1, AlertingAssumption DEF AlertingInv, AlertingTypeOK
  <2>2. ~ Exists(k)
    <3>1. PICK a \in Actors : ClaimDelivery(a) \/ ClaimLevel(a)
      <4>1. ~ UNCHANGED claims
        BY <1>1
      <4>2. AlertingNext
        BY <1>1, <4>1 DEF alertingVars
      <4>3. ~ Pass /\ ~ Acknowledge
        BY <4>1 DEF Pass, Acknowledge
      <4>4. ASSUME NEW a \in Actors
            PROVE  /\ \A e \in Events : ~ Dispatch(a, e)
                   /\ ~ BeginTick(a) /\ ~ Query(a) /\ ~ RenewLevel(a)
                   /\ ~ AllSettled(a) /\ ~ Record(a) /\ ~ AlertingFails(a)
                   /\ \A c \in Channel \cup {"console"} : ~ SendVia(a, c) /\ ~ DeliveryFails(a, c)
        BY <4>1, Zenon DEF Dispatch, BeginTick, Query, RenewLevel, AllSettled, Record, SendVia,
                           DeliveryFails, AlertingFails, RedisFails, Die, RecordUnacknowledged,
                           RecordFails
      <4> QED
        BY <4>2, <4>3, <4>4, Zenon DEF AlertingNext, GoOn
    <3>2. CASE ClaimDelivery(a)
      <4>1. MayDeliver(act[a].key) /\ claims' = [claims EXCEPT ![act[a].key] = @ + 1]
        BY <1>1, <3>2 DEF ClaimDelivery, Claim
      <4>2. act[a].key = k
        BY <1>1, <4>1 DEF AlertingInv, AlertingTypeOK
      <4> QED
        BY <4>1, <4>2 DEF MayDeliver
    <3>3. CASE ClaimLevel(a)
      <4>1. ~ Exists("escalated") /\ claims' = [claims EXCEPT !["escalated"] = @ + 1]
        BY <1>1, <3>3, Zenon DEF ClaimLevel, Claim
      <4>2. k = "escalated"
        BY <1>1, <4>1 DEF AlertingInv, AlertingTypeOK
      <4> QED
        BY <4>1, <4>2
    <3> QED
      BY <3>1, <3>2, <3>3
  <2>3. expires[k] <= now
    BY <2>1, <2>2 DEF Exists
  <2> QED
    BY <1>1, <2>1, <2>3 DEF AlertingInv, ClaimedKeysLast
<1>2. AlertingInv /\ [AlertingNext]_alertingVars =>
        [\A k \in Keys : claims'[k] # claims[k] =>
           claims[k] = 0 \/ now >= claimedAt[k] + Window]_alertingVars
  BY <1>1
<1> QED
  BY <1>2, AlertingInductive, PTL DEF AlertingSpec, ClaimsApart

-----------------------------------------------------------------------------
(* NodeLifecycle: from boot to exit.                                       *)

LEMMA NodeInitTypes == NodeInit => NodeTypeOK
<1> SUFFICES ASSUME NodeInit PROVE NodeTypeOK
  OBVIOUS
<1>1. Cardinality(buffer) = 0 /\ 0 <= Room /\ 0 \in 0..MaxBreaks
  BY FS_EmptySet, NodeAssumption DEF NodeInit
<1>2. request \in [Requests -> SUBSET Signals] /\ batch \in [Loops -> SUBSET Signals]
  BY DEF NodeInit
<1>3. hook \in [Shutdowns -> HookState]
  BY DEF NodeInit, HookState
<1> QED
  BY <1>1, <1>2, <1>3 DEF NodeInit, NodeTypeOK

LEMMA SubmitTypes ==
  ASSUME NodeTypeOK, NEW b \in SUBSET Signals, SubmitBatch(b)
  PROVE  /\ buffer' \subseteq Signals /\ Cardinality(buffer') <= Room
         /\ refused' \subseteq Signals /\ acked' \subseteq Signals /\ late' \subseteq Signals
<1>1. PICK kept \in SUBSET b : \E gone \in SUBSET (buffer \cup kept) :
        /\ buffer' = (buffer \cup kept) \ gone
        /\ Cardinality(buffer') <= Room
        /\ refused' = refused \cup (b \ kept) \cup gone
        /\ acked' = IF kept = b THEN acked \cup b ELSE acked
        /\ late' = IF \E h \in Shutdowns : Drained(h) THEN late \cup kept ELSE late
  BY Zenon DEF SubmitBatch
<1>2. buffer \subseteq Signals /\ refused \subseteq Signals /\ acked \subseteq Signals
      /\ late \subseteq Signals
  BY DEF NodeTypeOK
<1> QED
  BY <1>1, <1>2

(* A batch that leaves the buffer leaves it no fuller. *)
LEMMA SendTypes ==
  ASSUME NodeTypeOK, NEW l \in Loops, Send(l)
  PROVE  NodeTypeOK'
<1>1. PICK b \in (SUBSET buffer) \ {{}} : batch' = [batch EXCEPT ![l] = b] /\ buffer' = buffer \ b
  BY DEF Send
<1>2. IsFiniteSet(Signals) /\ Room \in Nat
  BY NodeAssumption
<1>3. buffer \subseteq Signals /\ Cardinality(buffer) <= Room
  BY DEF NodeTypeOK
<1>4. IsFiniteSet(buffer)
  BY <1>2, <1>3, FS_Subset
<1>5. buffer' \subseteq buffer
  BY <1>1
<1>6. Cardinality(buffer') <= Cardinality(buffer) /\ IsFiniteSet(buffer')
  BY <1>4, <1>5, FS_Subset
<1>7. Cardinality(buffer) \in Nat /\ Cardinality(buffer') \in Nat
  BY <1>4, <1>6, FS_CardinalityType
<1>8. Cardinality(buffer') <= Room
  BY <1>2, <1>3, <1>6, <1>7
<1>9. batch' \in [Loops -> SUBSET Signals]
  BY <1>1, <1>3 DEF NodeTypeOK
<1> QED
  BY <1>3, <1>5, <1>8, <1>9 DEF NodeTypeOK, Send

LEMMA NodeNextTypes == NodeTypeOK /\ [NodeNext]_nodeVars => NodeTypeOK'
<1> SUFFICES ASSUME NodeTypeOK, [NodeNext]_nodeVars PROVE NodeTypeOK'
  OBVIOUS
<1>1. CASE UNCHANGED nodeVars
  BY <1>1 DEF NodeTypeOK, nodeVars
<1>2. CASE BootStep
  BY <1>2 DEF NodeTypeOK, BootStep, flow
<1>3. CASE BootFails
  BY <1>3, NodeAssumption DEF NodeTypeOK, BootFails, flow, Break
<1>4. ASSUME NEW r \in Requests, Receive(r) PROVE NodeTypeOK'
  BY <1>4 DEF NodeTypeOK, Receive, Fresh
<1>5. ASSUME NEW r \in Requests, Limit(r) PROVE NodeTypeOK'
  BY <1>5 DEF NodeTypeOK, Limit
<1>6. ASSUME NEW r \in Requests, Admit(r) PROVE NodeTypeOK'
  BY <1>6, SubmitTypes DEF NodeTypeOK, Admit
<1>7. CASE BulkTest
  <2>1. PICK b \in SUBSET (Fresh \ Malformed) : SubmitBatch(b)
    BY <1>7 DEF BulkTest
  <2>2. b \in SUBSET Signals
    BY DEF Fresh
  <2> QED
    BY <1>7, <2>1, <2>2, SubmitTypes DEF NodeTypeOK, BulkTest
<1>8. CASE DrainOnTimer
  BY <1>8, SendTypes DEF DrainOnTimer, Loops
<1>9. ASSUME NEW l \in Loops, SinkTakes(l) PROVE NodeTypeOK'
  BY <1>9 DEF NodeTypeOK, SinkTakes
<1>10. ASSUME NEW l \in Loops, SinkThrows(l) PROVE NodeTypeOK'
  BY <1>10, NodeAssumption DEF NodeTypeOK, SinkThrows, Break
<1>11. ASSUME NEW h \in Shutdowns, DrainInHook(h) PROVE NodeTypeOK'
  BY <1>11, SendTypes DEF DrainInHook, Loops
<1>12. ASSUME NEW h \in Shutdowns,
              \/ GetSignal(h) \/ StopTimers(h) \/ DrainReturns(h) \/ DrainRunsOut(h)
              \/ StopWorkers(h) \/ CloseHttp(h)
       PROVE  NodeTypeOK'
  BY <1>12 DEF NodeTypeOK, GetSignal, StopTimers, DrainReturns, DrainRunsOut, StopWorkers,
               CloseHttp, Advance, HookState, flow
<1>13. ASSUME NEW h \in Shutdowns, CloseTwice(h) \/ ShutdownFails(h) \/ Exit(h)
       PROVE  NodeTypeOK'
  BY <1>13, NodeAssumption DEF NodeTypeOK, CloseTwice, ShutdownFails, Exit, flow, Break
<1> QED
  BY <1>1, <1>2, <1>3, <1>4, <1>5, <1>6, <1>7, <1>8, <1>9, <1>10, <1>11, <1>12, <1>13
     DEF NodeNext

(* A signal that was answered with 202 is somewhere. *)
AckedIsSomewhere ==
  acked \subseteq buffer \cup queued \cup refused \cup UNION {batch[l] : l \in Loops}

(* Only a shutdown that drains holds a batch of its own. *)
HooksHoldNothing ==
  \A h \in Shutdowns \ {"tick"} : hook[h] # "drain" => batch[h] = {}

(* Behind a drain that ran dry the buffer holds what came after it. *)
LeftIsLate == (\E h \in Shutdowns : Drained(h)) /\ ~ ranOut => buffer \subseteq late

ExitAfterDrain == exited = "0" => \E h \in Shutdowns : Drained(h)

NodeInv ==
  /\ NodeTypeOK
  /\ AckedIsSomewhere /\ HooksHoldNothing /\ LeftIsLate /\ ExitAfterDrain

LEMMA AckedStep == NodeInv /\ NodeNext => AckedIsSomewhere'
<1> SUFFICES ASSUME NodeInv, NodeNext PROVE AckedIsSomewhere'
  OBVIOUS
<1>0. AckedIsSomewhere /\ batch \in [Loops -> SUBSET Signals]
  BY DEF NodeInv, NodeTypeOK
<1>1. ASSUME NEW b, SubmitBatch(b), batch' = batch, queued' = queued PROVE AckedIsSomewhere'
  <2>1. PICK kept \in SUBSET b : \E gone \in SUBSET (buffer \cup kept) :
          /\ buffer' = (buffer \cup kept) \ gone
          /\ refused' = refused \cup (b \ kept) \cup gone
          /\ acked' = IF kept = b THEN acked \cup b ELSE acked
    BY <1>1, Zenon DEF SubmitBatch
  <2> QED
    BY <1>0, <1>1, <2>1 DEF AckedIsSomewhere
<1>2. ASSUME NEW l \in Loops, Send(l) PROVE AckedIsSomewhere'
  <2>1. PICK b \in (SUBSET buffer) \ {{}} : batch' = [batch EXCEPT ![l] = b] /\ buffer' = buffer \ b
    BY <1>2 DEF Send
  <2>2. batch[l] = {} /\ UNCHANGED <<acked, queued, refused>>
    BY <1>2 DEF Send
  <2>3. batch'[l] = b /\ \A k \in Loops : k # l => batch'[k] = batch[k]
    BY <1>0, <2>1
  <2> QED
    BY <1>0, <2>1, <2>2, <2>3 DEF AckedIsSomewhere
<1>3. ASSUME NEW l \in Loops, SinkTakes(l) \/ SinkThrows(l) PROVE AckedIsSomewhere'
  <2>1. /\ batch' = [batch EXCEPT ![l] = {}] /\ UNCHANGED <<acked, buffer>>
        /\ queued \cup refused \cup batch[l] \subseteq queued' \cup refused'
    BY <1>3 DEF SinkTakes, SinkThrows
  <2>2. \A k \in Loops : k # l => batch'[k] = batch[k]
    BY <1>0, <2>1
  <2> QED
    BY <1>0, <2>1, <2>2 DEF AckedIsSomewhere
<1>4. ASSUME /\ UNCHANGED <<acked, buffer, queued, batch>>
             /\ refused \subseteq refused'
      PROVE  AckedIsSomewhere'
  BY <1>0, <1>4 DEF AckedIsSomewhere
<1>5. CASE BootStep \/ BootFails
  BY <1>4, <1>5 DEF BootStep, BootFails, flow
<1>6. ASSUME NEW r \in Requests, Receive(r) \/ Limit(r) PROVE AckedIsSomewhere'
  BY <1>4, <1>6 DEF Receive, Limit
<1>7. ASSUME NEW r \in Requests, Admit(r) PROVE AckedIsSomewhere'
  BY <1>1, <1>7 DEF Admit
<1>8. CASE BulkTest
  BY <1>1, <1>8 DEF BulkTest
<1>9. CASE DrainOnTimer
  BY <1>2, <1>9 DEF DrainOnTimer, Loops
<1>10. ASSUME NEW h \in Shutdowns, DrainInHook(h) PROVE AckedIsSomewhere'
  BY <1>2, <1>10 DEF DrainInHook, Loops
<1>11. ASSUME NEW h \in Shutdowns,
              \/ GetSignal(h) \/ StopTimers(h) \/ DrainReturns(h) \/ DrainRunsOut(h)
              \/ StopWorkers(h) \/ CloseHttp(h) \/ CloseTwice(h) \/ ShutdownFails(h) \/ Exit(h)
       PROVE  AckedIsSomewhere'
  BY <1>4, <1>11 DEF GetSignal, StopTimers, DrainReturns, DrainRunsOut, StopWorkers, CloseHttp,
     CloseTwice, ShutdownFails, Exit, flow
<1> QED
  BY <1>3, <1>5, <1>6, <1>7, <1>8, <1>9, <1>10, <1>11 DEF NodeNext

LEMMA HooksStep == NodeInv /\ NodeNext => HooksHoldNothing' /\ ExitAfterDrain'
<1> SUFFICES ASSUME NodeInv, NodeNext PROVE HooksHoldNothing' /\ ExitAfterDrain'
  OBVIOUS
<1>0. /\ HooksHoldNothing /\ ExitAfterDrain /\ exited = "no"
      /\ batch \in [Loops -> SUBSET Signals] /\ hook \in [Shutdowns -> HookState]
      /\ Shutdowns \subseteq Loops /\ "tick" \in Loops
  BY DEF NodeInv, NodeTypeOK, NodeNext, Loops
<1>1. ASSUME UNCHANGED <<batch, hook, exited>> PROVE HooksHoldNothing' /\ ExitAfterDrain'
  BY <1>0, <1>1 DEF HooksHoldNothing, ExitAfterDrain
<1>2. ASSUME NEW l \in Loops, SinkTakes(l) \/ SinkThrows(l)
      PROVE  HooksHoldNothing' /\ ExitAfterDrain'
  <2>1. batch' = [batch EXCEPT ![l] = {}] /\ UNCHANGED <<hook, exited>>
    BY <1>2 DEF SinkTakes, SinkThrows
  <2> QED
    BY <1>0, <2>1 DEF HooksHoldNothing, ExitAfterDrain
<1>3. ASSUME NEW l \in Loops, Send(l), l = "tick" \/ hook[l] = "drain"
      PROVE  HooksHoldNothing' /\ ExitAfterDrain'
  <2>1. UNCHANGED <<hook, exited>> /\ \A k \in Loops : k # l => batch'[k] = batch[k]
    BY <1>0, <1>3 DEF Send
  <2> QED
    BY <1>0, <1>3, <2>1 DEF HooksHoldNothing, ExitAfterDrain
<1>4. CASE BootStep
  BY <1>1, <1>4 DEF BootStep, flow
<1>5. ASSUME NEW r \in Requests, Receive(r) \/ Limit(r) \/ Admit(r)
      PROVE  HooksHoldNothing' /\ ExitAfterDrain'
  BY <1>1, <1>5 DEF Receive, Limit, Admit
<1>6. CASE BulkTest
  BY <1>1, <1>6 DEF BulkTest
<1>7. CASE DrainOnTimer
  BY <1>0, <1>3, <1>7 DEF DrainOnTimer
<1>8. ASSUME NEW h \in Shutdowns, DrainInHook(h) PROVE HooksHoldNothing' /\ ExitAfterDrain'
  BY <1>0, <1>3, <1>8 DEF DrainInHook
<1>9. ASSUME NEW h \in Shutdowns,
             \/ GetSignal(h) \/ StopTimers(h) \/ DrainReturns(h) \/ DrainRunsOut(h)
             \/ StopWorkers(h) \/ CloseHttp(h)
      PROVE  HooksHoldNothing' /\ ExitAfterDrain'
  <2>1. UNCHANGED <<batch, exited>> /\ \E place : hook' = [hook EXCEPT ![h] = place]
    BY <1>9 DEF GetSignal, StopTimers, DrainReturns, DrainRunsOut, StopWorkers, CloseHttp,
       Advance, flow
  <2>2. \A k \in Shutdowns : k # h => hook'[k] = hook[k]
    BY <1>0, <2>1
  <2>3. hook[h] # "drain" \/ batch[h] = {}
    BY <1>9 DEF GetSignal, StopTimers, DrainReturns, DrainRunsOut, StopWorkers, CloseHttp
  <2> QED
    BY <1>0, <2>1, <2>2, <2>3 DEF HooksHoldNothing, ExitAfterDrain
<1>10. ASSUME UNCHANGED <<batch, hook>>, exited' = "1" PROVE HooksHoldNothing' /\ ExitAfterDrain'
  BY <1>0, <1>10 DEF HooksHoldNothing, ExitAfterDrain
<1>11. CASE BootFails
  BY <1>10, <1>11 DEF BootFails, flow
<1>12. ASSUME NEW h \in Shutdowns, CloseTwice(h) \/ ShutdownFails(h)
       PROVE  HooksHoldNothing' /\ ExitAfterDrain'
  BY <1>10, <1>12 DEF CloseTwice, ShutdownFails, flow
<1>13. ASSUME NEW h \in Shutdowns, Exit(h) PROVE HooksHoldNothing' /\ ExitAfterDrain'
  <2>1. UNCHANGED <<batch, hook>> /\ hook[h] = "clients"
    BY <1>13 DEF Exit, flow
  <2> QED
    BY <1>0, <2>1 DEF HooksHoldNothing, ExitAfterDrain, Drained
<1> QED
  BY <1>2, <1>4, <1>5, <1>6, <1>7, <1>8, <1>9, <1>11, <1>12, <1>13 DEF NodeNext

LEMMA LeftStep == NodeInv /\ NodeNext => LeftIsLate'
<1> SUFFICES ASSUME NodeInv, NodeNext PROVE LeftIsLate'
  OBVIOUS
<1>0. LeftIsLate /\ hook \in [Shutdowns -> HookState]
  BY DEF NodeInv, NodeTypeOK
<1>1. ASSUME NEW b, SubmitBatch(b), UNCHANGED <<hook, ranOut>> PROVE LeftIsLate'
  <2>1. PICK kept \in SUBSET b : \E gone \in SUBSET (buffer \cup kept) :
          /\ buffer' = (buffer \cup kept) \ gone
          /\ late' = IF \E h \in Shutdowns : Drained(h) THEN late \cup kept ELSE late
    BY <1>1, Zenon DEF SubmitBatch
  <2>2. (\E h \in Shutdowns : Drained(h))' <=> \E h \in Shutdowns : Drained(h)
    BY <1>1 DEF Drained
  <2> QED
    BY <1>0, <1>1, <2>1, <2>2 DEF LeftIsLate
<1>2. ASSUME UNCHANGED <<hook, ranOut, late>>, buffer' \subseteq buffer PROVE LeftIsLate'
  BY <1>0, <1>2 DEF LeftIsLate, Drained
<1>3. CASE BootStep \/ BootFails
  BY <1>2, <1>3 DEF BootStep, BootFails, flow
<1>4. ASSUME NEW r \in Requests, Receive(r) \/ Limit(r) PROVE LeftIsLate'
  BY <1>2, <1>4 DEF Receive, Limit
<1>5. ASSUME NEW r \in Requests, Admit(r) PROVE LeftIsLate'
  BY <1>1, <1>5 DEF Admit
<1>6. CASE BulkTest
  BY <1>1, <1>6 DEF BulkTest
<1>7. ASSUME NEW l \in Loops, Send(l) \/ SinkTakes(l) \/ SinkThrows(l) PROVE LeftIsLate'
  BY <1>2, <1>7 DEF Send, SinkTakes, SinkThrows
<1>8. CASE DrainOnTimer
  BY <1>7, <1>8 DEF DrainOnTimer, Loops
<1>9. ASSUME NEW h \in Shutdowns, DrainInHook(h) PROVE LeftIsLate'
  BY <1>7, <1>9 DEF DrainInHook, Loops
<1>10. ASSUME NEW h \in Shutdowns, DrainReturns(h) \/ DrainRunsOut(h) PROVE LeftIsLate'
  <2>1. buffer' = {} \/ ranOut'
    BY <1>10 DEF DrainReturns, DrainRunsOut, flow
  <2> QED
    BY <2>1 DEF LeftIsLate
<1>11. ASSUME NEW h \in Shutdowns,
              GetSignal(h) \/ StopTimers(h) \/ StopWorkers(h) \/ CloseHttp(h)
       PROVE  LeftIsLate'
  <2>1. UNCHANGED <<late, buffer, ranOut>>
    BY <1>11 DEF GetSignal, StopTimers, StopWorkers, CloseHttp, flow
  <2>2. \A k \in Shutdowns : Drained(k)' => Drained(k)
    BY <1>0, <1>11 DEF GetSignal, StopTimers, StopWorkers, CloseHttp, Advance, Drained
  <2> QED
    BY <1>0, <2>1, <2>2 DEF LeftIsLate
<1>12. ASSUME NEW h \in Shutdowns, CloseTwice(h) \/ ShutdownFails(h) \/ Exit(h)
       PROVE  LeftIsLate'
  BY <1>2, <1>12 DEF CloseTwice, ShutdownFails, Exit, flow
<1> QED
  BY <1>3, <1>4, <1>5, <1>6, <1>7, <1>8, <1>9, <1>10, <1>11, <1>12 DEF NodeNext

LEMMA NodeInductive == NodeSpec => []NodeInv
<1>1. NodeInit => NodeInv
  <2> SUFFICES ASSUME NodeInit PROVE NodeInv
    OBVIOUS
  <2>1. AckedIsSomewhere /\ LeftIsLate /\ ExitAfterDrain
    BY DEF NodeInit, AckedIsSomewhere, LeftIsLate, ExitAfterDrain
  <2>2. HooksHoldNothing
    BY DEF NodeInit, HooksHoldNothing, Loops
  <2> QED
    BY <2>1, <2>2, NodeInitTypes DEF NodeInv
<1>2. NodeInv /\ [NodeNext]_nodeVars => NodeInv'
  <2> SUFFICES ASSUME NodeInv, [NodeNext]_nodeVars PROVE NodeInv'
    OBVIOUS
  <2>1. NodeTypeOK'
    BY NodeNextTypes DEF NodeInv
  <2>2. CASE UNCHANGED nodeVars
    BY <2>1, <2>2 DEF nodeVars, NodeInv, AckedIsSomewhere, HooksHoldNothing, LeftIsLate,
       ExitAfterDrain, Drained
  <2>3. CASE NodeNext
    BY <2>1, <2>3, AckedStep, HooksStep, LeftStep DEF NodeInv
  <2> QED
    BY <2>2, <2>3
<1> QED
  BY <1>1, <1>2, PTL DEF NodeSpec

(* "Nothing in flight at shutdown time is lost" as far as it goes, for any *)
(* number of requests, signals and overlapping shutdowns.                  *)
THEOREM NodeLossesHaveACause == NodeSpec => []LossesHaveACause
<1>1. NodeInv => LossesHaveACause
  <2> SUFFICES ASSUME NodeInv, exited = "0", ~ ranOut,
                      NEW s \in acked \ (queued \cup refused)
               PROVE  s \in late \cup batch["tick"]
                              \cup UNION {batch[h] : h \in {k \in Shutdowns : hook[k] = "drain"}}
    BY DEF LossesHaveACause
  <2>1. buffer \subseteq late
    BY DEF NodeInv, ExitAfterDrain, LeftIsLate
  <2>2. s \in buffer \/ \E l \in Loops : s \in batch[l]
    BY DEF NodeInv, AckedIsSomewhere
  <2>3. ASSUME NEW l \in Shutdowns \ {"tick"}, s \in batch[l] PROVE hook[l] = "drain"
    BY <2>3 DEF NodeInv, HooksHoldNothing
  <2> QED
    BY <2>1, <2>2, <2>3 DEF Loops
<1> QED
  BY <1>1, NodeInductive, PTL

-----------------------------------------------------------------------------
(* Telemetry.                                                              *)

SignalsOf(t) == [k \in Ticks |-> t[k].signals]
DropsOf(t) == [k \in Ticks |-> t[k].drops]

(* The folds of ScrapeAddsUp are sums of these. *)
LEMMA TickFolds ==
  /\ MapThenSumSet(LAMBDA k : tick[k].signals, Ticks) = SumOf(SignalsOf(tick), Ticks)
  /\ MapThenSumSet(LAMBDA k : tick[k].drops, Ticks) = SumOf(DropsOf(tick), Ticks)
<1>0. IsFiniteSet(Ticks)
  BY TelemetryAssumption
<1>1. MapThenSumSet(LAMBDA k : tick[k].signals, Ticks) = SumOf(SignalsOf(tick), Ticks)
  <2> DEFINE f == SignalsOf(tick)
             P(g) == g = [s \in SUBSET Ticks |->
                           IF s = {} THEN 0
                           ELSE tick[CHOOSE x \in s : TRUE].signals + g[s \ {CHOOSE x \in s : TRUE}]]
  <2>1. MapThenSumSet(LAMBDA k : tick[k].signals, Ticks) = (CHOOSE g : P(g))[Ticks]
    BY DEF MapThenSumSet, MapThenFoldSet
  <2>2. \A s \in SUBSET Ticks : s # {} => f[Chosen(s)] = tick[Chosen(s)].signals
    BY ChosenIn DEF SignalsOf
  <2>3. \A g : P(g) <=> SumsTo(g, f, Ticks)
    BY <2>2 DEF SumsTo, Chosen
  <2> HIDE DEF P, f
  <2>4. SumsTo(CHOOSE g : P(g), f, Ticks)
    BY <1>0, <2>3, SumExists
  <2> QED
    BY <1>0, <2>1, <2>4, SumOfUnique DEF f
<1>2. MapThenSumSet(LAMBDA k : tick[k].drops, Ticks) = SumOf(DropsOf(tick), Ticks)
  <2> DEFINE f == DropsOf(tick)
             P(g) == g = [s \in SUBSET Ticks |->
                           IF s = {} THEN 0
                           ELSE tick[CHOOSE x \in s : TRUE].drops + g[s \ {CHOOSE x \in s : TRUE}]]
  <2>1. MapThenSumSet(LAMBDA k : tick[k].drops, Ticks) = (CHOOSE g : P(g))[Ticks]
    BY DEF MapThenSumSet, MapThenFoldSet
  <2>2. \A s \in SUBSET Ticks : s # {} => f[Chosen(s)] = tick[Chosen(s)].drops
    BY ChosenIn DEF DropsOf
  <2>3. \A g : P(g) <=> SumsTo(g, f, Ticks)
    BY <2>2 DEF SumsTo, Chosen
  <2> HIDE DEF P, f
  <2>4. SumsTo(CHOOSE g : P(g), f, Ticks)
    BY <1>0, <2>3, SumExists
  <2> QED
    BY <1>0, <2>1, <2>4, SumOfUnique DEF f
<1> QED
  BY <1>1, <1>2

(* A tick that starts or ends changes the sums by what it holds. *)
LEMMA TickSums ==
  ASSUME tick \in [Ticks -> TickState], NEW k \in Ticks, NEW s \in TickState,
         tick' = [tick EXCEPT ![k] = s]
  PROVE  /\ SumOf(SignalsOf(tick'), Ticks) = SumOf(SignalsOf(tick), Ticks) + s.signals - tick[k].signals
         /\ SumOf(DropsOf(tick'), Ticks) = SumOf(DropsOf(tick), Ticks) + s.drops - tick[k].drops
         /\ tick' \in [Ticks -> TickState]
<1>0. IsFiniteSet(Ticks)
  BY TelemetryAssumption
<1>1. /\ tick' \in [Ticks -> TickState] /\ tick'[k] = s
      /\ \A x \in Ticks : x # k => tick'[x] = tick[x]
  OBVIOUS
<1> DEFINE f == SignalsOf(tick)
           h == SignalsOf(tick')
           d == DropsOf(tick)
           e == DropsOf(tick')
<1>2. /\ \A x \in Ticks : f[x] \in Int /\ h[x] \in Int
      /\ \A x \in Ticks : x # k => h[x] = f[x]
      /\ h[k] = s.signals /\ f[k] = tick[k].signals
  BY <1>1 DEF SignalsOf, TickState
<1>3. /\ \A x \in Ticks : d[x] \in Int /\ e[x] \in Int
      /\ \A x \in Ticks : x # k => e[x] = d[x]
      /\ e[k] = s.drops /\ d[k] = tick[k].drops
  BY <1>1 DEF DropsOf, TickState
<1> HIDE DEF f, h, d, e
<1>4. SumOf(h, Ticks) = SumOf(f, Ticks) + h[k] - f[k]
  BY <1>0, <1>2, SumOfChange
<1>5. SumOf(e, Ticks) = SumOf(d, Ticks) + e[k] - d[k]
  BY <1>0, <1>3, SumOfChange
<1>6. SumOf(h, Ticks) = SumOf(f, Ticks) + s.signals - tick[k].signals
  BY <1>2, <1>4
<1>7. SumOf(e, Ticks) = SumOf(d, Ticks) + s.drops - tick[k].drops
  BY <1>3, <1>5
<1> QED
  BY <1>1, <1>6, <1>7 DEF f, h, d, e

SumsAreNumbers ==
  SumOf(SignalsOf(tick), Ticks) \in Nat /\ SumOf(DropsOf(tick), Ticks) \in Nat

LEMMA TickSumsType == tick \in [Ticks -> TickState] => SumsAreNumbers
<1> SUFFICES ASSUME tick \in [Ticks -> TickState] PROVE SumsAreNumbers
  OBVIOUS
<1>0. IsFiniteSet(Ticks)
  BY TelemetryAssumption
<1>1. \A k \in Ticks : SignalsOf(tick)[k] \in Nat /\ DropsOf(tick)[k] \in Nat
  BY DEF SignalsOf, DropsOf, TickState
<1> QED
  BY <1>0, <1>1, SumOfType DEF SumsAreNumbers

(* What the numbers are of, between the reads of a scrape. *)
Accounts ==
  /\ dropped + depth + popped <= received /\ accepted <= received /\ lastDropped <= dropped
  /\ \A c \in Scrapes : scrape[c].at # "idle" => scrape[c].dropped + scrape[c].depth <= received
  /\ \A k \in Ticks : tick[k].at = "idle" => tick[k].signals = 0 /\ tick[k].drops = 0

ScrapesAddUp ==
  \A c \in Scrapes :
    scrape[c].at = "sent" => /\ scrape[c].dropped + scrape[c].depth <= scrape[c].received
                             /\ scrape[c].accepted <= scrape[c].received

LinesAddUp ==
  /\ accepted = printed.signals + throughput + SumOf(SignalsOf(tick), Ticks)
  /\ lastDropped = printed.drops + SumOf(DropsOf(tick), Ticks)
  /\ jobs = printed.latencies + samples

TelemetryInv == TelemetryTypeOK /\ Accounts /\ ScrapesAddUp /\ LinesAddUp

LEMMA AddsUp == TelemetryInv => ScrapeAddsUp
  BY TickFolds DEF TelemetryInv, ScrapesAddUp, LinesAddUp, ScrapeAddsUp

LEMMA TelemetryStep == TelemetryInv /\ TelemetryNext => TelemetryInv'
<1> SUFFICES ASSUME TelemetryInv, TelemetryNext PROVE TelemetryInv'
  OBVIOUS
<1>0. /\ received \in Nat /\ accepted \in Nat /\ depth \in Nat /\ dropped \in Nat
      /\ popped \in Nat /\ sent \in Nat /\ throughput \in Nat /\ jobs \in Nat /\ samples \in Nat
      /\ lastDropped \in Nat
      /\ scrape \in [Scrapes -> ScrapeState] /\ tick \in [Ticks -> TickState] /\ printed \in Sums
      /\ Burst \in Nat
  BY TelemetryAssumption DEF TelemetryInv, TelemetryTypeOK
<1> DEFINE signals == SumOf(SignalsOf(tick), Ticks)
           drops == SumOf(DropsOf(tick), Ticks)
<1>a. signals \in Nat /\ drops \in Nat
  BY <1>0, TickSumsType DEF SumsAreNumbers
<1>b. /\ accepted = printed.signals + throughput + signals
      /\ lastDropped = printed.drops + drops
      /\ jobs = printed.latencies + samples
  BY DEF TelemetryInv, LinesAddUp
<1>c. /\ printed.signals \in Nat /\ printed.drops \in Nat /\ printed.latencies \in Nat
      /\ printed.lines \in Nat
  BY <1>0 DEF Sums
<1>d. Accounts /\ ScrapesAddUp
  BY DEF TelemetryInv
<1>e. ASSUME tick' = tick
      PROVE  SumOf(SignalsOf(tick'), Ticks) = signals /\ SumOf(DropsOf(tick'), Ticks) = drops
  BY <1>e
<1> HIDE DEF signals, drops
<1>1. ASSUME NEW n \in 1..Burst, Ingest(n) PROVE TelemetryInv'
  <2>1. PICK kept \in 0..n : \E evicted \in 0..kept :
          /\ depth' = depth + kept - evicted /\ dropped' = dropped + (n - kept) + evicted
          /\ evicted > 0 => depth' = Slots
          /\ accepted' = IF kept = n THEN accepted + n ELSE accepted
          /\ throughput' = IF kept = n THEN throughput + n ELSE throughput
    BY <1>1 DEF Ingest
  <2>2. n \in Nat /\ kept \in Nat /\ kept <= n /\ received' = received + n
        /\ UNCHANGED <<popped, sent, jobs, samples, scrape, tick, lastDropped, printed>>
    BY <1>0, <1>1, <2>1 DEF Ingest
  <2>3. TelemetryTypeOK'
    BY <1>0, <2>1, <2>2 DEF TelemetryTypeOK
  <2>4. Accounts'
    BY <1>0, <1>d, <2>1, <2>2 DEF Accounts, ScrapeState
  <2>5. ScrapesAddUp'
    BY <1>d, <2>2 DEF ScrapesAddUp
  <2>6. LinesAddUp'
    BY <1>0, <1>a, <1>b, <1>c, <1>e, <2>1, <2>2 DEF LinesAddUp
  <2> QED
    BY <2>3, <2>4, <2>5, <2>6 DEF TelemetryInv
<1>2. ASSUME NEW n \in 1..Burst, Pop(n) PROVE TelemetryInv'
  <2>1. /\ n \in Nat /\ n <= depth /\ depth' = depth - n /\ popped' = popped + n
        /\ UNCHANGED <<received, accepted, dropped, sent, throughput, jobs, samples, scrape,
                       tick, lastDropped, printed>>
    BY <1>0, <1>2 DEF Pop
  <2>2. TelemetryTypeOK'
    BY <1>0, <2>1 DEF TelemetryTypeOK
  <2>3. Accounts'
    BY <1>0, <1>d, <2>1 DEF Accounts
  <2>4. ScrapesAddUp'
    BY <1>d, <2>1 DEF ScrapesAddUp
  <2>5. LinesAddUp'
    BY <1>b, <1>e, <2>1 DEF LinesAddUp
  <2> QED
    BY <2>2, <2>3, <2>4, <2>5 DEF TelemetryInv
<1>9. ASSUME NEW n \in 1..Burst, SinkAnswers(n) PROVE TelemetryInv'
  <2>1. /\ n \in Nat /\ n <= popped /\ popped' = popped - n
        /\ \/ sent' = sent + n /\ dropped' = dropped
           \/ sent' = sent /\ dropped' = dropped + n
        /\ UNCHANGED <<received, accepted, depth, throughput, jobs, samples, scrape, tick,
                       lastDropped, printed>>
    BY <1>0, <1>9 DEF SinkAnswers
  <2>2. TelemetryTypeOK'
    BY <1>0, <2>1 DEF TelemetryTypeOK
  <2>3. Accounts'
    BY <1>0, <1>d, <2>1 DEF Accounts
  <2>4. ScrapesAddUp'
    BY <1>d, <2>1 DEF ScrapesAddUp
  <2>5. LinesAddUp'
    BY <1>b, <1>e, <2>1 DEF LinesAddUp
  <2> QED
    BY <2>2, <2>3, <2>4, <2>5 DEF TelemetryInv
<1>3. CASE RecordJob
  <2>1. /\ jobs' = jobs + 1 /\ samples' = samples + 1
        /\ UNCHANGED <<received, accepted, bufferVars, throughput, scrape, tick, lastDropped,
                       printed>>
    BY <1>3 DEF RecordJob
  <2>2. TelemetryTypeOK'
    BY <1>0, <2>1 DEF TelemetryTypeOK, bufferVars
  <2>3. Accounts' /\ ScrapesAddUp'
    BY <1>d, <2>1 DEF Accounts, ScrapesAddUp, bufferVars
  <2>4. LinesAddUp'
    BY <1>0, <1>b, <1>c, <1>e, <2>1 DEF LinesAddUp
  <2> QED
    BY <2>2, <2>3, <2>4 DEF TelemetryInv
<1>4. ASSUME NEW c \in Scrapes, NEW s \in ScrapeState, scrape' = [scrape EXCEPT ![c] = s],
             s.at # "idle" => s.dropped + s.depth <= received,
             s.at = "sent" => /\ s.dropped + s.depth <= s.received
                              /\ s.accepted <= s.received,
             UNCHANGED <<received, accepted, bufferVars, throughput, jobs, samples, tick,
                         lastDropped, printed>>
      PROVE  TelemetryInv'
  <2>1. /\ scrape' \in [Scrapes -> ScrapeState] /\ scrape'[c] = s
        /\ \A x \in Scrapes : x # c => scrape'[x] = scrape[x]
    BY <1>0, <1>4
  <2>2. TelemetryTypeOK'
    BY <1>0, <1>4, <2>1 DEF TelemetryTypeOK, bufferVars
  <2>3. Accounts'
    BY <1>d, <1>4, <2>1 DEF Accounts, bufferVars
  <2>4. ScrapesAddUp'
    BY <1>d, <1>4, <2>1 DEF ScrapesAddUp
  <2>5. LinesAddUp'
    BY <1>b, <1>e, <1>4 DEF LinesAddUp
  <2> QED
    BY <2>2, <2>3, <2>4, <2>5 DEF TelemetryInv
<1>5. ASSUME NEW c \in Scrapes, StartScrape(c) PROVE TelemetryInv'
  <2> DEFINE s == [ReadFirst EXCEPT !.at = "counting"]
  <2>1. /\ s \in ScrapeState /\ s.at = "counting"
        /\ s.dropped = dropped /\ s.depth = depth
    BY <1>0 DEF ReadFirst, NoScrape, ScrapeState
  <2>2. scrape' = [scrape EXCEPT ![c] = s]
    BY <1>5 DEF StartScrape
  <2>3. UNCHANGED <<received, accepted, bufferVars, throughput, jobs, samples, tick,
                    lastDropped, printed>>
    BY <1>5 DEF StartScrape
  <2>4. dropped + depth <= received
    BY <1>0, <1>d DEF Accounts
  <2> HIDE DEF s
  <2> QED
    BY <1>4, <2>1, <2>2, <2>3, <2>4
<1>6. ASSUME NEW c \in Scrapes, EndScrape(c) PROVE TelemetryInv'
  <2> DEFINE s == ReadThen(c)
  <2>1. scrape[c] \in ScrapeState /\ scrape[c].at = "counting"
    BY <1>0, <1>6 DEF EndScrape
  <2>2. /\ s \in ScrapeState /\ s.at = "sent" /\ s.received = received /\ s.accepted = accepted
        /\ s.dropped = scrape[c].dropped /\ s.depth = scrape[c].depth
    BY <1>0, <2>1 DEF ReadThen, ScrapeState
  <2>3. NoScrape \in ScrapeState /\ NoScrape.at = "idle"
    BY DEF NoScrape, ScrapeState
  <2>4. scrape' = [scrape EXCEPT ![c] = s] \/ scrape' = [scrape EXCEPT ![c] = NoScrape]
    BY <1>6 DEF EndScrape
  <2>5. UNCHANGED <<received, accepted, bufferVars, throughput, jobs, samples, tick,
                    lastDropped, printed>>
    BY <1>6 DEF EndScrape
  <2>6. scrape[c].dropped + scrape[c].depth <= received /\ accepted <= received
    BY <1>d, <2>1 DEF Accounts
  <2> HIDE DEF s
  <2>7. CASE scrape' = [scrape EXCEPT ![c] = s]
    BY <1>4, <2>2, <2>5, <2>6, <2>7
  <2>8. CASE scrape' = [scrape EXCEPT ![c] = NoScrape]
    BY <1>4, <2>3, <2>5, <2>8
  <2> QED
    BY <2>4, <2>7, <2>8
<1>7. ASSUME NEW k \in Ticks, StartTick(k) PROVE TelemetryInv'
  <2> DEFINE s == [at |-> "counting", signals |-> throughput,
                   drops |-> IF dropped > lastDropped THEN dropped - lastDropped ELSE 0]
  <2>1. lastDropped <= dropped
    BY <1>d DEF Accounts
  <2>2. s \in TickState /\ s.signals = throughput /\ s.drops = dropped - lastDropped
    BY <1>0, <2>1 DEF TickState
  <2>3. /\ tick' = [tick EXCEPT ![k] = s] /\ throughput' = 0 /\ lastDropped' = dropped
        /\ UNCHANGED <<received, accepted, bufferVars, jobs, samples, scrape, printed>>
    BY <1>7 DEF StartTick
  <2>4. tick[k].signals = 0 /\ tick[k].drops = 0
    BY <1>d, <1>7 DEF StartTick, Accounts
  <2> HIDE DEF s
  <2>5. /\ SumOf(SignalsOf(tick'), Ticks) = signals + throughput
        /\ SumOf(DropsOf(tick'), Ticks) = drops + (dropped - lastDropped)
        /\ tick' \in [Ticks -> TickState] /\ tick'[k] = s
        /\ \A x \in Ticks : x # k => tick'[x] = tick[x]
    <3>1. /\ SumOf(SignalsOf(tick'), Ticks) = signals + s.signals - tick[k].signals
          /\ SumOf(DropsOf(tick'), Ticks) = drops + s.drops - tick[k].drops
          /\ tick' \in [Ticks -> TickState]
      BY <1>0, <2>2, <2>3, TickSums DEF signals, drops
    <3>2. SumOf(SignalsOf(tick'), Ticks) = signals + throughput
      BY <1>0, <1>a, <2>2, <2>4, <3>1
    <3>3. SumOf(DropsOf(tick'), Ticks) = drops + (dropped - lastDropped)
      BY <1>0, <1>a, <2>2, <2>4, <3>1
    <3> QED
      BY <1>0, <2>3, <3>1, <3>2, <3>3
  <2>6. TelemetryTypeOK'
    BY <1>0, <2>3, <2>5 DEF TelemetryTypeOK, bufferVars
  <2>7. Accounts'
    <3>1. s.at = "counting"
      BY DEF s
    <3> QED
      BY <1>0, <1>d, <2>3, <2>5, <3>1 DEF Accounts, bufferVars
  <2>8. ScrapesAddUp'
    BY <1>d, <2>3 DEF ScrapesAddUp
  <2>9. LinesAddUp'
    BY <1>0, <1>a, <1>b, <1>c, <2>3, <2>5 DEF LinesAddUp
  <2> QED
    BY <2>6, <2>7, <2>8, <2>9 DEF TelemetryInv
<1>8. ASSUME NEW k \in Ticks, EndTick(k) PROVE TelemetryInv'
  <2>1. NoTick \in TickState /\ NoTick.signals = 0 /\ NoTick.drops = 0
    BY DEF NoTick, TickState
  <2>2. tick' = [tick EXCEPT ![k] = NoTick]
        /\ UNCHANGED <<received, accepted, bufferVars, throughput, jobs, scrape, lastDropped>>
    BY <1>8 DEF EndTick
  <2>3. PICK answered \in BOOLEAN :
          /\ samples' = IF answered THEN 0 ELSE samples
          /\ printed' = [signals |-> printed.signals + tick[k].signals,
                         drops |-> printed.drops + tick[k].drops,
                         latencies |-> printed.latencies + IF answered THEN samples ELSE 0,
                         lines |-> printed.lines + 1]
    BY <1>8 DEF EndTick
  <2>4. tick[k].signals \in Nat /\ tick[k].drops \in Nat
    BY <1>0 DEF TickState
  <2>5. /\ SumOf(SignalsOf(tick'), Ticks) = signals - tick[k].signals
        /\ SumOf(DropsOf(tick'), Ticks) = drops - tick[k].drops
        /\ tick' \in [Ticks -> TickState] /\ tick'[k] = NoTick
        /\ \A x \in Ticks : x # k => tick'[x] = tick[x]
    <3>1. /\ SumOf(SignalsOf(tick'), Ticks) = signals + NoTick.signals - tick[k].signals
          /\ SumOf(DropsOf(tick'), Ticks) = drops + NoTick.drops - tick[k].drops
          /\ tick' \in [Ticks -> TickState]
      BY <1>0, <2>1, <2>2, TickSums DEF signals, drops
    <3>2. /\ SumOf(SignalsOf(tick'), Ticks) = signals - tick[k].signals
          /\ SumOf(DropsOf(tick'), Ticks) = drops - tick[k].drops
      BY <1>a, <2>1, <2>4, <3>1
    <3> QED
      BY <1>0, <2>2, <3>1, <3>2
  <2>6. /\ printed'.signals = printed.signals + tick[k].signals
        /\ printed'.drops = printed.drops + tick[k].drops
        /\ printed'.latencies + samples' = printed.latencies + samples
    <3>1. CASE answered
      BY <1>0, <1>c, <2>3, <3>1
    <3>2. CASE ~ answered
      BY <1>0, <1>c, <2>3, <3>2
    <3> QED
      BY <3>1, <3>2
  <2>7. samples' \in Nat /\ printed' \in Sums
    <3>1. CASE answered
      BY <1>0, <1>c, <2>3, <2>4, <3>1 DEF Sums
    <3>2. CASE ~ answered
      BY <1>0, <1>c, <2>3, <2>4, <3>2 DEF Sums
    <3> QED
      BY <3>1, <3>2
  <2>8. TelemetryTypeOK'
    BY <1>0, <2>2, <2>5, <2>7 DEF TelemetryTypeOK, bufferVars
  <2>9. Accounts'
    BY <1>d, <2>1, <2>2, <2>5 DEF Accounts, bufferVars
  <2>10. ScrapesAddUp'
    BY <1>d, <2>2 DEF ScrapesAddUp
  <2>11. LinesAddUp'
    BY <1>0, <1>a, <1>b, <1>c, <2>2, <2>4, <2>5, <2>6 DEF LinesAddUp
  <2> QED
    BY <2>8, <2>9, <2>10, <2>11 DEF TelemetryInv
<1> QED
  BY <1>1, <1>2, <1>3, <1>5, <1>6, <1>7, <1>8, <1>9 DEF TelemetryNext

LEMMA TelemetryInductive == TelemetrySpec => []TelemetryInv
<1>1. TelemetryInit => TelemetryInv
  <2> SUFFICES ASSUME TelemetryInit PROVE TelemetryInv
    OBVIOUS
  <2>1. IsFiniteSet(Ticks)
    BY TelemetryAssumption
  <2>2. /\ scrape \in [Scrapes -> ScrapeState] /\ tick \in [Ticks -> TickState]
        /\ printed \in Sums
    BY DEF TelemetryInit, NoScrape, NoTick, ScrapeState, TickState, Sums
  <2>3. \A k \in Ticks : SignalsOf(tick)[k] = 0 /\ DropsOf(tick)[k] = 0
    BY DEF TelemetryInit, NoTick, SignalsOf, DropsOf
  <2>4. SumOf(SignalsOf(tick), Ticks) = 0 /\ SumOf(DropsOf(tick), Ticks) = 0
    BY <2>1, <2>3, SumOfZero
  <2>5. TelemetryTypeOK
    BY <2>2 DEF TelemetryInit, TelemetryTypeOK
  <2>6. Accounts /\ ScrapesAddUp
    BY DEF TelemetryInit, Accounts, ScrapesAddUp, NoScrape, NoTick
  <2>7. LinesAddUp
    BY <2>4 DEF TelemetryInit, LinesAddUp
  <2> QED
    BY <2>5, <2>6, <2>7 DEF TelemetryInv
<1>2. TelemetryInv /\ [TelemetryNext]_telemetryVars => TelemetryInv'
  <2> SUFFICES ASSUME TelemetryInv, [TelemetryNext]_telemetryVars PROVE TelemetryInv'
    OBVIOUS
  <2>1. CASE UNCHANGED telemetryVars
    BY <2>1 DEF telemetryVars, TelemetryInv, TelemetryTypeOK, Accounts, ScrapesAddUp, LinesAddUp
  <2>2. CASE TelemetryNext
    BY <2>2, TelemetryStep
  <2> QED
    BY <2>1, <2>2
<1> QED
  BY <1>1, <1>2, PTL DEF TelemetrySpec

(* A scrape never tells of more than was received, and what the reporter   *)
(* took off a counter is on one line or in one tick that waits: for any    *)
(* number of scrapes and overlapping ticks.                                *)
THEOREM NumbersAddUp == TelemetrySpec => []ScrapeAddsUp
BY TelemetryInductive, AddsUp, PTL

-----------------------------------------------------------------------------
(* RateLimiter.                                                            *)

LEMMA Products ==
  ASSUME NEW a \in Nat, NEW b \in Nat, NEW c \in Nat
  PROVE  /\ a * c \in Nat /\ (a + b) * c = a * c + b * c
         /\ a <= b => a * c <= b * c
<1>1. a * c \in Nat /\ (a + b) * c = a * c + b * c
  OBVIOUS
<1>2. ASSUME a <= b PROVE a * c <= b * c
  <2>1. b = a + (b - a) /\ b - a \in Nat
    BY <1>2
  <2> DEFINE d == b - a
  <2>2. d \in Nat /\ b = a + d
    BY <2>1
  <2> HIDE DEF d
  <2>3. b * c = a * c + d * c
    BY <2>2
  <2>4. a * c \in Nat /\ d * c \in Nat /\ b * c \in Nat
    BY <2>2
  <2> QED
    BY <2>3, <2>4
<1> QED
  BY <1>1, <1>2

LEMMA RoundedUp ==
  ASSUME NEW n \in Nat, NEW q \in Nat \ {0}
  PROVE  (n + q - 1) \div q \in Nat /\ ((n + q - 1) \div q) * q >= n
<1> DEFINE m == n + q - 1
           s == m \div q
           r == m % q
<1>1. m \in Nat
  OBVIOUS
<1>2. s \in Nat /\ r \in Nat /\ r <= q - 1 /\ m = q * s + r
  BY <1>1
<1>3. q * s \in Nat /\ q * s = s * q
  BY <1>2
<1> HIDE DEF s, r
<1>4. s * q >= n
  BY <1>2, <1>3
<1> QED
  BY <1>2, <1>4 DEF s

(* What a refusal promised is what the bucket gains until then. *)
HintHolds ==
  LET b == hint.bucket
  IN  hint.cost > 0 => /\ ts[b] <= hint.until
                       /\ tokens[b] + (hint.until - ts[b]) * PerSecond[b] >= hint.cost * Fraction

LimiterInv ==
  /\ LimiterTypeOK /\ hint.cost \in Nat
  /\ BucketNeverOverspent /\ HintHolds

LEMMA BucketTypes ==
  ASSUME NEW b \in Buckets
  PROVE  /\ Capacity[b] \in Nat /\ PerSecond[b] \in Nat \ {0} /\ Fraction \in Nat \ {0}
         /\ Full(b) \in Nat
<1>1. Capacity[b] \in Nat /\ PerSecond[b] \in Nat \ {0} /\ Fraction \in Nat \ {0}
  BY LimiterAssumption
<1> QED
  BY <1>1, Products DEF Full

(* A refill adds no more than what was gained, and overflows. *)
LEMMA Refills ==
  ASSUME tokens \in [Buckets -> Nat], ts \in [Buckets -> Nat], NEW b \in Buckets, NEW t \in Nat
  PROVE  /\ Beyond(t, ts[b]) \in Nat /\ Beyond(ts[b], t) \in Nat
         /\ t + Beyond(ts[b], t) = ts[b] + Beyond(t, ts[b])
         /\ Beyond(t, ts[b]) * PerSecond[b] \in Nat
         /\ Refill(b, t) \in Nat /\ Refill(b, t) <= Full(b)
         /\ Refill(b, t) <= tokens[b] + Beyond(t, ts[b]) * PerSecond[b]
<1>1. tokens[b] \in Nat /\ ts[b] \in Nat
  OBVIOUS
<1>2. /\ Beyond(t, ts[b]) \in Nat /\ Beyond(ts[b], t) \in Nat
      /\ t + Beyond(ts[b], t) = ts[b] + Beyond(t, ts[b])
  BY <1>1 DEF Beyond
<1>3. PerSecond[b] \in Nat /\ Full(b) \in Nat
  BY BucketTypes
<1> DEFINE gain == Beyond(t, ts[b]) * PerSecond[b]
<1>4. gain \in Nat
  BY <1>2, <1>3, Products
<1>5. Refill(b, t) = IF Full(b) < tokens[b] + gain THEN Full(b) ELSE tokens[b] + gain
  BY DEF Refill, Lesser
<1> HIDE DEF gain
<1>6. /\ Refill(b, t) \in Nat /\ Refill(b, t) <= Full(b)
      /\ Refill(b, t) <= tokens[b] + gain
  BY <1>1, <1>3, <1>4, <1>5
<1> QED
  BY <1>2, <1>4, <1>6 DEF gain

(* What a check does to a bucket that it draws on. *)
LEMMA CheckDraws ==
  ASSUME LimiterTypeOK, NEW i \in Ips, NEW cost \in Costs, NEW skew \in Skews,
         Check(i, cost, skew), NEW b \in {i, "global"}
  PROVE  LET t == clock + skew
             grant == IF LimitedBy(i, t, cost) = {} THEN cost * Fraction ELSE 0
         IN  /\ b \in Buckets /\ t \in Nat /\ grant \in Nat /\ grant <= Refill(b, t)
             /\ tokens'[b] = Refill(b, t) - grant /\ ts'[b] = t
             /\ spent'[b] = spent[b] + grant
             /\ regained'[b] = regained[b] + Beyond(ts[b], t)
<1> DEFINE t == clock + skew
           grant == IF LimitedBy(i, t, cost) = {} THEN cost * Fraction ELSE 0
<1>1. b \in Buckets /\ i \in Buckets /\ "global" \in Buckets
  BY DEF Buckets
<1>2. t \in Nat /\ cost \in Nat /\ Fraction \in Nat
  BY LimiterAssumption DEF LimiterTypeOK
<1>3. cost * Fraction \in Nat
  BY <1>2, Products
<1>4. grant \in Nat
  BY <1>3
<1>5. Refill(i, t) \in Nat /\ Refill("global", t) \in Nat
  BY <1>1, <1>2, Refills DEF LimiterTypeOK
<1>6. grant <= Refill(b, t)
  <2>1. CASE LimitedBy(i, t, cost) = {}
    <3>1. ~ (Refill(i, t) < cost * Fraction)
      <4>1. "global" # i
        BY LimiterAssumption
      <4> QED
        BY <2>1, <4>1 DEF LimitedBy
    <3>2. ~ (Refill("global", t) < cost * Fraction)
      BY <1>3, <1>5, <2>1, <3>1 DEF LimitedBy
    <3> QED
      BY <1>3, <1>5, <2>1, <3>1, <3>2
  <2>2. CASE LimitedBy(i, t, cost) # {}
    BY <1>5, <2>2
  <2> QED
    BY <2>1, <2>2
<1>7. spent[b] \in Nat
  BY <1>1 DEF LimiterTypeOK
<1>8. /\ tokens'[b] = Refill(b, t) - grant /\ ts'[b] = t
      /\ regained'[b] = regained[b] + Beyond(ts[b], t)
  BY <1>1 DEF Check, Store
<1>9. spent'[b] = spent[b] + grant
  BY <1>1, <1>7 DEF Check
<1> QED
  BY <1>1, <1>2, <1>4, <1>6, <1>8, <1>9

(* Nothing changes of the others. *)
LEMMA CheckLeaves ==
  ASSUME NEW i \in Ips, NEW cost \in Costs, NEW skew \in Skews,
         Check(i, cost, skew), NEW b \in Buckets \ {i, "global"}
  PROVE  /\ tokens'[b] = tokens[b] /\ ts'[b] = ts[b]
         /\ spent'[b] = spent[b] /\ regained'[b] = regained[b]
  BY DEF Check, Store

LEMMA CheckTypes ==
  ASSUME LimiterTypeOK, NEW i \in Ips, NEW cost \in Costs, NEW skew \in Skews,
         Check(i, cost, skew), NEW b \in Buckets
  PROVE  /\ tokens'[b] \in Nat /\ tokens'[b] <= Full(b)
         /\ ts'[b] \in Nat /\ spent'[b] \in Nat /\ regained'[b] \in Nat
<1>0. /\ tokens[b] \in Nat /\ tokens[b] <= Full(b) /\ ts[b] \in Nat /\ spent[b] \in Nat
      /\ regained[b] \in Nat
  BY DEF LimiterTypeOK
<1>1. CASE b \in {i, "global"}
  <2> DEFINE t == clock + skew
             grant == IF LimitedBy(i, t, cost) = {} THEN cost * Fraction ELSE 0
  <2>1. /\ t \in Nat /\ grant \in Nat /\ grant <= Refill(b, t)
        /\ tokens'[b] = Refill(b, t) - grant /\ ts'[b] = t
        /\ spent'[b] = spent[b] + grant
        /\ regained'[b] = regained[b] + Beyond(ts[b], t)
    BY <1>1, CheckDraws
  <2> HIDE DEF t, grant
  <2>2. Refill(b, t) \in Nat /\ Refill(b, t) <= Full(b) /\ Beyond(ts[b], t) \in Nat
    BY <2>1, Refills DEF LimiterTypeOK
  <2>3. Full(b) \in Nat
    BY BucketTypes
  <2> QED
    BY <1>0, <2>1, <2>2, <2>3
<1>2. CASE b \notin {i, "global"}
  BY <1>0, <1>2, CheckLeaves
<1> QED
  BY <1>1, <1>2

LEMMA CheckBalances ==
  ASSUME LimiterTypeOK, BucketNeverOverspent, NEW i \in Ips, NEW cost \in Costs,
         NEW skew \in Skews, Check(i, cost, skew), NEW b \in Buckets
  PROVE  spent'[b] + tokens'[b] <= initial'[b] + (ts'[b] + regained'[b]) * PerSecond[b]
<1>0. /\ tokens[b] \in Nat /\ ts[b] \in Nat /\ spent[b] \in Nat /\ regained[b] \in Nat
      /\ initial[b] \in Nat /\ PerSecond[b] \in Nat /\ initial' = initial
      /\ spent[b] + tokens[b] <= initial[b] + (ts[b] + regained[b]) * PerSecond[b]
  BY BucketTypes DEF LimiterTypeOK, BucketNeverOverspent, Check
<1>1. CASE b \in {i, "global"}
  <2> DEFINE t == clock + skew
             grant == IF LimitedBy(i, t, cost) = {} THEN cost * Fraction ELSE 0
             gained == Beyond(t, ts[b])
             before == (ts[b] + regained[b]) * PerSecond[b]
             gain == gained * PerSecond[b]
             after == (ts'[b] + regained'[b]) * PerSecond[b]
  <2>1. /\ t \in Nat /\ grant \in Nat /\ grant <= Refill(b, t)
        /\ tokens'[b] = Refill(b, t) - grant /\ ts'[b] = t
        /\ spent'[b] = spent[b] + grant
        /\ regained'[b] = regained[b] + Beyond(ts[b], t)
    BY <1>1, CheckDraws
  <2>2. /\ Refill(b, t) \in Nat /\ Refill(b, t) <= tokens[b] + gain
        /\ gained \in Nat /\ Beyond(ts[b], t) \in Nat /\ t + Beyond(ts[b], t) = ts[b] + gained
    BY <2>1, Refills DEF LimiterTypeOK
  <2>3. ts[b] + regained[b] \in Nat
    BY <1>0
  <2> HIDE DEF t, grant, gained
  <2>4. ts'[b] + regained'[b] = (ts[b] + regained[b]) + gained
    <3>1. /\ ts[b] \in Nat /\ regained[b] \in Nat /\ t \in Nat /\ gained \in Nat
          /\ Beyond(ts[b], t) \in Nat /\ t + Beyond(ts[b], t) = ts[b] + gained
          /\ ts'[b] = t /\ regained'[b] = regained[b] + Beyond(ts[b], t)
      BY <1>0, <2>1, <2>2
    <3> QED
      BY <3>1
  <2>5. after = before + gain /\ before \in Nat /\ gain \in Nat
    BY <1>0, <2>2, <2>4, <2>3, Products
  <2>6. spent[b] + tokens[b] <= initial[b] + before
    BY <1>0
  <2> HIDE DEF before, gain, after
  <2>7. spent'[b] + tokens'[b] <= initial[b] + after
    BY <1>0, <2>1, <2>2, <2>5, <2>6
  <2> QED
    BY <1>0, <2>7 DEF after
<1>2. CASE b \notin {i, "global"}
  BY <1>0, <1>2, CheckLeaves
<1> QED
  BY <1>1, <1>2

(* A refusal's hint, or the one that was there. *)
LEMMA CheckHints ==
  ASSUME LimiterInv, NEW i \in Ips, NEW cost \in Costs, NEW skew \in Skews,
         Check(i, cost, skew)
  PROVE  hint'.cost \in Nat /\ hint'.bucket \in Buckets /\ hint'.until \in Nat /\ HintHolds'
<1> DEFINE t == clock + skew
           allowed == LimitedBy(i, t, cost) = {}
           left == [b \in Buckets |-> Refill(b, t) - IF allowed THEN cost * Fraction ELSE 0]
<1>0. /\ i \in Buckets /\ "global" \in Buckets /\ t \in Nat /\ cost \in Nat /\ Fraction \in Nat
      /\ LimiterTypeOK /\ cost * Fraction \in Nat
  BY LimiterAssumption, Products DEF LimiterInv, LimiterTypeOK, Buckets
<1>1. ASSUME NEW b \in LimitedBy(i, t, cost),
             hint' = [bucket |-> b, cost |-> cost, ip |-> i,
                      until |-> t + SecondsUntil(b, left[b], cost) * Fraction]
      PROVE  hint'.cost \in Nat /\ hint'.bucket \in Buckets /\ hint'.until \in Nat /\ HintHolds'
  <2>1. b \in {i, "global"} /\ b \in Buckets /\ Refill(b, t) < cost * Fraction
    BY <1>0 DEF LimitedBy
  <2>2. ~ allowed
    OBVIOUS
  <2>3. tokens'[b] = Refill(b, t) /\ ts'[b] = t /\ Refill(b, t) \in Nat
    <3>1. Refill(b, t) \in Nat
      BY <1>0, <2>1, Refills DEF LimiterTypeOK
    <3> QED
      BY <1>0, <2>1, <2>2, <3>1, CheckDraws
  <2>4. left[b] = Refill(b, t)
    BY <2>1, <2>2, <2>3
  <2> DEFINE n == cost * Fraction - Refill(b, t)
             q == PerSecond[b] * Fraction
             s == (n + q - 1) \div q
  <2>5. n \in Nat /\ Beyond(cost * Fraction, left[b]) = n
    BY <1>0, <2>1, <2>3, <2>4 DEF Beyond
  <2>6. q \in Nat \ {0}
    BY <2>1, BucketTypes
  <2>7. s \in Nat /\ s * q >= n
    BY <2>5, <2>6, RoundedUp
  <2>8. SecondsUntil(b, left[b], cost) = s
    BY <2>5 DEF SecondsUntil
  <2>9. s * Fraction \in Nat /\ (s * Fraction) * PerSecond[b] = s * q
    <3>1. s \in Nat /\ PerSecond[b] \in Nat /\ Fraction \in Nat
      BY <2>1, <2>7, BucketTypes
    <3> HIDE DEF s
    <3> QED
      BY <3>1
  <2>10. hint'.until = t + s * Fraction /\ hint'.bucket = b /\ hint'.cost = cost
    BY <1>1, <2>8
  <2>11. hint'.until - ts'[b] = s * Fraction /\ ts'[b] <= hint'.until /\ hint'.until \in Nat
    <3> HIDE DEF s, t
    <3> QED
      BY <1>0, <2>3, <2>9, <2>10
  <2>12. tokens'[b] + (hint'.until - ts'[b]) * PerSecond[b] >= cost * Fraction
    <3>1. tokens'[b] + s * q >= cost * Fraction
      <4>1. s * q \in Nat
        BY <2>6, <2>7, Products
      <4> DEFINE p == s * q
                 c == cost * Fraction
      <4>2. p \in Nat /\ c \in Nat /\ p >= c - Refill(b, t) /\ tokens'[b] = Refill(b, t)
        BY <1>0, <2>3, <2>7, <4>1
      <4> HIDE DEF p, c
      <4>3. tokens'[b] + p >= c
        BY <2>3, <4>2
      <4> QED
        BY <4>3 DEF p, c
    <3> QED
      BY <2>9, <2>11, <3>1
  <2> QED
    BY <1>0, <2>1, <2>10, <2>11, <2>12 DEF HintHolds
<1>2. CASE allowed /\ hint' = IF hint.bucket \in {i, "global"} THEN NoHint ELSE hint
  <2>1. CASE hint' = NoHint
    BY <1>0, <2>1 DEF NoHint, HintHolds
  <2>2. CASE hint.bucket \notin {i, "global"} /\ hint' = hint
    <3>1. tokens'[hint.bucket] = tokens[hint.bucket] /\ ts'[hint.bucket] = ts[hint.bucket]
      BY <1>0, <2>2, CheckLeaves DEF LimiterTypeOK
    <3> QED
      BY <1>0, <2>2, <3>1 DEF HintHolds, LimiterInv, LimiterTypeOK
  <2> QED
    BY <1>2, <2>1, <2>2
<1> QED
  BY <1>1, <1>2 DEF Check

LEMMA LimiterInductive == LimiterSpec => []LimiterInv
<1>1. LimiterInit => LimiterInv
  <2> SUFFICES ASSUME LimiterInit PROVE LimiterInv
    OBVIOUS
  <2>1. \A b \in Buckets : Full(b) \in Nat
    BY BucketTypes
  <2>2. initial \in [Buckets -> Nat] /\ \A b \in Buckets : initial[b] <= Full(b)
    BY <2>1 DEF LimiterInit
  <2>3. hint.cost = 0 /\ hint.bucket \in Buckets /\ hint.until = 0
    BY DEF LimiterInit, NoHint, Buckets
  <2>4. LimiterTypeOK
    BY <2>2, <2>3 DEF LimiterInit, LimiterTypeOK
  <2>5. ASSUME NEW b \in Buckets
        PROVE  spent[b] + tokens[b] <= initial[b] + (ts[b] + regained[b]) * PerSecond[b]
    <3>1. spent[b] = 0 /\ ts[b] = 0 /\ regained[b] = 0 /\ tokens[b] = initial[b]
          /\ initial[b] \in Nat
      BY <2>2 DEF LimiterInit
    <3>2. PerSecond[b] \in Nat
      BY BucketTypes
    <3> QED
      BY <3>1, <3>2
  <2> QED
    BY <2>3, <2>4, <2>5 DEF LimiterInv, BucketNeverOverspent, HintHolds
<1>2. LimiterInv /\ [LimiterNext]_limiterVars => LimiterInv'
  <2> SUFFICES ASSUME LimiterInv, [LimiterNext]_limiterVars PROVE LimiterInv'
    OBVIOUS
  <2>1. CASE UNCHANGED limiterVars
    BY <2>1 DEF limiterVars, LimiterInv, LimiterTypeOK, BucketNeverOverspent, HintHolds
  <2>2. CASE Elapse
    BY <2>2 DEF Elapse, LimiterInv, LimiterTypeOK, BucketNeverOverspent, HintHolds
  <2>3. ASSUME NEW i \in Ips, NEW cost \in Costs, NEW skew \in Skews, Check(i, cost, skew)
        PROVE  LimiterInv'
    <3>1. LimiterTypeOK /\ BucketNeverOverspent
      BY DEF LimiterInv
    <3>2. \A b \in Buckets : /\ tokens'[b] \in Nat /\ tokens'[b] <= Full(b)
                             /\ ts'[b] \in Nat /\ spent'[b] \in Nat /\ regained'[b] \in Nat
      BY <2>3, <3>1, CheckTypes
    <3>3. /\ DOMAIN tokens' = Buckets /\ DOMAIN ts' = Buckets /\ DOMAIN spent' = Buckets
          /\ DOMAIN regained' = Buckets /\ initial' = initial /\ clock' = clock
          /\ checks' = checks + 1
      BY <2>3 DEF Check, Store
    <3>4. hint'.cost \in Nat /\ hint'.bucket \in Buckets /\ hint'.until \in Nat /\ HintHolds'
      BY <2>3, CheckHints
    <3>5. /\ tokens' \in [Buckets -> Nat] /\ ts' \in [Buckets -> Nat]
          /\ spent' \in [Buckets -> Nat] /\ regained' \in [Buckets -> Nat]
      BY <2>3, <3>2 DEF Check, Store
    <3>6. LimiterTypeOK'
      BY <3>1, <3>2, <3>3, <3>4, <3>5 DEF LimiterTypeOK, Full
    <3>7. BucketNeverOverspent'
      BY <2>3, <3>1, CheckBalances DEF BucketNeverOverspent
    <3> QED
      BY <3>4, <3>6, <3>7 DEF LimiterInv
  <2> QED
    BY <2>1, <2>2, <2>3 DEF LimiterNext
<1> QED
  BY <1>1, <1>2, PTL DEF LimiterSpec

(* Granted is no more than a bucket held and gained, and Retry-After is    *)
(* enough: for any rates, capacities, sizes of batches and skews.          *)
THEOREM TheirWordIsKept == LimiterSpec => []BucketsKeepTheirWord
<1>1. LimiterInv => BucketsKeepTheirWord
  <2> SUFFICES ASSUME LimiterInv, hint.cost > 0, hint.cost <= Capacity[hint.bucket],
                      clock >= hint.until
               PROVE  Refill(hint.bucket, clock) >= hint.cost * Fraction
    BY DEF LimiterInv, BucketsKeepTheirWord, RetryAfterIsEnough
  <2> DEFINE b == hint.bucket
             c == hint.cost * Fraction
             waited == clock - ts[b]
             promised == hint.until - ts[b]
  <2>1. /\ b \in Buckets /\ hint.cost \in Nat /\ hint.until \in Nat /\ clock \in Nat
        /\ tokens[b] \in Nat /\ ts[b] \in Nat
        /\ tokens \in [Buckets -> Nat] /\ ts \in [Buckets -> Nat]
    BY DEF LimiterInv, LimiterTypeOK
  <2>2. Capacity[b] \in Nat /\ PerSecond[b] \in Nat /\ Fraction \in Nat /\ Full(b) \in Nat
    BY <2>1, BucketTypes
  <2>3. ts[b] <= hint.until /\ tokens[b] + promised * PerSecond[b] >= c
    BY DEF LimiterInv, HintHolds
  <2>4. promised \in Nat /\ waited \in Nat /\ promised <= waited
        /\ Beyond(clock, ts[b]) = waited
    BY <2>1, <2>3 DEF Beyond
  <2>5. c <= Full(b) /\ c \in Nat
    BY <2>1, <2>2, Products DEF Full
  <2>6. Refill(b, clock) = IF Full(b) < tokens[b] + waited * PerSecond[b]
                           THEN Full(b) ELSE tokens[b] + waited * PerSecond[b]
    BY <2>4 DEF Refill, Lesser
  <2> HIDE DEF waited, promised, c
  <2>7. /\ promised * PerSecond[b] <= waited * PerSecond[b]
        /\ promised * PerSecond[b] \in Nat /\ waited * PerSecond[b] \in Nat
    BY <2>2, <2>4, Products
  <2>8. tokens[b] + waited * PerSecond[b] >= c
    BY <2>1, <2>3, <2>5, <2>7
  <2>9. Refill(b, clock) >= c
    BY <2>5, <2>6, <2>8
  <2> QED
    BY <2>9 DEF c
<1> QED
  BY <1>1, LimiterInductive, PTL

-----------------------------------------------------------------------------
(* HealthProbe.                                                            *)

ProbeTick == [start : Nat, answers : [Dependencies -> {"pending", "up", "down"}]]

Truth(d) == IF health[d] = "up" THEN "up" ELSE "down"

(* When the timer was set last, by start() or by firing: but for the first *)
(* time, a tick began then.                                                *)
LastSet == IF nextTick = NoTimer THEN 0 ELSE nextTick - Interval

Slack(d) == IF Timeout >= Interval \/ since[d] < Timeout THEN Timeout ELSE 0

(* Until the timer is set the first tick is alone. After that, ticks begin *)
(* Interval apart, and the timer was set no longer ago than that.          *)
TicksInTime ==
  /\ ticks \subseteq ProbeTick
  /\ LastSet \in Nat /\ LastSet <= uptime
  /\ nextTick = NoTimer => \E t \in ticks : t.start = 0 /\ ticks = {t}
  /\ nextTick # NoTimer => uptime <= nextTick
  /\ \A t \in ticks : t.start = LastSet \/ t.start + Interval <= LastSet

(* A tick that began after a dependency's last change has it right. *)
LaterTicksKnow ==
  \A d \in Dependencies :
    /\ since[d] <= uptime
    /\ \A t \in ticks : t.start > since[d] => t.answers[d] \in {"pending", Truth(d)}

(* Once a tick has begun that no older one can outlive, the snapshot is    *)
(* right, or the first of these ticks is still to end.                     *)
SnapshotFollows ==
  \A d \in Dependencies :
    LastSet > since[d] + Slack(d) =>
      \/ snapshot[d] = Truth(d)
      \/ \E t \in ticks : /\ since[d] + Slack(d) < t.start
                          /\ t.start <= since[d] + Slack(d) + Interval

ProbeInv == ProbeTypeOK /\ TicksInTime /\ LaterTicksKnow /\ SnapshotFollows

LEMMA ProbeNumbers ==
  ASSUME ProbeInv
  PROVE  /\ uptime \in Nat /\ nextTick \in Nat /\ LastSet \in Nat /\ LastSet <= uptime
         /\ nextTick = NoTimer => LastSet = 0 /\ uptime <= Timeout
         /\ nextTick # NoTimer => uptime <= nextTick /\ nextTick = LastSet + Interval
         /\ Interval \in Nat /\ Timeout \in Nat /\ Interval > 0
         /\ \A d \in Dependencies : since[d] \in Nat /\ since[d] <= uptime /\ Slack(d) \in Nat
         /\ \A t \in ticks : /\ t \in ProbeTick /\ t.start \in Nat
                             /\ t.start <= uptime /\ uptime <= t.start + Timeout
<1>1. Interval \in Nat /\ Timeout \in Nat /\ Interval > 0
  BY ProbeAssumption
<1>2. uptime \in Nat /\ nextTick \in Nat /\ LastSet \in Nat /\ LastSet <= uptime
  BY DEF ProbeInv, ProbeTypeOK, TicksInTime
<1>3. nextTick # NoTimer => uptime <= nextTick /\ nextTick = LastSet + Interval
  BY <1>1, <1>2 DEF LastSet, ProbeInv, TicksInTime
<1>4. \A d \in Dependencies : Slack(d) \in Nat
  BY <1>1 DEF Slack
<1>5. \A d \in Dependencies : since[d] \in Nat /\ since[d] <= uptime
  BY DEF ProbeInv, ProbeTypeOK, LaterTicksKnow
<1>6. \A t \in ticks : /\ t \in ProbeTick /\ t.start \in Nat
                       /\ t.start <= uptime /\ uptime <= t.start + Timeout
  BY DEF ProbeInv, ProbeTypeOK, TicksInTime, ProbeTick
<1>7. ASSUME nextTick = NoTimer PROVE LastSet = 0 /\ uptime <= Timeout
  <2>1. PICK t \in ticks : t.start = 0
    BY <1>7 DEF ProbeInv, TicksInTime
  <2> QED
    BY <1>1, <1>2, <1>6, <1>7, <2>1 DEF LastSet
<1> QED
  BY <1>1, <1>2, <1>3, <1>4, <1>5, <1>6, <1>7

(* Once the timer was set that late, the ticks that began before the       *)
(* change have ended: at their time-out, or, where that is shorter than    *)
(* the interval, before the next began.                                    *)
LEMMA OldTicksHaveEnded ==
  ASSUME ProbeInv, NEW d \in Dependencies, LastSet > since[d] + Slack(d), NEW t \in ticks
  PROVE  t.start > since[d]
<1>0. /\ uptime \in Nat /\ LastSet \in Nat /\ LastSet <= uptime
      /\ Interval \in Nat /\ Timeout \in Nat /\ since[d] \in Nat
      /\ Slack(d) \in Nat /\ t.start \in Nat /\ uptime <= t.start + Timeout
  BY ProbeNumbers
<1>1. t.start = LastSet \/ t.start + Interval <= LastSet
  BY DEF ProbeInv, TicksInTime
<1>2. CASE Timeout >= Interval
  <2>1. Slack(d) = Timeout
    BY <1>2 DEF Slack
  <2> QED
    BY <1>0, <2>1
<1>3. CASE ~ (Timeout >= Interval)
  BY <1>0, <1>1, <1>3
<1> QED
  BY <1>2, <1>3

LEMMA AnswerStep ==
  ASSUME ProbeInv, NEW t \in ticks, NEW d \in Dependencies, Answer(t, d, Truth(d)),
         UNCHANGED <<uptime, health, since, outages, nextTick, snapshot>>
  PROVE  ProbeInv'
<1> DEFINE u == [t EXCEPT !.answers[d] = Truth(d)]
<1>0. t \in ProbeTick /\ Truth(d) \in {"up", "down"}
  BY ProbeNumbers DEF Truth
<1>1. /\ u \in ProbeTick /\ u.start = t.start /\ u.answers[d] = Truth(d)
      /\ \A e \in Dependencies : e # d => u.answers[e] = t.answers[e]
  BY <1>0 DEF ProbeTick
<1>2. ticks' = (ticks \ {t}) \cup {u}
  BY DEF Answer
<1>3. \A e \in Dependencies : Truth(e)' = Truth(e) /\ Slack(e)' = Slack(e)
  BY DEF Truth, Slack
<1>4. LastSet' = LastSet
  BY DEF LastSet
<1> HIDE DEF u
<1>5. ProbeTypeOK'
  BY <1>1, <1>2 DEF ProbeInv, ProbeTypeOK
<1>6. TicksInTime'
  <2>1. ASSUME nextTick = NoTimer PROVE u.start = 0 /\ ticks' = {u}
    BY <1>1, <1>2, <2>1 DEF ProbeInv, TicksInTime
  <2> QED
    BY <1>1, <1>2, <1>4, <2>1 DEF ProbeInv, TicksInTime
<1>7. LaterTicksKnow'
  <2>1. ASSUME NEW e \in Dependencies, NEW v \in ticks', v.start > since[e]
        PROVE  v.answers[e] \in {"pending", Truth(e)}
    <3>1. CASE v = u
      <4>1. t.start > since[e] => t.answers[e] \in {"pending", Truth(e)}
        BY DEF ProbeInv, LaterTicksKnow
      <4> QED
        BY <1>1, <2>1, <3>1, <4>1
    <3>2. CASE v \in ticks
      BY <2>1, <3>2 DEF ProbeInv, LaterTicksKnow
    <3> QED
      BY <1>2, <3>1, <3>2
  <2>2. \A e \in Dependencies : since[e] <= uptime
    BY DEF ProbeInv, LaterTicksKnow
  <2> QED
    BY <1>3, <2>1, <2>2 DEF LaterTicksKnow
<1>8. SnapshotFollows'
  <2>1. ASSUME NEW e \in Dependencies, LastSet > since[e] + Slack(e), snapshot[e] # Truth(e)
        PROVE  \E v \in ticks' : /\ since[e] + Slack(e) < v.start
                                 /\ v.start <= since[e] + Slack(e) + Interval
    <3>1. PICK v \in ticks : /\ since[e] + Slack(e) < v.start
                             /\ v.start <= since[e] + Slack(e) + Interval
      BY <2>1 DEF ProbeInv, SnapshotFollows
    <3>2. CASE v = t
      BY <1>1, <1>2, <3>1, <3>2
    <3>3. CASE v # t
      BY <1>2, <3>1, <3>3
    <3> QED
      BY <3>2, <3>3
  <2> QED
    BY <1>3, <1>4, <2>1 DEF SnapshotFollows
<1> QED
  BY <1>5, <1>6, <1>7, <1>8 DEF ProbeInv

LEMMA TickEndsStep ==
  ASSUME ProbeInv, NEW t \in ticks, TickEnds(t)
  PROVE  ProbeInv'
<1>0. /\ t \in ProbeTick /\ ticks' = ticks \ {t} /\ snapshot' = t.answers
      /\ \A d \in Dependencies : t.answers[d] # "pending"
      /\ UNCHANGED <<uptime, health, since, outages>> /\ SetInterval
  BY ProbeNumbers DEF TickEnds, Settled
<1>1. snapshot' \in [Dependencies -> {"up", "down"}]
  BY <1>0 DEF ProbeTick
<1>2. \A d \in Dependencies : Truth(d)' = Truth(d) /\ Slack(d)' = Slack(d)
  BY <1>0 DEF Truth, Slack
<1>3. /\ uptime \in Nat /\ nextTick \in Nat /\ Interval \in Nat /\ Interval > 0
      /\ Timeout \in Nat
      /\ \A d \in Dependencies : since[d] \in Nat /\ since[d] <= uptime /\ Slack(d) \in Nat
  BY ProbeNumbers
<1>4. LaterTicksKnow'
  BY <1>0, <1>2 DEF ProbeInv, LaterTicksKnow
<1>5. CASE nextTick = NoTimer
  <2>1. nextTick' = uptime + Interval /\ uptime <= Timeout
    BY <1>0, <1>5, ProbeNumbers DEF SetInterval
  <2>2. ticks' = {}
    BY <1>0, <1>5 DEF ProbeInv, TicksInTime
  <2>3. nextTick' # NoTimer /\ LastSet' = uptime /\ uptime <= nextTick' /\ nextTick' \in Nat
    BY <1>3, <2>1 DEF LastSet, NoTimer
  <2>4. ProbeTypeOK'
    BY <1>0, <1>1, <2>2, <2>3 DEF ProbeInv, ProbeTypeOK
  <2>5. TicksInTime'
    BY <1>0, <1>3, <2>2, <2>3 DEF TicksInTime
  <2>6. ASSUME NEW d \in Dependencies PROVE ~ (uptime > since[d] + Slack(d))
    BY <1>3, <2>1 DEF Slack
  <2>7. SnapshotFollows'
    BY <1>0, <1>2, <2>3, <2>6 DEF SnapshotFollows
  <2> QED
    BY <1>4, <2>4, <2>5, <2>7 DEF ProbeInv
<1>6. CASE nextTick # NoTimer
  <2>1. nextTick' = nextTick
    BY <1>0, <1>6 DEF SetInterval
  <2>2. LastSet' = LastSet
    BY <2>1 DEF LastSet
  <2>3. ProbeTypeOK'
    BY <1>0, <1>1, <2>1 DEF ProbeInv, ProbeTypeOK
  <2>4. TicksInTime'
    BY <1>0, <1>6, <2>1, <2>2 DEF ProbeInv, TicksInTime
  <2>5. ASSUME NEW d \in Dependencies, LastSet > since[d] + Slack(d)
        PROVE  snapshot'[d] = Truth(d)
    <3>1. t.start > since[d]
      BY <2>5, OldTicksHaveEnded
    <3> QED
      BY <1>0, <3>1 DEF ProbeInv, LaterTicksKnow
  <2>6. SnapshotFollows'
    BY <1>0, <1>2, <2>2, <2>5 DEF SnapshotFollows
  <2> QED
    BY <1>4, <2>3, <2>4, <2>6 DEF ProbeInv
<1> QED
  BY <1>5, <1>6

LEMMA TimerStep ==
  ASSUME ProbeInv, TimerFires
  PROVE  ProbeInv'
<1>0. /\ ticks' = ticks \cup {Pending(uptime)} /\ nextTick' = uptime + Interval
      /\ nextTick # NoTimer /\ nextTick <= uptime
      /\ UNCHANGED <<uptime, health, since, outages, snapshot>>
  BY DEF TimerFires, TimerDue
<1>1. /\ uptime \in Nat /\ nextTick \in Nat /\ LastSet \in Nat /\ LastSet <= uptime
      /\ uptime = LastSet + Interval /\ Interval \in Nat /\ Interval > 0 /\ Timeout \in Nat
      /\ \A t \in ticks : t.start \in Nat
      /\ \A d \in Dependencies : since[d] \in Nat /\ Slack(d) \in Nat
  BY <1>0, ProbeNumbers
<1>2. /\ Pending(uptime) \in ProbeTick /\ Pending(uptime).start = uptime
      /\ \A d \in Dependencies : Pending(uptime).answers[d] = "pending"
  BY <1>1 DEF Pending, ProbeTick
<1>3. /\ nextTick' # NoTimer /\ LastSet' = uptime
      /\ \A d \in Dependencies : Truth(d)' = Truth(d) /\ Slack(d)' = Slack(d)
  BY <1>0, <1>1 DEF LastSet, NoTimer, Truth, Slack
<1>4. ProbeTypeOK'
  BY <1>0, <1>1, <1>2 DEF ProbeInv, ProbeTypeOK
<1>5. TicksInTime'
  <2>1. ASSUME NEW t \in ticks PROVE t.start + Interval <= uptime
    <3>1. t.start = LastSet \/ t.start + Interval <= LastSet
      BY DEF ProbeInv, TicksInTime
    <3> QED
      BY <1>1, <3>1
  <2>2. ticks' \subseteq ProbeTick
    BY <1>0, <1>2 DEF ProbeInv, TicksInTime
  <2>3. \A t \in ticks' : t.start = uptime \/ t.start + Interval <= uptime
    BY <1>0, <1>2, <2>1
  <2> QED
    BY <1>0, <1>1, <1>3, <2>2, <2>3 DEF TicksInTime
<1>6. LaterTicksKnow'
  BY <1>0, <1>2, <1>3 DEF ProbeInv, LaterTicksKnow
<1>7. SnapshotFollows'
  <2>1. ASSUME NEW d \in Dependencies, uptime > since[d] + Slack(d), snapshot[d] # Truth(d)
        PROVE  \E t \in ticks' : /\ since[d] + Slack(d) < t.start
                                 /\ t.start <= since[d] + Slack(d) + Interval
    <3>1. CASE LastSet > since[d] + Slack(d)
      BY <1>0, <2>1, <3>1 DEF ProbeInv, SnapshotFollows
    <3>2. CASE LastSet <= since[d] + Slack(d)
      <4>1. uptime <= since[d] + Slack(d) + Interval
        BY <1>1, <3>2
      <4> QED
        BY <1>0, <1>2, <2>1, <4>1
    <3> QED
      BY <1>1, <3>1, <3>2
  <2> QED
    BY <1>0, <1>3, <2>1 DEF SnapshotFollows
<1> QED
  BY <1>4, <1>5, <1>6, <1>7 DEF ProbeInv

LEMMA ChangeStep ==
  ASSUME ProbeInv, NEW d \in Dependencies, NEW h \in {"up", "refuses", "hangs"},
         DependencyChanges(d, h)
  PROVE  ProbeInv'
<1>0. /\ health' = [health EXCEPT ![d] = h] /\ since' = [since EXCEPT ![d] = uptime]
      /\ outages' = outages + 1 /\ UNCHANGED <<uptime, nextTick, ticks, snapshot>>
  BY DEF DependencyChanges
<1>1. /\ health \in [Dependencies -> {"up", "refuses", "hangs"}]
      /\ since \in [Dependencies -> Nat] /\ uptime \in Nat /\ outages \in Nat
  BY DEF ProbeInv, ProbeTypeOK
<1>2. /\ since'[d] = uptime
      /\ \A e \in Dependencies : e # d => /\ since'[e] = since[e] /\ Truth(e)' = Truth(e)
                                         /\ Slack(e)' = Slack(e)
  BY <1>0, <1>1 DEF Truth, Slack
<1>3. LastSet' = LastSet
  BY <1>0 DEF LastSet
<1>4. ProbeTypeOK' /\ TicksInTime'
  BY <1>0, <1>1, <1>3 DEF ProbeInv, ProbeTypeOK, TicksInTime
<1>5. LaterTicksKnow'
  <2>1. \A t \in ticks : ~ (t.start > uptime)
    BY ProbeNumbers
  <2>2. ASSUME NEW e \in Dependencies
        PROVE  /\ since'[e] <= uptime
               /\ \A t \in ticks : t.start > since'[e] => t.answers[e] \in {"pending", Truth(e)'}
    <3>1. CASE e = d
      BY <1>1, <1>2, <2>1, <3>1
    <3>2. CASE e # d
      BY <1>2, <3>2 DEF ProbeInv, LaterTicksKnow
    <3> QED
      BY <3>1, <3>2
  <2> QED
    BY <1>0, <2>2 DEF LaterTicksKnow
<1>6. SnapshotFollows'
  <2>1. ~ (LastSet > uptime + Slack(d)')
    <3>1. Slack(d)' \in Nat
      BY ProbeAssumption DEF Slack
    <3> QED
      BY <3>1, ProbeNumbers
  <2>2. ASSUME NEW e \in Dependencies, LastSet > since'[e] + Slack(e)'
        PROVE  \/ snapshot[e] = Truth(e)'
               \/ \E t \in ticks : /\ since'[e] + Slack(e)' < t.start
                                   /\ t.start <= since'[e] + Slack(e)' + Interval
    <3>1. e # d
      BY <1>2, <2>1, <2>2
    <3> QED
      BY <1>2, <2>2, <3>1 DEF ProbeInv, SnapshotFollows
  <2> QED
    BY <1>0, <1>3, <2>2 DEF SnapshotFollows
<1> QED
  BY <1>4, <1>5, <1>6 DEF ProbeInv

LEMMA WaitStep ==
  ASSUME ProbeInv, WaitOne
  PROVE  ProbeInv'
<1>0. /\ uptime' = uptime + 1 /\ UNCHANGED <<health, since, outages, nextTick, ticks, snapshot>>
      /\ nextTick # NoTimer => ~ (nextTick <= uptime)
      /\ \A t \in ticks : ~ (t.start + Timeout <= uptime)
  BY DEF WaitOne, Due, TimerDue
<1>1. /\ LastSet' = LastSet
      /\ \A d \in Dependencies : Truth(d)' = Truth(d) /\ Slack(d)' = Slack(d)
  BY <1>0 DEF LastSet, Truth, Slack
<1>2. /\ uptime \in Nat /\ nextTick \in Nat /\ LastSet \in Nat /\ LastSet <= uptime
      /\ Timeout \in Nat
      /\ \A d \in Dependencies : since[d] \in Nat /\ since[d] <= uptime
      /\ \A t \in ticks : t.start \in Nat /\ t.start <= uptime
  BY ProbeNumbers
<1>3. ProbeTypeOK'
  BY <1>0, <1>2 DEF ProbeInv, ProbeTypeOK
<1>4. TicksInTime'
  BY <1>0, <1>1, <1>2 DEF ProbeInv, TicksInTime
<1>5. LaterTicksKnow'
  BY <1>0, <1>1, <1>2 DEF ProbeInv, LaterTicksKnow
<1>6. SnapshotFollows'
  BY <1>0, <1>1 DEF ProbeInv, SnapshotFollows
<1> QED
  BY <1>3, <1>4, <1>5, <1>6 DEF ProbeInv

LEMMA ProbeInductive == ProbeSpec => []ProbeInv
<1>1. ProbeInit => ProbeInv
  <2> SUFFICES ASSUME ProbeInit PROVE ProbeInv
    OBVIOUS
  <2>0. /\ Interval \in Nat /\ Timeout \in Nat /\ Interval > 0
        /\ \A d \in Dependencies : Slack(d) \in Nat
    BY ProbeAssumption DEF Slack
  <2>1. LastSet = 0 /\ uptime = 0 /\ nextTick = NoTimer /\ ticks = {Pending(0)}
    BY <2>0 DEF ProbeInit, LastSet
  <2>2. /\ Pending(0) \in ProbeTick /\ Pending(0).start = 0
        /\ \A d \in Dependencies : Pending(0).answers[d] = "pending"
    BY DEF Pending, ProbeTick
  <2>3. ProbeTypeOK
    BY <2>0, <2>1, <2>2 DEF ProbeInit, ProbeTypeOK, NoTimer
  <2>4. TicksInTime
    BY <2>0, <2>1, <2>2 DEF TicksInTime
  <2>5. LaterTicksKnow
    BY <2>1, <2>2 DEF ProbeInit, LaterTicksKnow
  <2>6. SnapshotFollows
    <3>1. \A d \in Dependencies : ~ (LastSet > since[d] + Slack(d))
      BY <2>0, <2>1 DEF ProbeInit
    <3> QED
      BY <3>1 DEF SnapshotFollows
  <2> QED
    BY <2>3, <2>4, <2>5, <2>6 DEF ProbeInv
<1>2. ProbeInv /\ [ProbeNext]_probeVars => ProbeInv'
  <2> SUFFICES ASSUME ProbeInv, [ProbeNext]_probeVars PROVE ProbeInv'
    OBVIOUS
  <2>1. CASE UNCHANGED probeVars
    <3>1. UNCHANGED <<uptime, health, since, outages, nextTick, ticks, snapshot>>
      BY <2>1 DEF probeVars
    <3>2. /\ LastSet' = LastSet
          /\ \A d \in Dependencies : Truth(d)' = Truth(d) /\ Slack(d)' = Slack(d)
      BY <3>1 DEF LastSet, Truth, Slack
    <3> QED
      BY <3>1, <3>2 DEF ProbeInv, ProbeTypeOK, TicksInTime, LaterTicksKnow, SnapshotFollows
  <2>2. CASE WaitOne
    BY <2>2, WaitStep
  <2>3. CASE TimerFires
    BY <2>3, TimerStep
  <2>4. ASSUME NEW d \in Dependencies, NEW h \in {"up", "refuses", "hangs"},
         DependencyChanges(d, h)
        PROVE  ProbeInv'
    BY <2>4, ChangeStep
  <2>5. ASSUME NEW t \in ticks, NEW d \in Dependencies, CheckSettles(t, d) \/ CheckTimesOut(t, d)
        PROVE  ProbeInv'
    <3>1. /\ Answer(t, d, Truth(d))
          /\ UNCHANGED <<uptime, health, since, outages, nextTick, snapshot>>
      BY <2>5 DEF CheckSettles, CheckTimesOut, Truth
    <3> QED
      BY <3>1, AnswerStep
  <2>6. ASSUME NEW t \in ticks, TickEnds(t) PROVE ProbeInv'
    BY <2>6, TickEndsStep
  <2> QED
    BY <2>1, <2>2, <2>3, <2>4, <2>5, <2>6 DEF ProbeNext
<1> QED
  BY <1>1, <1>2, PTL DEF ProbeSpec

(* A state that has lasted for an interval and a time-out, or two where    *)
(* ticks overlap or the first one may have missed it, shows in the answer  *)
(* to GET /health: for any intervals, time-outs and dependencies.          *)
THEOREM OutagesAreShown == ProbeSpec => []HealthShowsOutages
<1>1. ProbeInv => HealthShowsOutages
  <2> SUFFICES ASSUME ProbeInv PROVE HealthShowsOutages
    OBVIOUS
  <2>1. ASSUME NEW d \in Dependencies, Steady(d) PROVE snapshot[d] = Truth(d)
    <3>0. /\ uptime \in Nat /\ nextTick \in Nat /\ LastSet \in Nat
          /\ nextTick = NoTimer => uptime <= Timeout
          /\ nextTick # NoTimer => uptime <= LastSet + Interval
          /\ Interval \in Nat /\ Timeout \in Nat /\ Slack(d) \in Nat /\ since[d] \in Nat
          /\ \A t \in ticks : t.start \in Nat /\ uptime <= t.start + Timeout
      BY ProbeNumbers
    <3>1. Lag(d) = Interval + Timeout + Slack(d)
      BY DEF Lag, Slack
    <3>2. uptime > since[d] + (Interval + Timeout + Slack(d))
      BY <2>1, <3>1 DEF Steady
    <3>3. LastSet > since[d] + Slack(d)
      BY <3>0, <3>2
    <3>4. \A t \in ticks : ~ (t.start <= since[d] + Slack(d) + Interval)
      BY <3>0, <3>2
    <3> QED
      BY <3>3, <3>4 DEF ProbeInv, SnapshotFollows
  <2>2. \A d \in Dependencies : Steady(d) => (snapshot[d] = "up" <=> health[d] = "up")
    BY <2>1 DEF Truth
  <2> QED
    BY <2>2 DEF HealthShowsOutages, HttpStatus
<1> QED
  BY <1>1, ProbeInductive, PTL

=============================================================================
