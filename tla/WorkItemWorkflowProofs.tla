----------------------- MODULE WorkItemWorkflowProofs -----------------------
(***************************************************************************)
(* Proofs about WorkItemLifecycle and WorkItemWorkflow. The lifecycle's    *)
(* invariants are proved once, of the abstract specification; that the     *)
(* workflow implements it (for any requests, retries and failures) then    *)
(* carries them over. What the answers say is proved from an invariant of  *)
(* the workflow itself.                                                    *)
(***************************************************************************)
EXTENDS WorkItemWorkflow, TLAPS

(* The four states are numbered 0 to 3, each with a number of its own. *)
LEMMA RankFacts ==
  /\ \A s \in State : Rank(s) \in 0..3
  /\ \A s, t \in State : Rank(s) = Rank(t) => s = t
  /\ Rank("OPEN") = 0 /\ Rank("CLOSED") = 3
<1>1. Rank("OPEN") = 0
  BY DEF Rank
<1>2. Rank("INVESTIGATING") = 1
  BY DEF Rank
<1>3. Rank("RESOLVED") = 2
  BY DEF Rank
<1>4. Rank("CLOSED") = 3
  BY DEF Rank
<1> QED BY <1>1, <1>2, <1>3, <1>4 DEF State

(* Appending a row keeps the old rows and adds the new one at the end. *)
LEMMA AppendRow ==
  ASSUME NEW trail \in Seq(Entry), NEW e \in Entry
  PROVE  /\ Append(trail, e) \in Seq(Entry)
         /\ DOMAIN trail = 1..Len(trail)
         /\ Len(trail) \in Nat
         /\ DOMAIN Append(trail, e) = 1..(Len(trail) + 1)
         /\ \A i \in DOMAIN trail : Append(trail, e)[i] = trail[i]
         /\ Append(trail, e)[Len(trail) + 1] = e
OBVIOUS

-----------------------------------------------------------------------------

LifecycleInv == LifecycleTypeOK /\ AuditChain /\ RcaIffClosed

LEMMA LifecycleStarts == LifecycleInit => LifecycleInv
BY RankFacts DEF LifecycleInit, LifecycleInv, LifecycleTypeOK, AuditChain, RcaIffClosed,
                 Moves, State

(* A row that moves nothing adds no move to the trail. *)
LEMMA EscalateKeeps ==
  ASSUME LifecycleInv, Escalate
  PROVE  LifecycleInv'
<1> DEFINE e == [from |-> "OPEN", to |-> "OPEN", by |-> Scheduler]
<1>1. e \in Entry
  BY DEF Entry, State
<1>2. audit \in Seq(Entry) /\ audit' = Append(audit, e)
  BY DEF LifecycleInv, LifecycleTypeOK, Escalate
<1>3. /\ audit' \in Seq(Entry)
      /\ DOMAIN audit = 1..Len(audit)
      /\ Len(audit) \in Nat
      /\ DOMAIN audit' = 1..(Len(audit) + 1)
      /\ \A i \in DOMAIN audit : audit'[i] = audit[i]
      /\ audit'[Len(audit) + 1] = e
  BY <1>1, <1>2, AppendRow
<1>4. Moves' = Moves
  <2>1. e.from = e.to
    OBVIOUS
  <2>2. \A i : i \in DOMAIN audit' <=> i \in DOMAIN audit \/ i = Len(audit) + 1
    BY <1>3
  <2> HIDE DEF e
  <2> QED BY <1>3, <2>1, <2>2 DEF Moves
<1>5. \A i \in Moves : audit'[i] = audit[i]
  BY <1>3 DEF Moves
<1>6. state' = state /\ rcas' = rcas
  BY DEF Escalate
<1>7. LifecycleTypeOK'
  BY <1>3, <1>6 DEF LifecycleInv, LifecycleTypeOK
<1>8. AuditChain'
  BY <1>4, <1>5, <1>6 DEF LifecycleInv, AuditChain
<1> QED
  BY <1>6, <1>7, <1>8 DEF LifecycleInv, RcaIffClosed

(* A move adds the one link that the chain to the new state lacks. *)
LEMMA AdvanceKeeps ==
  ASSUME LifecycleInv, NEW by \in Requests, NEW to \in State, Advance(by, to)
  PROVE  LifecycleInv'
<1> DEFINE e == [from |-> state, to |-> to, by |-> by]
<1> DEFINE n == Len(audit) + 1
<1>1. state \in State /\ e \in Entry
  BY DEF LifecycleInv, LifecycleTypeOK, Entry
<1>2. audit \in Seq(Entry) /\ audit' = Append(audit, e)
  BY DEF LifecycleInv, LifecycleTypeOK, Advance
<1>3. /\ audit' \in Seq(Entry)
      /\ DOMAIN audit = 1..Len(audit)
      /\ Len(audit) \in Nat
      /\ DOMAIN audit' = 1..n
      /\ \A i \in DOMAIN audit : audit'[i] = audit[i]
      /\ audit'[n] = e
  BY <1>1, <1>2, AppendRow
<1>4. /\ state' = to
      /\ Rank(to) = Rank(state) + 1
      /\ rcas' = IF to = "CLOSED" THEN rcas + 1 ELSE rcas
  BY DEF Advance
<1>5. /\ Rank(state) \in 0..3 /\ Rank(to) \in 0..3 /\ to # state
  BY <1>1, <1>4, RankFacts
<1>6. Moves' = Moves \cup {n}
  <2>1. e.from # e.to
    BY <1>5
  <2>2. \A i : i \in DOMAIN audit' <=> i \in DOMAIN audit \/ i = n
    BY <1>3
  <2> HIDE DEF e, n
  <2> QED BY <1>3, <2>1, <2>2 DEF Moves
<1>7. \A i \in Moves : audit'[i] = audit[i] /\ i < n /\ i \in Nat
                       /\ audit[i].to \in State /\ audit[i].from \in State
  <2> SUFFICES ASSUME NEW i \in Moves
               PROVE  /\ audit'[i] = audit[i] /\ i < n /\ i \in Nat
                      /\ audit[i].to \in State /\ audit[i].from \in State
    OBVIOUS
  <2>1. i \in 1..Len(audit)
    BY <1>3 DEF Moves
  <2>2. audit[i] \in Entry
    BY <2>1, <1>2
  <2> QED BY <2>1, <2>2, <1>3 DEF Entry
<1>8. audit'[n].from = state /\ audit'[n].to = to
  BY <1>3
<1>9. LifecycleTypeOK'
  BY <1>3, <1>4 DEF LifecycleInv, LifecycleTypeOK
<1> HIDE DEF n
<1>10. AuditChain'
  <2>1. \A i \in Moves' : /\ Rank(audit'[i].to) = Rank(audit'[i].from) + 1
                          /\ Rank(audit'[i].to) <= Rank(state')
    BY <1>4, <1>5, <1>6, <1>7, <1>8, RankFacts DEF LifecycleInv, AuditChain
  <2>2. \A i, j \in Moves' : i < j => Rank(audit'[i].to) < Rank(audit'[j].to)
    <3> SUFFICES ASSUME NEW i \in Moves', NEW j \in Moves', i < j
                 PROVE  Rank(audit'[i].to) < Rank(audit'[j].to)
      OBVIOUS
    <3>1. i \in Moves
      BY <1>3, <1>6, <1>7 DEF n
    <3>2. CASE j = n
      BY <3>1, <3>2, <1>4, <1>5, <1>7, <1>8, RankFacts DEF LifecycleInv, AuditChain
    <3>3. CASE j # n
      BY <3>1, <3>3, <1>6, <1>7 DEF LifecycleInv, AuditChain
    <3> QED BY <3>2, <3>3
  <2>3. ASSUME NEW s \in State, 0 < Rank(s), Rank(s) <= Rank(state')
        PROVE  \E i \in Moves' : audit'[i].to = s
    <3>1. CASE Rank(s) = Rank(to)
      BY <3>1, <1>6, <1>8, RankFacts
    <3>2. CASE Rank(s) # Rank(to)
      <4>1. Rank(s) <= Rank(state)
        BY <3>2, <2>3, <1>4, <1>5, RankFacts
      <4>2. PICK i \in Moves : audit[i].to = s
        BY <4>1, <2>3 DEF LifecycleInv, AuditChain
      <4> QED BY <4>2, <1>6, <1>7
    <3> QED BY <3>1, <3>2
  <2> QED BY <2>1, <2>2, <2>3 DEF AuditChain
<1>11. RcaIffClosed'
  BY <1>1, <1>4, <1>5, RankFacts DEF LifecycleInv, RcaIffClosed
<1> QED
  BY <1>9, <1>10, <1>11 DEF LifecycleInv

LEMMA LifecycleKept == LifecycleInv /\ [LifecycleNext]_lifecycle => LifecycleInv'
<1> SUFFICES ASSUME LifecycleInv, [LifecycleNext]_lifecycle
             PROVE  LifecycleInv'
  OBVIOUS
<1>1. CASE \E by \in Requests, to \in State : Advance(by, to)
  BY <1>1, AdvanceKeeps
<1>2. CASE Escalate
  BY <1>2, EscalateKeeps
<1>3. CASE UNCHANGED lifecycle
  BY <1>3 DEF lifecycle, LifecycleInv, LifecycleTypeOK, AuditChain, RcaIffClosed, Moves
<1> QED BY <1>1, <1>2, <1>3 DEF LifecycleNext

(* The lifecycle as specified keeps its trail a chain and its analyses in  *)
(* step with its state, for any set of requests and any number of          *)
(* escalations.                                                            *)
THEOREM LifecycleHolds == LifecycleSpec => []LifecycleInv
<1> QED BY LifecycleStarts, LifecycleKept, PTL DEF LifecycleSpec

-----------------------------------------------------------------------------

(* A request that is about to write has read a state from which the graph  *)
(* permits what it asks.                                                   *)
Decided == \A r \in Requests : pc[r] = "commit" => Permitted(seen[r], ask[r])

TypeInv == TypeOK /\ Decided

LEMMA AskType ==
  ASSUME NEW a \in Ask
  PROVE  /\ a.to \in State /\ a.valid \in BOOLEAN
         /\ a.kind \in {"transition", "rca"}
         /\ a.kind = "rca" => a.to = "CLOSED"
BY DEF Ask, State

LEMMA RefusalType ==
  ASSUME NEW a \in Ask
  PROVE  Refusal(a) \in Refused
BY DEF Refusal, Refused

LEMMA TypeStarts == Init => TypeInv
<1> SUFFICES ASSUME Init
             PROVE  TypeInv
  OBVIOUS
<1>1. LifecycleTypeOK
  BY LifecycleStarts DEF Init, LifecycleInv
<1>2. ask \in [Requests -> Ask] /\ Attempts \in Nat \ {0}
  BY WorkflowAssumption DEF Init
<1>3. TypeOK
  BY <1>1, <1>2 DEF Init, TypeOK, Location, Outcome, State
<1> QED BY <1>3 DEF Init, TypeInv, Decided

(* The committing update, whether its acknowledgement arrives or not, is a *)
(* step of the lifecycle: the snapshot was checked by the graph, and the   *)
(* guarded WHERE makes it the current state.                               *)
LEMMA AppliedAdvances ==
  ASSUME TypeInv, NEW r \in Requests, pc[r] = "commit", Applied(r)
  PROVE  /\ ask[r].to \in State
         /\ Advance(r, ask[r].to)
<1>1. ask[r] \in Ask
  BY DEF TypeInv, TypeOK
<1>2. /\ Rank(ask[r].to) = Rank(seen[r]) + 1
      /\ ask[r].to = "CLOSED" => ask[r].kind = "rca"
  BY DEF TypeInv, Decided, Permitted
<1>3. /\ ask[r].to \in State
      /\ ask[r].kind = "rca" <=> ask[r].to = "CLOSED"
  BY <1>1, <1>2, AskType
<1>4. /\ state = seen[r] /\ state' = ask[r].to
      /\ rcas' = IF ask[r].kind = "rca" THEN rcas + 1 ELSE rcas
      /\ audit' = Append(audit, [from |-> seen[r], to |-> ask[r].to, by |-> r])
  BY DEF Applied
<1> QED BY <1>2, <1>3, <1>4 DEF Advance

(* What every step does to the three tables. *)
LEMMA TablesStep ==
  ASSUME TypeInv, [Next]_vars
  PROVE  [LifecycleNext]_lifecycle
<1>1. ASSUME NEW r \in Requests, Commit(r) \/ CommitUnacknowledged(r)
      PROVE  LifecycleNext
  <2>1. pc[r] = "commit" /\ Applied(r)
    BY <1>1 DEF Commit, CommitUnacknowledged
  <2> QED BY <2>1, AppliedAdvances DEF LifecycleNext
<1>2. ASSUME NEW r \in Requests,
             \/ Read(r) \/ Conflict(r) \/ CacheWrite(r) \/ Dispatch(r) \/ Publish(r)
             \/ ReadFails(r) \/ CommitFails(r) \/ Crash(r)
      PROVE  UNCHANGED lifecycle
  BY <1>2 DEF Read, Conflict, CacheWrite, Dispatch, Publish, ReadFails, CommitFails, Crash
<1>3. ASSUME RecordEscalation
      PROVE  LifecycleNext
  BY <1>3 DEF RecordEscalation, LifecycleNext
<1>4. ASSUME UNCHANGED vars
      PROVE  UNCHANGED lifecycle
  BY <1>4 DEF vars, lifecycle
<1> QED BY <1>1, <1>2, <1>3, <1>4 DEF Next, Progress, Failure

LEMMA TablesType ==
  ASSUME LifecycleTypeOK, [LifecycleNext]_lifecycle
  PROVE  LifecycleTypeOK'
<1>1. ASSUME NEW by \in Requests, NEW to \in State, Advance(by, to)
      PROVE  LifecycleTypeOK'
  <2>1. [from |-> state, to |-> to, by |-> by] \in Entry
    BY DEF LifecycleTypeOK, Entry
  <2>2. audit' \in Seq(Entry)
    BY <1>1, <2>1, AppendRow DEF LifecycleTypeOK, Advance
  <2> QED BY <1>1, <2>2 DEF LifecycleTypeOK, Advance
<1>2. ASSUME Escalate
      PROVE  LifecycleTypeOK'
  <2>1. [from |-> "OPEN", to |-> "OPEN", by |-> Scheduler] \in Entry
    BY DEF Entry, State
  <2>2. audit' \in Seq(Entry)
    BY <1>2, <2>1, AppendRow DEF LifecycleTypeOK, Escalate
  <2> QED BY <1>2, <2>2 DEF LifecycleTypeOK, Escalate
<1>3. CASE UNCHANGED lifecycle
  BY <1>3 DEF lifecycle, LifecycleTypeOK
<1> QED BY <1>1, <1>2, <1>3 DEF LifecycleNext

(* The types of the variables that belong to the requests and the cache. *)
RequestsTypeOK ==
  /\ ask \in [Requests -> Ask]
  /\ pc \in [Requests -> Location]
  /\ seen \in [Requests -> State]
  /\ tries \in [Requests -> 0..Attempts]
  /\ outcome \in [Requests -> Outcome]

EffectsTypeOK ==
  /\ summary \in (State \ {"CLOSED"}) \cup {"none"}
  /\ listed \in BOOLEAN
  /\ claimed \in SUBSET State
  /\ alerts \in [State -> Nat]
  /\ events \in [State -> Nat]

LEMMA RequestsStep ==
  ASSUME TypeInv, NEW r \in Requests, Progress(r) \/ Failure(r)
  PROVE  RequestsTypeOK' /\ Decided'
<1>1. /\ RequestsTypeOK /\ Decided /\ state \in State
      /\ ask[r] \in Ask /\ Refusal(ask[r]) \in Refused
      /\ Attempts \in Nat \ {0}
  BY RefusalType, WorkflowAssumption
     DEF TypeInv, TypeOK, RequestsTypeOK, LifecycleTypeOK
<1>2. CASE Read(r)
  <2>1. CASE Permitted(state, ask[r])
    BY <1>1, <1>2, <2>1 DEF Read, Goto, RequestsTypeOK, Location, Decided
  <2>2. CASE ~ Permitted(state, ask[r])
    BY <1>1, <1>2, <2>2 DEF Read, Answer, Goto, RequestsTypeOK, Location, Outcome, Decided
  <2> QED BY <2>1, <2>2
<1>3. CASE Commit(r) \/ CacheWrite(r) \/ Dispatch(r)
  BY <1>1, <1>3 DEF Commit, CacheWrite, Dispatch, Goto, requestVars, RequestsTypeOK, Location,
                    Decided
<1>4. ASSUME NEW answer \in Outcome, Answer(r, answer), UNCHANGED <<ask, seen, tries>>
      PROVE  RequestsTypeOK' /\ Decided'
  BY <1>1, <1>4 DEF Answer, Goto, RequestsTypeOK, Location, Decided
<1>5. CASE Conflict(r) \/ Publish(r) \/ ReadFails(r) \/ Crash(r)
  <2>1. {"conflict", "invalid_state", "transitioned", "closed", "error", "crashed"}
          \subseteq Outcome
    BY DEF Outcome, Won, Refused, Lost
  <2>2. \E answer \in Outcome : Answer(r, answer)
    BY <1>5, <2>1 DEF Conflict, Publish, ReadFails, Crash
  <2>3. UNCHANGED <<ask, seen, tries>>
    BY <1>5 DEF Conflict, Publish, ReadFails, Crash
  <2> QED BY <2>2, <2>3, <1>4
<1>6. CASE CommitFails(r) \/ CommitUnacknowledged(r)
  <2>1. UNCHANGED <<ask, seen>> /\ WriteFailed(r)
    BY <1>6 DEF CommitFails, CommitUnacknowledged
  <2>2. CASE Retry(r)
    BY <1>1, <2>1, <2>2 DEF Retry, RequestsTypeOK, Decided
  <2>3. CASE Answer(r, "error") /\ UNCHANGED tries
    BY <2>1, <2>3, <1>4 DEF Outcome
  <2> QED BY <2>1, <2>2, <2>3 DEF WriteFailed
<1> QED BY <1>2, <1>3, <1>5, <1>6 DEF Progress, Failure

LEMMA EffectsStep ==
  ASSUME TypeInv, NEW r \in Requests, Progress(r) \/ Failure(r)
  PROVE  EffectsTypeOK'
<1>1. EffectsTypeOK /\ ask[r].to \in State
  BY AskType DEF TypeInv, TypeOK, EffectsTypeOK
<1>2. CASE CacheWrite(r)
  BY <1>1, <1>2 DEF CacheWrite, Cached, EffectsTypeOK
<1>3. CASE Dispatch(r)
  <2>1. alerts' = alerts \/ alerts' = [alerts EXCEPT ![ask[r].to] = @ + 1]
    BY <1>3 DEF Dispatch
  <2>2. claimed' \in {claimed, claimed \cup {ask[r].to}}
    BY <1>3 DEF Dispatch
  <2>3. UNCHANGED <<summary, listed, events>>
    BY <1>3 DEF Dispatch
  <2> QED BY <1>1, <2>1, <2>2, <2>3 DEF EffectsTypeOK
<1>4. CASE Publish(r)
  <2>1. events' = events \/ events' = [events EXCEPT ![ask[r].to] = @ + 1]
    BY <1>4 DEF Publish
  <2> QED BY <1>1, <1>4, <2>1 DEF Publish, EffectsTypeOK
<1>5. CASE \/ Read(r) \/ Commit(r) \/ Conflict(r) \/ ReadFails(r) \/ CommitFails(r)
           \/ CommitUnacknowledged(r) \/ Crash(r)
  <2>1. UNCHANGED effects
    BY <1>5 DEF Read, Commit, Conflict, ReadFails, CommitFails, CommitUnacknowledged, Crash
  <2> QED BY <1>1, <2>1 DEF effects, EffectsTypeOK
<1> QED BY <1>2, <1>3, <1>4, <1>5 DEF Progress, Failure

LEMMA TypeStep == TypeInv /\ [Next]_vars => TypeInv'
<1> SUFFICES ASSUME TypeInv, [Next]_vars
             PROVE  TypeInv'
  OBVIOUS
<1>1. LifecycleTypeOK'
  BY TablesStep, TablesType DEF TypeInv, TypeOK
<1>2. RequestsTypeOK' /\ EffectsTypeOK' /\ Decided'
  <2>1. CASE \E r \in Requests : Progress(r) \/ Failure(r)
    BY <2>1, RequestsStep, EffectsStep
  <2>2. CASE RecordEscalation \/ UNCHANGED vars
    <3>1. UNCHANGED <<requestVars, pc, tries, effects>>
      BY <2>2 DEF RecordEscalation, vars
    <3> QED BY <3>1 DEF requestVars, effects, TypeInv, TypeOK, RequestsTypeOK, EffectsTypeOK,
                        Decided
  <2> QED BY <2>1, <2>2 DEF Next
<1> QED BY <1>1, <1>2 DEF TypeInv, TypeOK, RequestsTypeOK, EffectsTypeOK

(* Every variable of the workflow stays in its type, and no request        *)
(* reaches the database with a move that the graph had refused.            *)
THEOREM TypeCorrect == Spec => [](TypeOK /\ Decided)
<1> QED BY TypeStarts, TypeStep, PTL DEF Spec, TypeInv

(* Refinement: whatever requests race, are retried after a commit that was *)
(* not acknowledged, or die between two awaits, the tables make the steps  *)
(* of the lifecycle and no others.                                         *)
THEOREM WorkflowImplements == Spec => Implements
<1>1. Init => LifecycleInit
  BY DEF Init
<1>2. TypeInv /\ [Next]_vars => [LifecycleNext]_lifecycle
  BY TablesStep
<1> QED BY <1>1, <1>2, TypeStarts, TypeStep, PTL DEF Spec, Implements, LifecycleSpec

(* The audit trail is the chain of moves from OPEN to the current state,   *)
(* for any number of requests.                                             *)
THEOREM TrailIsChain == Spec => []AuditChain
<1>1. LifecycleInv => AuditChain
  BY DEF LifecycleInv
<1> QED BY <1>1, WorkflowImplements, LifecycleHolds, PTL DEF Implements

(* A closed work item has exactly one root cause analysis, an active one   *)
(* has none, however many submissions raced.                               *)
THEOREM OneRcaPerClose == Spec => []RcaIffClosed
<1>1. LifecycleInv => RcaIffClosed
  BY DEF LifecycleInv
<1> QED BY <1>1, WorkflowImplements, LifecycleHolds, PTL DEF Implements

-----------------------------------------------------------------------------

(* What ties the trail to the progress of each request: nothing is written *)
(* before its checks; while it may still write, a row of its own can only  *)
(* come from an unacknowledged commit, which has moved the state past the  *)
(* snapshot its retry is guarded by; past its commit, its row is there.    *)
Tied(r) ==
  /\ \A i, j \in Writes(r) : i = j
  /\ pc[r] = "new" => Writes(r) = {}
  /\ pc[r] = "commit" /\ Writes(r) # {} =>
       "postgres" \in Failures /\ Rank(seen[r]) < Rank(state)
  /\ pc[r] \in {"cache", "alert", "publish"} =>
       \E i \in Writes(r) : audit[i].to = ask[r].to
  /\ pc[r] # "done" => outcome[r] = "none"

(* With what its answer says, all there is to know of one request. *)
HonestFor(r) ==
  /\ Tied(r)
  /\ outcome[r] \in Won => \E i \in Writes(r) : audit[i].to = ask[r].to
  /\ outcome[r] \in Refused \ Lost => Writes(r) = {}
  /\ outcome[r] \in Lost /\ "postgres" \notin Failures => Writes(r) = {}

HonestInv == TypeInv /\ \A r \in Requests : HonestFor(r)

(* The rows a request wrote, before and after a row e is appended. *)
LEMMA WritesAfter ==
  ASSUME LifecycleTypeOK, NEW e \in Entry, audit' = Append(audit, e), NEW r \in Requests
  PROVE  /\ e.by = r => Writes(r)' = Writes(r) \cup {Len(audit) + 1}
         /\ e.by # r => Writes(r)' = Writes(r)
         /\ \A i \in Writes(r) : audit'[i] = audit[i]
         /\ audit'[Len(audit) + 1] = e
<1> DEFINE n == Len(audit) + 1
<1>1. /\ DOMAIN audit = 1..Len(audit) /\ Len(audit) \in Nat
      /\ DOMAIN audit' = 1..n
      /\ \A i \in DOMAIN audit : audit'[i] = audit[i]
      /\ audit'[n] = e
  BY AppendRow DEF LifecycleTypeOK
<1>2. \A i : i \in DOMAIN audit' <=> i \in DOMAIN audit \/ i = n
  BY <1>1
<1> HIDE DEF n
<1>3. e.by = r => Writes(r)' = Writes(r) \cup {n}
  BY <1>1, <1>2 DEF Writes
<1>4. e.by # r => Writes(r)' = Writes(r)
  BY <1>1, <1>2 DEF Writes
<1>5. \A i \in Writes(r) : audit'[i] = audit[i]
  BY <1>1 DEF Writes
<1> QED BY <1>1, <1>3, <1>4, <1>5 DEF n

LEMMA HonestStarts == Init => HonestInv
<1> SUFFICES ASSUME Init
             PROVE  HonestInv
  OBVIOUS
<1>1. TypeInv
  BY TypeStarts
<1>2. \A r \in Requests : Writes(r) = {} /\ pc[r] = "new" /\ outcome[r] = "none"
  <2>1. DOMAIN audit = {}
    BY DEF Init, LifecycleInit
  <2>2. \A r \in Requests : Writes(r) = {}
    BY <2>1 DEF Writes
  <2> QED BY <2>2 DEF Init
<1>3. "none" \notin Won /\ "none" \notin Refused /\ "none" \notin Lost
  BY DEF Won, Refused, Lost
<1> QED BY <1>1, <1>2, <1>3 DEF HonestInv, HonestFor, Tied

(* The answers that are not about the trail. *)
LEMMA OutcomeKinds ==
  /\ "none" \notin Won /\ "none" \notin Refused /\ "none" \notin Lost
  /\ "error" \notin Won /\ "error" \notin Refused /\ "error" \notin Lost
  /\ "crashed" \notin Won /\ "crashed" \notin Refused /\ "crashed" \notin Lost
  /\ {"transitioned", "closed"} = Won
  /\ Won \cap (Refused \cup Lost) = {}
  /\ {"conflict", "invalid_state"} = Lost
BY DEF Won, Refused, Lost

(* A step that leaves the trail and request q alone, and the state no      *)
(* lower, keeps what is claimed of q.                                      *)
LEMMA OthersKept ==
  ASSUME HonestInv, TypeInv', NEW q \in Requests,
         Writes(q)' = Writes(q), \A i \in Writes(q) : audit'[i] = audit[i],
         ask' = ask, pc'[q] = pc[q], seen'[q] = seen[q], outcome'[q] = outcome[q],
         Rank(state) <= Rank(state')
  PROVE  HonestFor(q)'
<1>1. HonestFor(q)
  BY DEF HonestInv
<1>2. /\ Rank(seen[q]) \in 0..3 /\ Rank(state) \in 0..3 /\ Rank(state') \in 0..3
  BY RankFacts DEF HonestInv, TypeInv, TypeOK, LifecycleTypeOK
<1> QED BY <1>1, <1>2 DEF HonestFor, Tied

(* A request whose transaction commits had written nothing before: a row   *)
(* of its own would have moved the state past its snapshot.                *)
LEMMA CommitHonest ==
  ASSUME HonestInv, TypeInv', NEW r \in Requests, pc[r] = "commit", Applied(r),
         UNCHANGED <<ask, seen>>,
         \/ pc' = [pc EXCEPT ![r] = "cache"] /\ outcome' = outcome
         \/ "postgres" \in Failures /\ UNCHANGED <<pc, outcome>>
         \/ Answer(r, "error")
  PROVE  HonestInv'
<1> DEFINE e == [from |-> seen[r], to |-> ask[r].to, by |-> r]
<1>1. /\ TypeInv /\ LifecycleTypeOK /\ HonestFor(r)
      /\ pc \in [Requests -> Location] /\ outcome \in [Requests -> Outcome]
      /\ seen[r] \in State
  BY DEF HonestInv, TypeInv, TypeOK
<1>2. ask[r].to \in State /\ Advance(r, ask[r].to)
  BY <1>1, AppliedAdvances
<1>3. /\ Rank(state) < Rank(state') /\ Rank(seen[r]) < Rank(state')
      /\ Rank(state) <= Rank(state')
  BY <1>1, <1>2, RankFacts DEF Advance, Applied, LifecycleTypeOK
<1>4. Writes(r) = {}
  <2>1. ~ (Rank(seen[r]) < Rank(state))
    BY <1>1, RankFacts DEF Applied
  <2> QED BY <1>1, <2>1 DEF HonestFor, Tied
<1>5. e \in Entry /\ audit' = Append(audit, e)
  BY <1>1, <1>2 DEF Applied, Entry
<1>6. /\ Writes(r)' = {Len(audit) + 1}
      /\ audit'[Len(audit) + 1].to = ask[r].to
  BY <1>1, <1>4, <1>5, WritesAfter
<1>7. HonestFor(r)'
  <2>0. /\ \A i, j \in Writes(r)' : i = j
        /\ \E i \in Writes(r)' : audit'[i].to = ask'[r].to
        /\ outcome[r] = "none"
    BY <1>1, <1>6 DEF HonestFor, Tied
  <2>1. CASE pc' = [pc EXCEPT ![r] = "cache"] /\ outcome' = outcome
    <3>1. pc'[r] = "cache" /\ outcome'[r] = "none"
      BY <1>1, <2>0, <2>1
    <3>2. Tied(r)'
      BY <2>0, <3>1 DEF Tied
    <3> QED BY <3>1, <3>2, OutcomeKinds DEF HonestFor
  <2>2. CASE "postgres" \in Failures /\ UNCHANGED <<pc, outcome>>
    BY <1>1, <1>3, <1>6, <2>2, OutcomeKinds DEF HonestFor, Tied
  <2>3. CASE Answer(r, "error")
    BY <1>1, <1>6, <2>3, OutcomeKinds DEF HonestFor, Tied, Answer, Goto
  <2> QED BY <2>1, <2>2, <2>3
<1>8. ASSUME NEW q \in Requests, q # r
      PROVE  HonestFor(q)'
  <2>1. Writes(q)' = Writes(q) /\ \A i \in Writes(q) : audit'[i] = audit[i]
    BY <1>1, <1>5, <1>8, WritesAfter
  <2>2. pc'[q] = pc[q] /\ outcome'[q] = outcome[q]
    BY <1>1, <1>8 DEF Answer, Goto
  <2> QED BY <1>3, <2>1, <2>2, OthersKept
<1> QED BY <1>7, <1>8 DEF HonestInv

(* A step of r that writes no row keeps what is claimed of the others; of  *)
(* r itself the new place and answer must fit what r has written.          *)
LEMMA QuietHonest ==
  ASSUME HonestInv, TypeInv', NEW r \in Requests, UNCHANGED lifecycle,
         NEW place \in Location, NEW answer,
         pc' = [pc EXCEPT ![r] = place], outcome' = [outcome EXCEPT ![r] = answer],
         ask' = ask, \A q \in Requests : q # r => seen'[q] = seen[q],
         HonestFor(r)'
  PROVE  HonestInv'
<1>1. ASSUME NEW q \in Requests, q # r
      PROVE  HonestFor(q)'
  <2>1. /\ pc \in [Requests -> Location] /\ outcome \in [Requests -> Outcome]
        /\ Rank(state) \in 0..3
    BY RankFacts DEF HonestInv, TypeInv, TypeOK, LifecycleTypeOK
  <2>2. /\ pc'[q] = pc[q] /\ outcome'[q] = outcome[q] /\ seen'[q] = seen[q]
        /\ audit' = audit /\ state' = state
    BY <1>1, <2>1 DEF lifecycle
  <2>3. Writes(q)' = Writes(q)
    BY <2>2 DEF Writes
  <2> QED BY <2>1, <2>2, <2>3, OthersKept
<1> QED BY <1>1 DEF HonestInv

LEMMA RequestHonest ==
  ASSUME HonestInv, TypeInv', NEW r \in Requests, Progress(r) \/ Failure(r)
  PROVE  HonestInv'
<1>1. /\ HonestFor(r) /\ Decided
      /\ pc \in [Requests -> Location] /\ outcome \in [Requests -> Outcome]
      /\ seen \in [Requests -> State]
      /\ ask[r] \in Ask /\ Refusal(ask[r]) \in Refused
      /\ Rank(state) \in 0..3
  BY RefusalType, RankFacts DEF HonestInv, TypeInv, TypeOK, LifecycleTypeOK
<1>2. CASE Commit(r) \/ CommitUnacknowledged(r)
  <2>1. pc[r] = "commit" /\ Applied(r) /\ UNCHANGED <<ask, seen>>
    BY <1>2 DEF Commit, CommitUnacknowledged, requestVars
  <2>2. \/ pc' = [pc EXCEPT ![r] = "cache"] /\ outcome' = outcome
        \/ "postgres" \in Failures /\ UNCHANGED <<pc, outcome>>
        \/ Answer(r, "error")
    BY <1>2 DEF Commit, CommitUnacknowledged, WriteFailed, Retry, Goto, requestVars
  <2> QED BY <2>1, <2>2, CommitHonest
<1>3. ASSUME UNCHANGED lifecycle
      PROVE  /\ Writes(r)' = Writes(r) /\ audit' = audit /\ state' = state
  BY <1>3 DEF lifecycle, Writes
<1>4. ASSUME NEW place \in Location, UNCHANGED <<lifecycle, ask, seen, outcome>>,
             pc' = [pc EXCEPT ![r] = place],
             \/ pc[r] = "cache" /\ place = "alert"
             \/ pc[r] = "alert" /\ place = "publish"
      PROVE  HonestInv'
  <2>1. HonestFor(r)'
    BY <1>1, <1>3, <1>4 DEF HonestFor, Tied
  <2>2. outcome' = [outcome EXCEPT ![r] = outcome[r]]
    BY <1>1, <1>4
  <2> QED BY <1>4, <2>1, <2>2, QuietHonest
<1>5. CASE CacheWrite(r) \/ Dispatch(r)
  BY <1>4, <1>5 DEF CacheWrite, Dispatch, Goto, requestVars, Location
<1>6. ASSUME NEW answer \in Outcome, Answer(r, answer), UNCHANGED <<lifecycle, ask>>,
             \A q \in Requests : q # r => seen'[q] = seen[q],
             answer \in Won => \E i \in Writes(r) : audit[i].to = ask[r].to,
             answer \in Refused \ Lost => Writes(r) = {},
             answer \in Lost /\ "postgres" \notin Failures => Writes(r) = {}
      PROVE  HonestInv'
  <2>1. pc'[r] = "done" /\ outcome'[r] = answer
    BY <1>1, <1>6 DEF Answer, Goto
  <2>2. HonestFor(r)'
    BY <1>1, <1>3, <1>6, <2>1 DEF HonestFor, Tied
  <2> QED BY <1>6, <2>2, QuietHonest DEF Answer, Goto, Location
<1>7. CASE ReadFails(r) \/ Crash(r)
  BY <1>6, <1>7, OutcomeKinds DEF ReadFails, Crash, Outcome
<1>8. CASE CommitFails(r)
  <2>1. CASE Answer(r, "error")
    BY <1>6, <1>8, <2>1, OutcomeKinds DEF CommitFails, Outcome
  <2>2. CASE Retry(r)
    <3>1. /\ UNCHANGED <<lifecycle, ask, seen, pc, outcome>>
      BY <1>8, <2>2 DEF CommitFails, Retry
    <3>2. /\ pc' = [pc EXCEPT ![r] = pc[r]] /\ outcome' = [outcome EXCEPT ![r] = outcome[r]]
          /\ pc[r] \in Location
      BY <1>1, <3>1
    <3>3. HonestFor(r)'
      BY <1>1, <1>3, <3>1 DEF HonestFor, Tied
    <3> QED BY <3>1, <3>2, <3>3, QuietHonest
  <2> QED BY <1>8, <2>1, <2>2 DEF CommitFails, WriteFailed
<1>9. CASE Conflict(r)
  <2>1. "postgres" \notin Failures => Writes(r) = {}
    BY <1>1, <1>9 DEF HonestFor, Tied, Conflict
  <2>2. \E answer \in Lost : Answer(r, answer)
    BY <1>9 DEF Conflict, Lost
  <2>3. Lost \subseteq Outcome /\ Won \cap Lost = {}
    BY DEF Outcome, Won, Lost
  <2> QED BY <1>6, <1>9, <2>1, <2>2, <2>3 DEF Conflict
<1>10. CASE Publish(r)
  <2>1. \E i \in Writes(r) : audit[i].to = ask[r].to
    BY <1>1, <1>10 DEF HonestFor, Tied, Publish
  <2>2. \E answer \in Won : Answer(r, answer)
    BY <1>10 DEF Publish, Won
  <2>3. Won \subseteq Outcome /\ Won \cap (Refused \cup Lost) = {}
    BY DEF Outcome, Won, Refused, Lost
  <2> QED BY <1>6, <1>10, <2>1, <2>2, <2>3 DEF Publish
<1>11. CASE Read(r)
  <2>1. Writes(r) = {} /\ outcome[r] = "none"
    BY <1>1, <1>11 DEF HonestFor, Tied, Read
  <2>2. /\ UNCHANGED <<lifecycle, ask>>
        /\ \A q \in Requests : q # r => seen'[q] = seen[q]
    BY <1>1, <1>11 DEF Read
  <2>3. CASE Permitted(state, ask[r])
    <3>1. pc' = [pc EXCEPT ![r] = "commit"] /\ outcome' = outcome
      BY <1>11, <2>3 DEF Read, Goto
    <3>2. HonestFor(r)'
      BY <1>1, <1>3, <2>1, <2>2, <3>1, OutcomeKinds DEF HonestFor, Tied
    <3>3. outcome' = [outcome EXCEPT ![r] = outcome[r]]
      BY <1>1, <3>1
    <3> QED BY <2>2, <3>1, <3>2, <3>3, QuietHonest DEF Location
  <2>4. CASE ~ Permitted(state, ask[r])
    <3>1. Answer(r, Refusal(ask[r]))
      BY <1>11, <2>4 DEF Read
    <3>2. Refused \subseteq Outcome /\ Won \cap Refused = {}
      BY DEF Outcome, Won, Refused
    <3> QED BY <1>1, <1>6, <2>1, <2>2, <3>1, <3>2
  <2> QED BY <2>3, <2>4
<1> QED BY <1>2, <1>5, <1>7, <1>8, <1>9, <1>10, <1>11 DEF Progress, Failure

LEMMA HonestStep == HonestInv /\ [Next]_vars => HonestInv'
<1> SUFFICES ASSUME HonestInv, [Next]_vars
             PROVE  HonestInv'
  OBVIOUS
<1>1. TypeInv'
  BY TypeStep DEF HonestInv
<1>2. CASE \E r \in Requests : Progress(r) \/ Failure(r)
  BY <1>1, <1>2, RequestHonest
<1>3. CASE RecordEscalation \/ UNCHANGED vars
  <2>1. UNCHANGED <<ask, pc, seen, outcome, state>>
    BY <1>3 DEF RecordEscalation, Escalate, requestVars, vars
  <2>2. ASSUME NEW q \in Requests
        PROVE  Writes(q)' = Writes(q) /\ \A i \in Writes(q) : audit'[i] = audit[i]
    <3>1. CASE RecordEscalation
      <4>1. /\ [from |-> "OPEN", to |-> "OPEN", by |-> Scheduler] \in Entry
            /\ q # Scheduler
        BY LifecycleAssumption DEF Entry, State
      <4>2. audit' = Append(audit, [from |-> "OPEN", to |-> "OPEN", by |-> Scheduler])
        BY <3>1 DEF RecordEscalation, Escalate
      <4> QED BY <4>1, <4>2, WritesAfter DEF HonestInv, TypeInv, TypeOK
    <3>2. CASE UNCHANGED vars
      BY <3>2 DEF vars, Writes
    <3> QED BY <1>3, <3>1, <3>2
  <2>3. Rank(state) <= Rank(state')
    <3>1. Rank(state) \in 0..3
      BY RankFacts DEF HonestInv, TypeInv, TypeOK, LifecycleTypeOK
    <3> QED BY <2>1, <3>1
  <2>4. \A q \in Requests : HonestFor(q)'
    BY <1>1, <2>1, <2>2, <2>3, OthersKept
  <2> QED BY <1>1, <2>4 DEF HonestInv
<1> QED BY <1>2, <1>3 DEF Next

(* A request changes the work item at most once and its answer tells the   *)
(* truth about that change, for any number of racing requests, retries and *)
(* lost acknowledgements.                                                  *)
THEOREM AnswersHold == Spec => []AnswersAreHonest
<1>1. HonestInv => AnswersAreHonest
  BY DEF HonestInv, HonestFor, Tied, AnswersAreHonest
<1> QED BY <1>1, HonestStarts, HonestStep, PTL DEF Spec

-----------------------------------------------------------------------------

(* What a request wrote moved the work item: only the scheduler writes     *)
(* rows that move nothing.                                                 *)
RowsMove == \A r \in Requests : Writes(r) \subseteq Moves

(* The requests whose change is on the trail and whose effects are under   *)
(* way or out.                                                             *)
Entered(r) == pc[r] \in {"cache", "alert", "publish"} \/ outcome[r] \in Won

(* What ties the effects to the progress of the request that entered the   *)
(* state: none of them is ahead of the tables, and a request finds its     *)
(* claim, its alert and its event untouched by anybody else.               *)
EffectsInTime ==
  /\ summary # "none" => Rank(summary) <= Rank(state)
  /\ \A s \in State :
       /\ alerts[s] <= 1 /\ events[s] <= 1
       /\ s \in claimed \/ alerts[s] > 0 \/ events[s] > 0
            => 0 < Rank(s) /\ Rank(s) <= Rank(state)

EffectsAwait(r) ==
  /\ pc[r] \in {"cache", "alert"} =>
       ask[r].to \notin claimed /\ alerts[ask[r].to] = 0
  /\ pc[r] \in {"cache", "alert", "publish"} => events[ask[r].to] = 0
  /\ "redis" \notin Failures =>
       /\ pc[r] = "publish" \/ outcome[r] \in Won => alerts[ask[r].to] = 1
       /\ outcome[r] \in Won => events[ask[r].to] = 1

EffectsInv ==
  /\ HonestInv /\ LifecycleInv /\ RowsMove /\ EffectsInTime
  /\ \A r \in Requests : EffectsAwait(r)

LEMMA EffectsStart == Init => EffectsInv
<1> SUFFICES ASSUME Init
             PROVE  EffectsInv
  OBVIOUS
<1>1. HonestInv /\ LifecycleInv
  BY HonestStarts, LifecycleStarts DEF Init
<1>2. RowsMove
  <2>1. DOMAIN audit = {}
    BY DEF Init, LifecycleInit
  <2> QED BY <2>1 DEF RowsMove, Writes
<1>3. EffectsInTime
  BY RankFacts DEF Init, LifecycleInit, EffectsInTime
<1>4. \A r \in Requests : EffectsAwait(r)
  BY DEF Init, EffectsAwait, Won
<1> QED BY <1>1, <1>2, <1>3, <1>4 DEF EffectsInv

(* The state a request entered is one the work item has reached. *)
LEMMA EnteredReached ==
  ASSUME EffectsInv, NEW r \in Requests, Entered(r)
  PROVE  /\ ask[r].to \in State
         /\ 0 < Rank(ask[r].to) /\ Rank(ask[r].to) <= Rank(state)
         /\ \E i \in Writes(r) : i \in Moves /\ audit[i].to = ask[r].to
<1>1. PICK i \in Writes(r) : audit[i].to = ask[r].to
  BY DEF EffectsInv, HonestInv, HonestFor, Tied, Entered
<1>2. i \in Moves /\ i \in DOMAIN audit
  BY DEF EffectsInv, RowsMove, Writes
<1>3. audit[i] \in Entry
  BY <1>2 DEF EffectsInv, LifecycleInv, LifecycleTypeOK
<1>4. audit[i].to \in State /\ audit[i].from \in State
  BY <1>3 DEF Entry
<1>5. Rank(audit[i].to) = Rank(audit[i].from) + 1 /\ Rank(audit[i].to) <= Rank(state)
  BY <1>2 DEF EffectsInv, LifecycleInv, AuditChain
<1> QED BY <1>1, <1>2, <1>4, <1>5, RankFacts

(* No two requests entered the same state. *)
LEMMA SoleAuthor ==
  ASSUME EffectsInv, NEW r \in Requests, NEW q \in Requests, Entered(r), Entered(q),
         ask[r].to = ask[q].to
  PROVE  r = q
<1>1. PICK i \in Writes(r) : i \in Moves /\ audit[i].to = ask[r].to
  BY EnteredReached
<1>2. PICK j \in Writes(q) : j \in Moves /\ audit[j].to = ask[q].to
  BY EnteredReached
<1>3. i \in Nat /\ j \in Nat
  <2>1. DOMAIN audit = 1..Len(audit)
    BY DEF EffectsInv, LifecycleInv, LifecycleTypeOK
  <2> QED BY <2>1 DEF Writes
<1>4. Rank(ask[r].to) \in 0..3
  BY EnteredReached, RankFacts
<1>5. /\ i < j => Rank(audit[i].to) < Rank(audit[j].to)
      /\ j < i => Rank(audit[j].to) < Rank(audit[i].to)
  BY <1>1, <1>2 DEF EffectsInv, LifecycleInv, AuditChain
<1>6. i = j
  BY <1>1, <1>2, <1>3, <1>4, <1>5
<1> QED BY <1>6 DEF Writes

LEMMA RowsMoveStep ==
  ASSUME EffectsInv, [Next]_vars
  PROVE  RowsMove'
<1>1. LifecycleTypeOK /\ state \in State
  BY DEF EffectsInv, LifecycleInv, LifecycleTypeOK
<1>2. CASE UNCHANGED lifecycle
  <2>1. audit' = audit
    BY <1>2 DEF lifecycle
  <2> QED BY <2>1 DEF EffectsInv, RowsMove, Writes, Moves
<1>3. ASSUME NEW e \in Entry, audit' = Append(audit, e),
             e.by \in Requests => e.from # e.to
      PROVE  RowsMove'
  <2> SUFFICES ASSUME NEW r \in Requests, NEW i \in Writes(r)'
               PROVE  i \in Moves'
    BY DEF RowsMove
  <2>1. i \in DOMAIN audit'
    BY DEF Writes
  <2>2. CASE i = Len(audit) + 1
    <3>1. audit'[i] = e
      BY <1>1, <1>3, <2>2, WritesAfter
    <3>2. e.by = r
      BY <3>1 DEF Writes
    <3> QED BY <1>3, <2>1, <3>1, <3>2 DEF Moves
  <2>3. CASE i # Len(audit) + 1
    <3>1. i \in Writes(r) /\ audit'[i] = audit[i]
      BY <1>1, <1>3, <2>3, WritesAfter
    <3>2. audit[i].from # audit[i].to
      BY <3>1 DEF EffectsInv, RowsMove, Moves
    <3> QED BY <2>1, <3>1, <3>2 DEF Moves
  <2> QED BY <2>2, <2>3
<1>4. CASE LifecycleNext
  <2>1. ASSUME NEW by \in Requests, NEW to \in State, Advance(by, to)
        PROVE  RowsMove'
    <3>1. [from |-> state, to |-> to, by |-> by] \in Entry
      BY <1>1 DEF Entry
    <3>2. to # state
      BY <1>1, <2>1, RankFacts DEF Advance
    <3> QED BY <2>1, <3>1, <3>2, <1>3 DEF Advance
  <2>2. CASE Escalate
    <3>1. [from |-> "OPEN", to |-> "OPEN", by |-> Scheduler] \in Entry
      BY DEF Entry, State
    <3> QED BY <2>2, <3>1, <1>3, LifecycleAssumption DEF Escalate
  <2> QED BY <1>4, <2>1, <2>2 DEF LifecycleNext
<1>5. [LifecycleNext]_lifecycle
  BY TablesStep DEF EffectsInv, HonestInv
<1> QED BY <1>2, <1>4, <1>5

(* The step of a request that leaves the effects alone: it goes on to its  *)
(* cache write only with the state it has just entered, which nothing had  *)
(* announced.                                                              *)
LEMMA QuietEffects ==
  ASSUME EffectsInv, NEW r \in Requests, UNCHANGED <<ask, effects>>,
         \A q \in Requests : q # r => pc'[q] = pc[q] /\ outcome'[q] = outcome[q],
         outcome'[r] \notin Won,
         \/ state' = state /\ pc'[r] \in {"commit", "done"}
         \/ pc[r] = "commit" /\ Advance(r, ask[r].to) /\ pc'[r] \in {"cache", "commit", "done"}
  PROVE  EffectsInTime' /\ \A q \in Requests : EffectsAwait(q)'
<1>1. /\ EffectsInTime /\ \A q \in Requests : EffectsAwait(q)
      /\ state \in State /\ ask[r] \in Ask /\ ask[r].to \in State
      /\ alerts \in [State -> Nat] /\ events \in [State -> Nat]
      /\ summary \in (State \ {"CLOSED"}) \cup {"none"}
  BY AskType DEF EffectsInv, HonestInv, TypeInv, TypeOK, LifecycleTypeOK
<1>2. /\ summary' = summary /\ claimed' = claimed /\ alerts' = alerts /\ events' = events
      /\ ask' = ask
  BY DEF effects
<1>3. \/ state' = state
      \/ state' = ask[r].to /\ Rank(ask[r].to) = Rank(state) + 1
  BY DEF Advance
<1>4. \A s \in State \cup {"none"} : s \in State => Rank(s) \in 0..3
  BY RankFacts
<1>5. EffectsInTime'
  BY <1>1, <1>2, <1>3, <1>4 DEF EffectsInTime
<1>6. EffectsAwait(r)'
  <2>1. CASE pc'[r] \in {"commit", "done"}
    BY <2>1 DEF EffectsAwait
  <2>2. CASE pc'[r] = "cache"
    <3>1. Rank(ask[r].to) = Rank(state) + 1
      BY <2>2 DEF Advance
    <3>2. ask[r].to \notin claimed /\ ~ alerts[ask[r].to] > 0 /\ ~ events[ask[r].to] > 0
      BY <1>1, <1>4, <3>1 DEF EffectsInTime
    <3>3. alerts[ask[r].to] = 0 /\ events[ask[r].to] = 0
      BY <1>1, <3>2
    <3> QED BY <1>2, <2>2, <3>2, <3>3 DEF EffectsAwait
  <2> QED BY <2>1, <2>2
<1>7. ASSUME NEW q \in Requests, q # r
      PROVE  EffectsAwait(q)'
  BY <1>1, <1>2, <1>7 DEF EffectsAwait
<1> QED BY <1>5, <1>6, <1>7

LEMMA QuietSteps ==
  ASSUME EffectsInv, NEW r \in Requests,
         \/ Read(r) \/ Conflict(r) \/ ReadFails(r) \/ CommitFails(r) \/ Crash(r)
         \/ Commit(r) \/ CommitUnacknowledged(r)
  PROVE  EffectsInTime' /\ \A q \in Requests : EffectsAwait(q)'
<1>1. /\ TypeInv /\ ask[r] \in Ask /\ Refusal(ask[r]) \in Refused
      /\ pc \in [Requests -> Location] /\ outcome \in [Requests -> Outcome]
      /\ pc[r] # "done" => outcome[r] = "none"
  BY RefusalType DEF EffectsInv, HonestInv, HonestFor, Tied, TypeInv, TypeOK
<1>2. UNCHANGED <<ask, effects>>
  BY DEF Read, Conflict, ReadFails, CommitFails, Crash, Commit, CommitUnacknowledged,
         requestVars, effects
<1>3. ASSUME NEW answer, answer \notin Won, Answer(r, answer)
      PROVE  /\ outcome'[r] \notin Won /\ pc'[r] = "done"
             /\ \A q \in Requests : q # r => pc'[q] = pc[q] /\ outcome'[q] = outcome[q]
  BY <1>1, <1>3 DEF Answer, Goto
<1>4. ASSUME NEW place, pc' = [pc EXCEPT ![r] = place], outcome' = outcome, pc[r] # "done"
      PROVE  /\ outcome'[r] \notin Won /\ pc'[r] = place
             /\ \A q \in Requests : q # r => pc'[q] = pc[q] /\ outcome'[q] = outcome[q]
  BY <1>1, <1>4, OutcomeKinds
<1>5. CASE Conflict(r) \/ ReadFails(r) \/ Crash(r)
  <2>1. state' = state
    BY <1>5 DEF Conflict, ReadFails, Crash, lifecycle
  <2>2. \E answer : answer \notin Won /\ Answer(r, answer)
    <3>1. /\ "conflict" \notin Won /\ "invalid_state" \notin Won /\ "error" \notin Won
          /\ "crashed" \notin Won
      BY DEF Won
    <3> QED BY <1>5, <3>1 DEF Conflict, ReadFails, Crash
  <2> QED BY <1>2, <1>3, <2>1, <2>2, QuietEffects
<1>6. CASE Read(r)
  <2>1. state' = state /\ pc[r] = "new"
    BY <1>6 DEF Read, lifecycle
  <2>2. CASE Permitted(state, ask[r])
    BY <1>2, <1>4, <1>6, <2>1, <2>2, QuietEffects DEF Read, Goto
  <2>3. CASE ~ Permitted(state, ask[r])
    <3>1. Answer(r, Refusal(ask[r])) /\ Refusal(ask[r]) \notin Won
      BY <1>1, <1>6, <2>3, OutcomeKinds DEF Read
    <3> QED BY <1>2, <1>3, <2>1, <3>1, QuietEffects
  <2> QED BY <2>2, <2>3
<1>7. ASSUME WriteFailed(r), pc[r] = "commit"
      PROVE  /\ outcome'[r] \notin Won /\ pc'[r] \in {"commit", "done"}
             /\ \A q \in Requests : q # r => pc'[q] = pc[q] /\ outcome'[q] = outcome[q]
  <2>1. CASE Retry(r)
    BY <1>1, <1>7, <2>1, OutcomeKinds DEF Retry
  <2>2. CASE Answer(r, "error")
    BY <1>3, <2>2, OutcomeKinds
  <2> QED BY <1>7, <2>1, <2>2 DEF WriteFailed
<1>8. CASE CommitFails(r)
  BY <1>2, <1>7, <1>8, QuietEffects DEF CommitFails, lifecycle
<1>9. ASSUME pc[r] = "commit", Applied(r)
      PROVE  Advance(r, ask[r].to)
  BY <1>1, <1>9, AppliedAdvances
<1>10. CASE CommitUnacknowledged(r)
  BY <1>2, <1>7, <1>9, <1>10, QuietEffects DEF CommitUnacknowledged
<1>11. CASE Commit(r)
  <2>1. pc[r] = "commit" /\ Applied(r) /\ outcome' = outcome
        /\ pc' = [pc EXCEPT ![r] = "cache"]
    BY <1>11 DEF Commit, Goto, requestVars
  <2> QED BY <1>2, <1>4, <1>9, <2>1, QuietEffects
<1> QED BY <1>5, <1>6, <1>8, <1>10, <1>11

(* The effects of the request that entered the state are its own: no other *)
(* request waits with the same state.                                      *)
LEMMA EffectSteps ==
  ASSUME EffectsInv, NEW r \in Requests, CacheWrite(r) \/ Dispatch(r) \/ Publish(r)
  PROVE  EffectsInTime' /\ \A q \in Requests : EffectsAwait(q)'
<1> DEFINE s == ask[r].to
<1>1. /\ EffectsInTime /\ \A q \in Requests : EffectsAwait(q)
      /\ alerts \in [State -> Nat] /\ events \in [State -> Nat]
      /\ pc \in [Requests -> Location] /\ outcome \in [Requests -> Outcome]
      /\ pc[r] # "done" => outcome[r] = "none"
      /\ ask \in [Requests -> Ask]
  BY DEF EffectsInv, HonestInv, HonestFor, Tied, TypeInv, TypeOK
<1>2. pc[r] \in {"cache", "alert", "publish"} /\ Entered(r)
  BY DEF CacheWrite, Dispatch, Publish, Entered
<1>3. s \in State /\ 0 < Rank(s) /\ Rank(s) <= Rank(state)
  BY <1>2, EnteredReached
<1>4. \A q \in Requests : q # r /\ Entered(q) => ask[q].to # s
  BY <1>2, SoleAuthor
<1>5. state' = state /\ ask' = ask
  BY DEF CacheWrite, Dispatch, Publish, lifecycle, requestVars
<1>6. \A q \in Requests : ask[q].to \in State
  BY <1>1, AskType
<1>7. \A q \in Requests : Entered(q) <=>
        pc[q] \in {"cache", "alert", "publish"} \/ outcome[q] \in Won
  BY DEF Entered
<1> HIDE DEF s
<1>8. CASE CacheWrite(r)
  <2>1. /\ claimed' = claimed /\ alerts' = alerts /\ events' = events /\ outcome' = outcome
        /\ pc[r] = "cache" /\ pc' = [pc EXCEPT ![r] = "alert"]
        /\ summary' \in {summary, Cached(ask[r].to)}
    BY <1>8 DEF CacheWrite, requestVars, Goto
  <2>2. Cached(ask[r].to) \in {"none", ask[r].to}
    BY DEF Cached
  <2>3. EffectsInTime'
    BY <1>1, <1>3, <1>5, <2>1, <2>2 DEF EffectsInTime, s
  <2>4. \A q \in Requests : EffectsAwait(q)'
    BY <1>1, <1>5, <2>1, OutcomeKinds DEF EffectsAwait
  <2> QED BY <2>3, <2>4
<1>9. CASE Dispatch(r)
  <2>1. /\ summary' = summary /\ events' = events /\ outcome' = outcome
        /\ pc[r] = "alert" /\ pc' = [pc EXCEPT ![r] = "publish"]
    BY <1>9 DEF Dispatch, requestVars, Goto
  <2>2. s \notin claimed /\ alerts[s] = 0 /\ events[s] = 0
    BY <1>1, <2>1 DEF EffectsAwait, s
  <2>3. /\ claimed' \in {claimed, claimed \cup {s}}
        /\ \/ alerts' = [alerts EXCEPT ![s] = @ + 1]
           \/ "redis" \in Failures /\ alerts' = alerts
    BY <1>9, <2>2 DEF Dispatch, IsClaimed, s
  <2>4. /\ alerts'[s] <= 1
        /\ "redis" \notin Failures => alerts'[s] = 1
        /\ \A t \in State : t # s => alerts'[t] = alerts[t] /\ (t \in claimed' <=> t \in claimed)
    BY <1>1, <1>3, <2>2, <2>3
  <2>5. EffectsInTime'
    <3>1. summary' # "none" => Rank(summary') <= Rank(state')
      BY <1>1, <1>5, <2>1 DEF EffectsInTime
    <3>2. ASSUME NEW t \in State
          PROVE  /\ alerts'[t] <= 1 /\ events'[t] <= 1
                 /\ t \in claimed' \/ alerts'[t] > 0 \/ events'[t] > 0
                      => 0 < Rank(t) /\ Rank(t) <= Rank(state')
      <4>1. CASE t = s
        BY <1>1, <1>3, <1>5, <2>1, <2>4, <4>1 DEF EffectsInTime
      <4>2. CASE t # s
        BY <1>1, <1>5, <2>1, <2>4, <4>2 DEF EffectsInTime
      <4> QED BY <4>1, <4>2
    <3> QED BY <3>1, <3>2 DEF EffectsInTime
  <2>6. EffectsAwait(r)'
    BY <1>1, <1>5, <2>1, <2>2, <2>4, OutcomeKinds DEF EffectsAwait, s
  <2>7. ASSUME NEW q \in Requests, q # r
        PROVE  EffectsAwait(q)'
    <3>1. pc'[q] = pc[q] /\ outcome'[q] = outcome[q] /\ ask'[q] = ask[q]
      BY <1>1, <1>5, <2>1, <2>7
    <3>2. CASE Entered(q)
      BY <1>1, <1>4, <1>6, <2>1, <2>4, <2>7, <3>1, <3>2 DEF EffectsAwait
    <3>3. CASE ~ Entered(q)
      BY <1>7, <3>1, <3>3 DEF EffectsAwait
    <3> QED BY <3>2, <3>3
  <2> QED BY <2>5, <2>6, <2>7
<1>10. CASE Publish(r)
  <2>1. /\ summary' = summary /\ claimed' = claimed /\ alerts' = alerts /\ pc[r] = "publish"
        /\ pc' = [pc EXCEPT ![r] = "done"]
        /\ \E answer \in Won : outcome' = [outcome EXCEPT ![r] = answer]
    BY <1>10 DEF Publish, Answer, Goto, Won
  <2>2. events[s] = 0 /\ ("redis" \notin Failures => alerts[s] = 1)
    BY <1>1, <2>1 DEF EffectsAwait, s
  <2>3. \/ events' = [events EXCEPT ![s] = @ + 1]
        \/ "redis" \in Failures /\ events' = events
    BY <1>10 DEF Publish, s
  <2>4. /\ events'[s] <= 1
        /\ "redis" \notin Failures => events'[s] = 1
        /\ \A t \in State : t # s => events'[t] = events[t]
    BY <1>1, <1>3, <2>2, <2>3
  <2>5. EffectsInTime'
    <3>1. summary' # "none" => Rank(summary') <= Rank(state')
      BY <1>1, <1>5, <2>1 DEF EffectsInTime
    <3>2. ASSUME NEW t \in State
          PROVE  /\ alerts'[t] <= 1 /\ events'[t] <= 1
                 /\ t \in claimed' \/ alerts'[t] > 0 \/ events'[t] > 0
                      => 0 < Rank(t) /\ Rank(t) <= Rank(state')
      <4>1. CASE t = s
        BY <1>1, <1>3, <1>5, <2>1, <2>4, <4>1 DEF EffectsInTime
      <4>2. CASE t # s
        BY <1>1, <1>5, <2>1, <2>4, <4>2 DEF EffectsInTime
      <4> QED BY <4>1, <4>2
    <3> QED BY <3>1, <3>2 DEF EffectsInTime
  <2>6. EffectsAwait(r)'
    BY <1>1, <1>5, <2>1, <2>2, <2>4 DEF EffectsAwait, s
  <2>7. ASSUME NEW q \in Requests, q # r
        PROVE  EffectsAwait(q)'
    <3>1. pc'[q] = pc[q] /\ outcome'[q] = outcome[q] /\ ask'[q] = ask[q]
      BY <1>1, <1>5, <2>1, <2>7
    <3>2. CASE Entered(q)
      BY <1>1, <1>4, <1>6, <2>1, <2>4, <2>7, <3>1, <3>2 DEF EffectsAwait
    <3>3. CASE ~ Entered(q)
      BY <1>7, <3>1, <3>3 DEF EffectsAwait
    <3> QED BY <3>2, <3>3
  <2> QED BY <2>5, <2>6, <2>7
<1> QED BY <1>8, <1>9, <1>10

LEMMA EffectsInvStep == EffectsInv /\ [Next]_vars => EffectsInv'
<1> SUFFICES ASSUME EffectsInv, [Next]_vars
             PROVE  EffectsInv'
  OBVIOUS
<1>1. HonestInv' /\ RowsMove'
  BY HonestStep, RowsMoveStep DEF EffectsInv
<1>2. LifecycleInv'
  <2>1. [LifecycleNext]_lifecycle
    BY TablesStep DEF EffectsInv, HonestInv
  <2> QED BY <2>1, LifecycleKept DEF EffectsInv
<1>3. EffectsInTime' /\ \A q \in Requests : EffectsAwait(q)'
  <2>1. CASE \E r \in Requests : Progress(r) \/ Failure(r)
    BY <2>1, QuietSteps, EffectSteps DEF Progress, Failure
  <2>2. CASE RecordEscalation \/ UNCHANGED vars
    <3>1. UNCHANGED <<ask, pc, outcome, effects, state>>
      BY <2>2 DEF RecordEscalation, Escalate, requestVars, vars
    <3> QED BY <3>1 DEF EffectsInv, EffectsInTime, EffectsAwait, effects
  <2> QED BY <2>1, <2>2 DEF Next
<1> QED BY <1>1, <1>2, <1>3 DEF EffectsInv

(* The cache is never ahead of Postgres, and every state entered is        *)
(* alerted and published at most once and not before it is committed, for  *)
(* any number of racing requests, whatever fails.                          *)
THEOREM EffectsInOrder == Spec => []EffectsFollowCommit
<1>1. EffectsInv => EffectsFollowCommit
  <2> SUFFICES ASSUME EffectsInv
               PROVE  EffectsFollowCommit
    OBVIOUS
  <2>1. EffectsInTime /\ alerts \in [State -> Nat] /\ events \in [State -> Nat]
    BY DEF EffectsInv, HonestInv, TypeInv, TypeOK
  <2> QED BY <2>1 DEF EffectsInTime, EffectsFollowCommit
<1> QED BY <1>1, EffectsStart, EffectsInvStep, PTL DEF Spec

(* While Redis works, an answer of success comes after the one alert and   *)
(* the one event of the request's own change.                              *)
THEOREM AnnouncedBeforeAnswer == Spec => []AnsweredMeansAnnounced
<1>1. EffectsInv => AnsweredMeansAnnounced
  BY DEF EffectsInv, EffectsAwait, AnsweredMeansAnnounced
<1> QED BY <1>1, EffectsStart, EffectsInvStep, PTL DEF Spec

=============================================================================
