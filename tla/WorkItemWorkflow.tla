-------------------------- MODULE WorkItemWorkflow --------------------------
(***************************************************************************)
(* The write paths of one work item: WorkflowService.transitionWorkItem    *)
(* and submitIncidentRca (backend/src/services/workitems/workflowService   *)
(* .ts) over the guarded transactions of PostgresWorkItemRepository, with  *)
(* the cache write, the alert and the event that follow a commit, and the  *)
(* audit rows the escalation scheduler adds beside them.                   *)
(*                                                                         *)
(* A request is a sequence of awaits; between two of them every other      *)
(* request, of this process or of another replica, may run. Postgres may   *)
(* fail a call before or after it took effect, Redis may fail, and the     *)
(* process may stop at any await.                                          *)
(***************************************************************************)
EXTENDS WorkItemLifecycle, FiniteSets

CONSTANTS
  Workloads,    (* what the requests of one run ask, each in [Requests -> Ask] *)
  Attempts,     (* ATTEMPTS of withPostgresRetry                              *)
  Failures,     (* what may fail in this instance                             *)
  MaxRows       (* bound of the model: rows of the audit trail                *)

(* What a client may ask: POST /transition with any state, or POST /rca    *)
(* with a body that validateRca accepts or not.                            *)
Ask == [kind : {"transition"}, to : State, valid : {FALSE}]
         \cup [kind : {"rca"}, to : {"CLOSED"}, valid : BOOLEAN]

Location == {"new", "commit", "cache", "alert", "publish", "done"}

Won     == {"transitioned", "closed"}
Refused == {"invalid_transition", "invalid_rca", "invalid_state"}
Lost    == {"conflict", "invalid_state"}
Outcome == Won \cup Refused \cup Lost \cup {"none", "error", "crashed"}

ASSUME WorkflowAssumption ==
  /\ Workloads \subseteq [Requests -> Ask]
  /\ Attempts \in Nat \ {0}
  /\ Failures \subseteq {"postgres", "redis", "crash"}
  /\ MaxRows \in Nat

VARIABLES
  ask,          (* [Requests -> Ask], fixed from the start                    *)
  pc,           (* [Requests -> Location], the await a request is at          *)
  seen,         (* [Requests -> State], the snapshot its decision rests on    *)
  tries,        (* [Requests -> 0..Attempts], failed attempts at the write    *)
  outcome,      (* [Requests -> Outcome], the answer                          *)
  summary,      (* the cached summary's state, or "none"                      *)
  listed,       (* the work item is in the ZSET of active incidents           *)
  claimed,      (* the events whose alert was claimed (SET NX)                *)
  alerts,       (* [State -> Nat], alerts fanned out                          *)
  events        (* [State -> Nat], state changes published                    *)

requestVars == <<ask, seen, outcome>>
effects     == <<summary, listed, claimed, alerts, events>>
vars == <<state, rcas, audit, pc, tries, requestVars, effects>>

-----------------------------------------------------------------------------

Init ==
  /\ LifecycleInit
  /\ ask \in Workloads
  /\ pc = [r \in Requests |-> "new"]
  /\ seen = [r \in Requests |-> "OPEN"]
  /\ tries = [r \in Requests |-> 0]
  /\ outcome = [r \in Requests |-> "none"]
  /\ summary \in {"none", "OPEN"}
  /\ listed = (summary = "OPEN")
  /\ claimed = {}
  /\ alerts = [s \in State |-> 0]
  /\ events = [s \in State |-> 0]

Goto(r, place) == pc' = [pc EXCEPT ![r] = place]

Answer(r, answer) == /\ Goto(r, "done")
                     /\ outcome' = [outcome EXCEPT ![r] = answer]

(* Definitions named Faulty... are seeded faults: each replaces the        *)
(* definition after it in a run that must then find a property violated.   *)

(* Fault: the guard on CLOSED is dropped. *)
FaultyPermitted(s, a) == Rank(a.to) = Rank(s) + 1

(* The state graph: one step at a time, and into CLOSED only past the      *)
(* guard of createRcaCloseGuard, which needs a valid analysis.             *)
Permitted(s, a) ==
  /\ Rank(a.to) = Rank(s) + 1
  /\ a.to = "CLOSED" => a.kind = "rca" /\ a.valid

Refusal(a) == IF a.kind = "transition" THEN "invalid_transition"
              ELSE IF ~ a.valid THEN "invalid_rca"
              ELSE "invalid_state"

(* findById, then the graph's verdict on what it returned. *)
Read(r) ==
  /\ pc[r] = "new"
  /\ seen' = [seen EXCEPT ![r] = state]
  /\ IF Permitted(state, ask[r])
       THEN Goto(r, "commit") /\ UNCHANGED outcome
       ELSE Answer(r, Refusal(ask[r]))
  /\ UNCHANGED <<lifecycle, ask, tries, effects>>

(* Every attempt of the read failed, and none changed anything. *)
ReadFails(r) ==
  /\ "postgres" \in Failures
  /\ pc[r] = "new"
  /\ Answer(r, "error")
  /\ UNCHANGED <<lifecycle, ask, seen, tries, effects>>

-----------------------------------------------------------------------------

(* Fault: the WHERE clause names only the id. *)
FaultyApplied(r) ==
  /\ state' = ask[r].to
  /\ rcas' = IF ask[r].kind = "rca" THEN rcas + 1 ELSE rcas
  /\ audit' = Append(audit, [from |-> seen[r], to |-> ask[r].to, by |-> r])

(* The transaction of transitionState and submitRca: UPDATE ... WHERE id   *)
(* and state = fromState, the audit row, and the analysis when closing.    *)
Applied(r) ==
  /\ state = seen[r]
  /\ state' = ask[r].to
  /\ rcas' = IF ask[r].kind = "rca" THEN rcas + 1 ELSE rcas
  /\ audit' = Append(audit, [from |-> seen[r], to |-> ask[r].to, by |-> r])

Commit(r) ==
  /\ pc[r] = "commit"
  /\ Applied(r)
  /\ Goto(r, "cache")
  /\ UNCHANGED <<requestVars, tries, effects>>

(* withPostgresRetry after a transient error with attempts left. *)
Retry(r) == /\ tries[r] + 1 < Attempts
            /\ tries' = [tries EXCEPT ![r] = @ + 1]
            /\ UNCHANGED <<pc, outcome>>

(* Fault: a lost race goes on to the side effects. *)
FaultyConflict(r) ==
  /\ pc[r] = "commit"
  /\ state # seen[r]
  /\ Goto(r, "cache")
  /\ UNCHANGED <<lifecycle, requestVars, tries, effects>>

(* Fault: a lost race is retried, and forgotten once the attempts are up.  *)
FaultyRetriedConflict(r) ==
  /\ pc[r] = "commit"
  /\ state # seen[r]
  /\ Retry(r)
  /\ UNCHANGED <<lifecycle, ask, seen, effects>>

(* The update matched no row: OptimisticConcurrencyError, which is not     *)
(* retried.                                                                *)
Conflict(r) ==
  /\ pc[r] = "commit"
  /\ state # seen[r]
  /\ Answer(r, IF ask[r].kind = "rca" THEN "invalid_state" ELSE "conflict")
  /\ UNCHANGED <<lifecycle, ask, seen, tries, effects>>

(* The call failed: it is tried again, or the request answers 500 (the     *)
(* error is not transient or was the last attempt's).                      *)
WriteFailed(r) == \/ Retry(r)
                  \/ Answer(r, "error") /\ UNCHANGED tries

(* The transaction rolled back, or never reached the database. *)
CommitFails(r) ==
  /\ "postgres" \in Failures
  /\ pc[r] = "commit"
  /\ WriteFailed(r)
  /\ UNCHANGED <<lifecycle, ask, seen, effects>>

(* The transaction committed and its acknowledgement was lost (P1017,      *)
(* P1008), which the retry cannot tell from a failure.                     *)
CommitUnacknowledged(r) ==
  /\ "postgres" \in Failures
  /\ pc[r] = "commit"
  /\ Applied(r)
  /\ WriteFailed(r)
  /\ UNCHANGED <<ask, seen, effects>>

-----------------------------------------------------------------------------

(* A Redis write takes effect, or Redis fails and it may or may not have.  *)
MayChange(new, old, now) == new = now \/ ("redis" \in Failures /\ new = old)

(* Fault: a closed work item is upserted like any other. *)
FaultyCached(s) == s

(* What the cache shall hold of a row in state s. *)
Cached(s) == IF s = "CLOSED" THEN "none" ELSE s

(* upsertActiveIncident with the row the transaction returned, or          *)
(* removeIncident after a close. Both keys are best effort.                *)
CacheWrite(r) ==
  /\ pc[r] = "cache"
  /\ summary' \in {summary, Cached(ask[r].to)}
  /\ listed' \in BOOLEAN
  /\ MayChange(summary', summary, Cached(ask[r].to))
  /\ MayChange(listed', listed, Cached(ask[r].to) # "none")
  /\ Goto(r, "alert")
  /\ UNCHANGED <<lifecycle, requestVars, tries, claimed, alerts, events>>

(* Fault: the key of the claim names the work item only. *)
FaultyIsClaimed(event) == claimed # {}

(* SET alert:sent:<id>:<event> NX finds its key. *)
IsClaimed(event) == event \in claimed

(* dispatch: claim the event, then fan out. When Redis fails, whether the  *)
(* claim was stored or not, nothing is sent and nothing is thrown.         *)
Dispatch(r) ==
  /\ pc[r] = "alert"
  /\ \/ /\ ~ IsClaimed(ask[r].to)
        /\ claimed' = claimed \cup {ask[r].to}
        /\ alerts' = [alerts EXCEPT ![ask[r].to] = @ + 1]
     \/ /\ IsClaimed(ask[r].to)
        /\ UNCHANGED <<claimed, alerts>>
     \/ /\ "redis" \in Failures
        /\ claimed' \in {claimed, claimed \cup {ask[r].to}}
        /\ UNCHANGED alerts
  /\ Goto(r, "publish")
  /\ UNCHANGED <<lifecycle, requestVars, tries, summary, listed, events>>

(* The metrics writer and the event publisher never throw: the request     *)
(* answers whether the event reached the channel or not.                   *)
Publish(r) ==
  /\ pc[r] = "publish"
  /\ \/ events' = [events EXCEPT ![ask[r].to] = @ + 1]
     \/ "redis" \in Failures /\ UNCHANGED events
  /\ Answer(r, IF ask[r].kind = "rca" THEN "closed" ELSE "transitioned")
  /\ UNCHANGED <<lifecycle, ask, seen, tries, summary, listed, claimed, alerts>>

(* The process stops while the request is under way: no answer. *)
Crash(r) ==
  /\ "crash" \in Failures
  /\ pc[r] \notin {"new", "done"}
  /\ Answer(r, "crashed")
  /\ UNCHANGED <<lifecycle, ask, seen, tries, effects>>

-----------------------------------------------------------------------------

(* recordEscalation, for a tick that found the work item OPEN: its row is  *)
(* inserted whatever the state is by now, once more for every retry of an  *)
(* insert that was not acknowledged.                                       *)
RecordEscalation ==
  /\ Len(audit) < MaxRows
  /\ Escalate
  /\ UNCHANGED <<requestVars, pc, tries, effects>>

-----------------------------------------------------------------------------

Progress(r) == \/ Read(r) \/ Commit(r) \/ Conflict(r)
               \/ CacheWrite(r) \/ Dispatch(r) \/ Publish(r)

Failure(r) == ReadFails(r) \/ CommitFails(r) \/ CommitUnacknowledged(r) \/ Crash(r)

Next == \/ \E r \in Requests : Progress(r) \/ Failure(r)
        \/ RecordEscalation

Spec == Init /\ [][Next]_vars

(* A call to Postgres or Redis that does not fail is answered, and the     *)
(* event loop resumes who awaited it. No failure is obliged to happen.     *)
Fairness == \A r \in Requests : WF_vars(Progress(r))

FairSpec == Spec /\ Fairness

-----------------------------------------------------------------------------

TypeOK ==
  /\ LifecycleTypeOK
  /\ ask \in [Requests -> Ask]
  /\ pc \in [Requests -> Location]
  /\ seen \in [Requests -> State]
  /\ tries \in [Requests -> 0..Attempts]
  /\ outcome \in [Requests -> Outcome]
  /\ summary \in (State \ {"CLOSED"}) \cup {"none"}
  /\ listed \in BOOLEAN
  /\ claimed \in SUBSET State
  /\ alerts \in [State -> Nat]
  /\ events \in [State -> Nat]

(* The rows of the trail that request r wrote. *)
Writes(r) == {i \in DOMAIN audit : audit[i].by = r}

(* A request changes the work item at most once, whatever was retried; an  *)
(* answer of success means that its own change, the one it asked for, is   *)
(* on the trail; a refusal by the graph or the guard means that it changed *)
(* nothing. When Postgres acknowledges what it commits, so does a lost     *)
(* race.                                                                   *)
AnswersAreHonest ==
  \A r \in Requests :
    /\ \A i, j \in Writes(r) : i = j
    /\ outcome[r] \in Won => \E i \in Writes(r) : audit[i].to = ask[r].to
    /\ outcome[r] \in Refused \ Lost => Writes(r) = {}
    /\ outcome[r] \in Lost /\ "postgres" \notin Failures => Writes(r) = {}

(* Nobody hears of a state before it is committed, and of none twice: the  *)
(* cache is never ahead of Postgres, and each state entered is alerted and *)
(* published at most once, by whichever request entered it.                *)
EffectsFollowCommit ==
  /\ summary # "none" => Rank(summary) <= Rank(state)
  /\ \A s \in State : alerts[s] + events[s] > 0 =>
       /\ 0 < Rank(s) /\ Rank(s) <= Rank(state)
       /\ alerts[s] <= 1 /\ events[s] <= 1

(* A request answers success only after the alert and the event of its own *)
(* state change went out, while Redis works: no other request's claim      *)
(* suppresses them. (A crash or a lost acknowledgement leaves the change   *)
(* without them, and without this answer.)                                 *)
AnsweredMeansAnnounced ==
  \A r \in Requests : outcome[r] \in Won /\ "redis" \notin Failures =>
    alerts[ask[r].to] = 1 /\ events[ask[r].to] = 1

(* Every request that got past its checks is answered: retries end. *)
EveryRequestAnswered ==
  \A r \in Requests : pc[r] = "commit" ~> pc[r] = "done"

(* Retries, lost acknowledgements, crashes and races included, the tables  *)
(* only ever make the steps of the lifecycle.                              *)
Implements == LifecycleSpec

(* docs/data-model.md: the set of active incidents "is kept correct        *)
(* exclusively by explicit ZADD/ZREM calls on every mutation (including    *)
(* removal on CLOSE)": once nobody is at work, a closed item is not in it. *)
ClosedLeavesCache ==
  state = "CLOSED" /\ (\A r \in Requests : pc[r] = "done") => ~ listed

(* docs/decisions/0011: of two racing callers exactly one succeeds and the *)
(* other gets a 409 conflict; so a change on the trail is not its own      *)
(* author's conflict.                                                      *)
ConflictChangesNothing ==
  \A r \in Requests : outcome[r] = "conflict" => Writes(r) = {}

=============================================================================
