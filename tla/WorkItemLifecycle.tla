------------------------- MODULE WorkItemLifecycle -------------------------
(***************************************************************************)
(* What the workflow promises about one work item (backend/src/domain/     *)
(* state, the work_items, rca_records and state_transitions tables): it    *)
(* moves one step at a time from OPEN to CLOSED, each move is recorded     *)
(* with its author, closing comes with the root cause analysis, and an     *)
(* escalation only adds its OPEN -> OPEN row to the trail.                 *)
(***************************************************************************)
EXTENDS Integers, Sequences

CONSTANTS
  Requests,     (* who may move the work item: the HTTP requests that try     *)
  Scheduler     (* the author of escalation rows, "system:escalation"         *)

State == {"OPEN", "INVESTIGATING", "RESOLVED", "CLOSED"}

Rank(s) == CASE s = "OPEN"          -> 0
             [] s = "INVESTIGATING" -> 1
             [] s = "RESOLVED"      -> 2
             [] s = "CLOSED"        -> 3

Entry == [from : State, to : State, by : Requests \cup {Scheduler}]

ASSUME LifecycleAssumption == Scheduler \notin Requests

VARIABLES
  state,        (* work_items.state                                           *)
  rcas,         (* the number of rca_records of the work item                 *)
  audit         (* its state_transitions, in the order they were inserted     *)

lifecycle == <<state, rcas, audit>>

LifecycleInit == state = "OPEN" /\ rcas = 0 /\ audit = <<>>

Advance(by, to) ==
  /\ Rank(to) = Rank(state) + 1
  /\ state' = to
  /\ rcas' = IF to = "CLOSED" THEN rcas + 1 ELSE rcas
  /\ audit' = Append(audit, [from |-> state, to |-> to, by |-> by])

Escalate ==
  /\ audit' = Append(audit, [from |-> "OPEN", to |-> "OPEN", by |-> Scheduler])
  /\ UNCHANGED <<state, rcas>>

LifecycleNext == \/ \E by \in Requests, to \in State : Advance(by, to)
                 \/ Escalate

LifecycleSpec == LifecycleInit /\ [][LifecycleNext]_lifecycle

-----------------------------------------------------------------------------

LifecycleTypeOK == /\ state \in State
                   /\ rcas \in Nat
                   /\ audit \in Seq(Entry)

(* The rows of the trail that record a move, by position. *)
Moves == {i \in DOMAIN audit : audit[i].from # audit[i].to}

(* The moves on the trail form the chain from OPEN to the current state:   *)
(* each a single step, in order, none missing and none twice, however      *)
(* the requests raced and wherever escalation rows fall between them.      *)
AuditChain ==
  /\ \A i \in Moves : /\ Rank(audit[i].to) = Rank(audit[i].from) + 1
                      /\ Rank(audit[i].to) <= Rank(state)
  /\ \A i, j \in Moves : i < j => Rank(audit[i].to) < Rank(audit[j].to)
  /\ \A s \in State : 0 < Rank(s) /\ Rank(s) <= Rank(state)
                        => \E i \in Moves : audit[i].to = s

(* rca_records: a closed work item has its one analysis, an active one     *)
(* none.                                                                   *)
RcaIffClosed == rcas = IF state = "CLOSED" THEN 1 ELSE 0

=============================================================================
