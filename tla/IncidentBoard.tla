---------------------------- MODULE IncidentBoard ----------------------------
(***************************************************************************)
(* What the Live Feed promises whoever looks at it, however its pages are  *)
(* cached, delayed or lost on the way: it shows a work item only in a      *)
(* state that the work item has entered. A page may be behind the tables,  *)
(* it is never ahead of them.                                              *)
(***************************************************************************)
EXTENDS Naturals

CONSTANT Items                (* the work items                              *)

State == {"OPEN", "INVESTIGATING", "RESOLVED", "CLOSED"}

(* No row, no cached summary, or not on the page. *)
Absent == "absent"

Rank(s) == CASE s = Absent          -> 0
             [] s = "OPEN"          -> 1
             [] s = "INVESTIGATING" -> 2
             [] s = "RESOLVED"      -> 3
             [] s = "CLOSED"        -> 4

VARIABLES
  row,          (* [Items -> State or Absent], work_items.state               *)
  page          (* [Items -> State or Absent], what the viewer sees           *)

Rows == [Items -> State \cup {Absent}]

Behind(r) == {p \in Rows : \A i \in Items : Rank(p[i]) <= Rank(r[i])}

BoardInit == row \in Rows /\ page = [i \in Items |-> Absent]

(* The row of i is inserted, or takes its next state. *)
Advance(i, s) ==
  /\ s \in State /\ Rank(s) = Rank(row[i]) + 1
  /\ row' = [row EXCEPT ![i] = s]

Change == (\E i \in Items, s \in State : Advance(i, s)) /\ UNCHANGED page

Show == page' \in Behind(row) /\ UNCHANGED row

BoardNext == Change \/ Show

BoardSpec == BoardInit /\ [][BoardNext]_<<row, page>>

=============================================================================
