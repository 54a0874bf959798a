----------------------------- MODULE MCWorkflow -----------------------------
(* Three requests: the three moves in one run each, or races for the first *)
(* and the second move, or asks that the graph and the guard refuse.       *)
EXTENDS WorkItemWorkflow, TLC

CONSTANTS r1, r2, r3

To(s)  == [kind |-> "transition", to |-> s, valid |-> FALSE]
Rca(v) == [kind |-> "rca", to |-> "CLOSED", valid |-> v]

Three(a, b, c) == r1 :> a @@ r2 :> b @@ r3 :> c

MCWorkloads == {
  Three(To("INVESTIGATING"), To("RESOLVED"), Rca(TRUE)),
  Three(To("INVESTIGATING"), To("INVESTIGATING"), Rca(FALSE)),
  Three(To("INVESTIGATING"), To("RESOLVED"), To("CLOSED")) }
=============================================================================
