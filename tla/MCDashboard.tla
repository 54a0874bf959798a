---------------------------- MODULE MCDashboard ----------------------------
(* One work item, yet to be created or about to be closed. *)
EXTENDS DashboardCache, TLC

CONSTANT a

MCTables == {a :> Absent, a :> "RESOLVED"}
=============================================================================
