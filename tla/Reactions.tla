----------------------------- MODULE Reactions -----------------------------
(***************************************************************************)
(* Two parts that act by timers and promise to act in the end, side by     *)
(* side: alerting with its escalations, and the Live Feed of a browser.    *)
(* They share no state: each step is a step of one of them.                *)
(***************************************************************************)
EXTENDS Alerting, IncidentFeed

reactionsVars == <<alertingVars, feedVars>>

ReactionsInit == AlertingInit /\ FeedInit

AlertingMoves == AlertingNext /\ UNCHANGED feedVars

FeedMoves == FeedNext /\ UNCHANGED alertingVars

ReactionsSpec ==
  /\ ReactionsInit /\ [][AlertingMoves \/ FeedMoves]_reactionsVars
  /\ AlertingFairness /\ FeedFairness

(* The types of both. *)
ReactionsTypeOK == AlertingTypeOK /\ FeedTypeOK

=============================================================================
