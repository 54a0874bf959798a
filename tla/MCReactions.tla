---------------------------- MODULE MCReactions ----------------------------
(* Reactions on a small instance. As the two share no state, a behaviour   *)
(* moves one of them only, so that the instance is the sum of theirs.      *)
EXTENDS Reactions

VARIABLES part

MCWithin == [P0 |-> 1, P1 |-> 1, P2 |-> 2, P3 |-> 4]

(* The floor is above the report, below it, and the shortest delay's own. *)
MCCases == {<<"CACHE", "P3">>, <<"CACHE", "P0">>}

Init ==
  /\ part \in {"alerting", "feed"}
  /\ ReactionsInit
  /\ part # "alerting" => item = <<"CACHE", "P3">> /\ ~ open

Next ==
  /\ UNCHANGED part
  /\ \/ part = "alerting" /\ AlertingMoves
     \/ part = "feed"     /\ FeedMoves

Fairness == \/ part = "alerting" /\ AlertingFairness
            \/ part = "feed" /\ FeedFairness

Spec == Init /\ [][Next]_<<part, reactionsVars>> /\ Fairness

=============================================================================
