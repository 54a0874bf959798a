------------------------------ MODULE MCParts ------------------------------
(* Parts on a small instance. As they share no state, a behaviour moves    *)
(* one of them only, so that the instance is the sum of theirs and not     *)
(* their product.                                                          *)
EXTENDS Parts, MCRules

CONSTANTS i1, i2, incA, incB

VARIABLES part

MCCapacity == [b \in {i1, i2, "global"} |-> IF b = "global" THEN 3 ELSE 2]

MCPerSecond == [b \in {i1, i2, "global"} |-> 1]

(* Others closed the second incident, or both wait for their RCA. *)
MCActual == { incA :> 1 @@ incB :> 3, incA :> 2 @@ incB :> 2 }

Init ==
  /\ part \in {"limiter", "probe", "node", "telemetry", "sessions", "loader", "poller", "page"}
  /\ PartsInit
  /\ actual \in MCActual
  /\ part # "limiter" => initial["global"] = 0 /\ initial[i1] = 0 /\ initial[i2] = 0
  /\ part # "page" => actual[incA] = 1
  /\ part # "loader" => /\ order = CHOOSE o \in Orders : TRUE
                        /\ page = 1
                        /\ current = CHOOSE c \in Calls : TRUE

Next ==
  /\ UNCHANGED part
  /\ \/ part = "limiter"   /\ LimiterMoves
     \/ part = "probe"     /\ ProbeMoves
     \/ part = "node"      /\ NodeMoves
     \/ part = "telemetry" /\ TelemetryMoves
     \/ part = "sessions"  /\ SessionsMove
     \/ part = "loader"    /\ LoaderMoves
     \/ part = "poller"    /\ PollerMoves
     \/ part = "page"      /\ PageMoves

Spec == Init /\ [][Next]_<<part, partsVars>>

=============================================================================
