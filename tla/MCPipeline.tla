----------------------------- MODULE MCPipeline -----------------------------
(* Two slots and two jobs. In MCBatch both jobs have signal s1: a client   *)
(* sends it again, with the same id, after a 503 that kept the first copy. *)
EXTENDS SignalPipeline, TLC

CONSTANTS j1, j2, s1, s2, c1, c2

MCBatch == j1 :> <<s1, s2>> @@ j2 :> <<s1>>

(* Both copies were buffered when the drain came: one job has them. *)
MCTwice == j1 :> <<s1, s1>> @@ j2 :> <<s2>>

(* Two bursts of one component. *)
MCBursts == j1 :> <<s1>> @@ j2 :> <<s2>>

MCApart == s1 :> c1 @@ s2 :> c2
MCOne   == s1 :> c1 @@ s2 :> c1
=============================================================================
