--------------------------- MODULE MCSignalBuffer ---------------------------
(* Three slots, shedding from two and normal again when empty; the         *)
(* ceilings are those of the default fractions: floor(3 * 0.7),            *)
(* floor(3 * 0.4), floor(3 * 0.15).                                        *)
EXTENDS SignalBuffer

MCCeiling == [s \in 1..3 |-> CASE s = 1 -> 2 [] s = 2 -> 1 [] s = 3 -> 0]
=============================================================================
