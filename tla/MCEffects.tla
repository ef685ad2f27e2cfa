------------------------------ MODULE MCEffects ------------------------------
(* The strip of 97 LEDs and the noise's period of 256, with a permutation of *)
(* its own; a gradient of four entries, one of them between two stops.       *)
EXTENDS Effects, TLC

MCPermutation == [k \in 0..PERIOD - 1 |-> (151 * k + 160) % PERIOD]
MCMemory == {-3, 0, 4, 7}
=============================================================================
