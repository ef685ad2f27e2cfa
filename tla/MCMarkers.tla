------------------------------ MODULE MCMarkers ------------------------------
(* The four markers of detector.h, as the sets of their bits that are 1, and *)
(* circles that are white or black all over.  Two circles show that what is  *)
(* found in one does not depend on the one before.                           *)
EXTENDS Markers, TLC

MCMarkers ==
    (1 :> 12..17)
    @@ (2 :> (6..9) \union (16..19))
    @@ (3 :> (0..8) \union (17..24))
    @@ (4 :> (0..8) \union (11..24))

MCPlain == (256 :> {}) @@ (257 :> 0..24)
=============================================================================
