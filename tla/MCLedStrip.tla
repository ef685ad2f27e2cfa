----------------------------- MODULE MCLedStrip -----------------------------
(* Three LEDs, so that a buffer can be cut inside its pixels and shifted by  *)
(* one or two frames, and a driver that accepts writes of three frames of    *)
(* the nine: a transfer is refused twice and takes several writes.  Two of   *)
(* the three colours are one level after gamma correction, as (0,0,0) and    *)
(* (1,1,1) are.                                                              *)
EXTENDS LedStrip, TLC

CONSTANTS black, nearly_black, white, dark, bright

MCGamma == (black :> dark) @@ (nearly_black :> dark) @@ (white :> bright)
=============================================================================
