---------------------------- MODULE MCSpotTracker ----------------------------
(* A grid of positions, and two addresses of which the table listens on the  *)
(* second, so that connecting has to go on after a refusal.                  *)
EXTENDS SpotTracker

MCEndpoints == <<"::1", "127.0.0.1">>
MCOther == <<255, 255, 255>>
=============================================================================
