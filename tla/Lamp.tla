-------------------------------- MODULE Lamp --------------------------------
(***************************************************************************)
(* What the light table promises to the people around it, whatever its     *)
(* main loop, its fades and its sleep mode do: it is a lamp that is on or  *)
(* off and remembers one ambience.  Ambiences are chosen while it is on;   *)
(* turning it off and on again brings back the ambience it was left with.  *)
(***************************************************************************)
CONSTANT Effects    \* the ambiences

VARIABLES
    on,       \* is the lamp on?
    effect    \* the ambience it shows, or will show when it is on again

vars == <<on, effect>>

Init == on = TRUE /\ effect \in Effects

Choose == on /\ effect' \in Effects /\ UNCHANGED on

SwitchOff == on /\ on' = FALSE /\ UNCHANGED effect

SwitchOn == ~on /\ on' = TRUE /\ UNCHANGED effect

Next == Choose \/ SwitchOff \/ SwitchOn

Spec == Init /\ [][Next]_vars
=============================================================================
