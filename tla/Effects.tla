------------------------------- MODULE Effects -------------------------------
(***************************************************************************)
(* The effects that compute the colours of a frame: Noise, which walks     *)
(* around the table and looks up Perlin noise at each LED, GradientFade,   *)
(* which goes through a gradient in a cycle, and the Gradient both of them *)
(* take their colours from.                                                *)
(*                                                                         *)
(* The noise is floating-point: here it is any value from -1 to 1, and     *)
(* what is kept is where the code reads and writes to compute it.  Colours *)
(* are the entries of the gradient's table.                                *)
(***************************************************************************)
EXTENDS Integers

CONSTANTS
    NB_LEDS,         \* the LEDs around the table
    MAX_COLORS,      \* the entries of a gradient
    Stops,           \* the stops of the gradient, in units of one entry
    PERIOD,          \* the length of the permutation, 256
    permutation,     \* the permutation of Perlin noise
    Depths,          \* the cells z is in: any, a few are enough for TLC
    scale,           \* the LEDs in a cell of the noise
    CYCLE_DURATION,  \* the cycle of GradientFade
    Memory,          \* what memory holds where nothing was written, as a duration
    Dts              \* the durations of a frame

\* The two strips of ledstrip.h:17-20 have 97 and 63 LEDs.
ASSUME StripAssumption == NB_LEDS \in Nat /\ NB_LEDS % 6 \in {1, 3}
ASSUME GradientAssumption ==
    /\ MAX_COLORS \in Nat \ {0}
    /\ Stops \subseteq 0..MAX_COLORS
    /\ {0, MAX_COLORS} \subseteq Stops
ASSUME NoiseAssumption ==
    /\ PERIOD \in Nat \ {0}
    /\ permutation \in [0..PERIOD - 1 -> 0..PERIOD - 1]
    /\ Depths \subseteq 0..PERIOD - 1
    /\ scale \in Nat \ {0}
ASSUME FadeAssumption ==
    CYCLE_DURATION \in Nat \ {0} /\ Memory \subseteq Int /\ Dts \subseteq Nat \ {0}

VARIABLES
    pc,            \* "idle", or the loop of Noise::step: one side of the table
    i, j,          \* its counters
    z,             \* the cell of the noise's third coordinate
    positions,     \* where on the table each LED of next_colors was looked up
    reads,         \* the entries of p the last call of noise() has read
    entry,         \* the last entry of the gradient's table that was looked up
    elapsed_fade   \* of the GradientFade

vars == <<pc, i, j, z, positions, reads, entry, elapsed_fade>>

LEDs == 0..NB_LEDS - 1
Sides == {"top", "right", "bottom", "left"}
Unset == <<>>

WIDTH == NB_LEDS \div 3
HEIGHT == NB_LEDS \div 6

TypeOK ==
    /\ pc \in Sides \union {"idle"}
    /\ i \in -1..WIDTH
    /\ j \in -1..HEIGHT
    /\ z \in 0..PERIOD - 1
    /\ positions \in [LEDs -> ((-1..WIDTH) \X (-1..HEIGHT)) \union {Unset}]
    /\ reads \subseteq Nat
    /\ entry \in Int
    /\ elapsed_fade \in Int

-----------------------------------------------------------------------------
(* Perlin noise: p holds the permutation twice.                             *)

p == [k \in 0..2 * PERIOD - 1 |-> permutation[k % PERIOD]]

\* The unit cell a coordinate is in: floor, and the bits below 256.
Cell(coordinate) == (coordinate \div scale) % PERIOD

\* The entries of p that are read for the corners of the cell.
Corners(X, Y, Z) ==
    LET A == p[X] + Y
        B == p[X + 1] + Y
    IN  {X, X + 1, A, A + 1, B, B + 1}
        \union {p[k] + Z : k \in {A, A + 1, B, B + 1}}
        \union {p[k] + Z + 1 : k \in {A, A + 1, B, B + 1}}

-----------------------------------------------------------------------------
(* Gradient.  A position in it is a number of entries, from 0 to MAX_COLORS. *)

\* The entries its constructor computes a colour for; the others stay black.
Generated == {k \in 0..MAX_COLORS - 1 : \E stop \in Stops : stop >= k}

Clamped(alpha) == IF alpha < 0 THEN 0 ELSE IF alpha > MAX_COLORS THEN MAX_COLORS ELSE alpha

\* Mutant: the position 1 has an entry of its own.
LookupPastTheEnd(alpha) == Clamped(alpha)

\* The entry for a position.
Lookup(alpha) == IF Clamped(alpha) = MAX_COLORS THEN MAX_COLORS - 1 ELSE Clamped(alpha)

-----------------------------------------------------------------------------
(* GradientFade.                                                            *)

\* The position for a time in the cycle, rounded to an entry.
PositionAt(elapsed) == (2 * MAX_COLORS * elapsed + CYCLE_DURATION) \div (2 * CYCLE_DURATION)

\* Mutant: the time stays at the end of the cycle.
FadeStepStuck(dt) ==
    /\ pc = "idle"
    /\ entry' = Lookup(PositionAt(elapsed_fade))
    /\ elapsed_fade' = IF elapsed_fade + dt >= CYCLE_DURATION THEN CYCLE_DURATION ELSE elapsed_fade + dt
    /\ UNCHANGED <<pc, i, j, z, positions, reads>>

FadeStep(dt) ==
    /\ pc = "idle"
    /\ entry' = Lookup(PositionAt(elapsed_fade))
    /\ elapsed_fade' = IF elapsed_fade + dt >= CYCLE_DURATION THEN 0 ELSE elapsed_fade + dt
    /\ UNCHANGED <<pc, i, j, z, positions, reads>>

-----------------------------------------------------------------------------
(* Noise::step: one loop for each side of the table.                         *)

\* Mutant: the last loop stops before 0.
InLoopOneShort ==
    \/ pc = "top" /\ i < WIDTH
    \/ pc = "right" /\ j < HEIGHT
    \/ pc = "bottom" /\ i >= 0
    \/ pc = "left" /\ j > 0

InLoop ==
    \/ pc = "top" /\ i < WIDTH
    \/ pc = "right" /\ j < HEIGHT
    \/ pc = "bottom" /\ i >= 0
    \/ pc = "left" /\ j >= 0

\* The LED the current loop has come to.
Index ==
    CASE pc = "top" -> i
      [] pc = "right" -> WIDTH + j
      [] pc = "bottom" -> WIDTH + HEIGHT + (WIDTH - i)
      [] pc = "left" -> 2 * WIDTH + HEIGHT + (HEIGHT - j)
      [] OTHER -> 0

StartNoise ==
    /\ pc = "idle"
    /\ z' \in Depths
    /\ i' = 0 /\ j' = 0
    /\ positions' = [led \in LEDs |-> Unset]
    /\ pc' = "top"
    /\ UNCHANGED <<reads, entry, elapsed_fade>>

\* The noise is from -1 to 1 and the code looks the gradient up at one more.
NextLed ==
    /\ InLoop
    /\ reads' = Corners(Cell(i), Cell(j), z)
    /\ \E alpha \in 0..2 * MAX_COLORS : entry' = Lookup(alpha)
    /\ positions' = [positions EXCEPT ![Index] = <<i, j>>]
    /\ i' = CASE pc = "top" -> i + 1 [] pc = "bottom" -> i - 1 [] OTHER -> i
    /\ j' = CASE pc = "right" -> j + 1 [] pc = "left" -> j - 1 [] OTHER -> j
    /\ UNCHANGED <<pc, z, elapsed_fade>>

NextSide ==
    /\ pc \in Sides
    /\ ~InLoop
    /\ pc' = CASE pc = "top" -> "right" [] pc = "right" -> "bottom"
               [] pc = "bottom" -> "left" [] pc = "left" -> "idle"
    /\ UNCHANGED <<i, j, z, positions, reads, entry, elapsed_fade>>

-----------------------------------------------------------------------------
\* A GradientFade whose elapsed_fade nothing has initialised.
Init ==
    /\ pc = "idle"
    /\ i = 0 /\ j = 0 /\ z = 0
    /\ positions = [led \in LEDs |-> Unset]
    /\ reads = {}
    /\ entry = 0
    /\ elapsed_fade \in Memory

Noise == NextLed \/ NextSide

Next == StartNoise \/ Noise \/ \E dt \in Dts : FadeStep(dt)

Spec == Init /\ [][Next]_vars

\* The table steps its effects at every frame, and a step ends.
FairSpec == Spec /\ WF_vars(Noise) /\ SF_vars(\E dt \in Dts : FadeStep(dt))

-----------------------------------------------------------------------------
(* Nothing is read or written outside an array, and no entry is used that    *)
(* the constructor of the gradient has not computed: not at the corners of   *)
(* the table, not in the cell at the end of the period, not for a noise      *)
(* above 0, whose position is clamped, and not for a time no one has set     *)
(* (noise.cpp:63-72 and 99-115, color.cpp:156-165, gradientfade.cpp:20-26).  *)
AccessesInBounds ==
    /\ InLoop => Index \in LEDs
    /\ reads \subseteq DOMAIN p
    /\ entry \in Generated

\* Two points of the walk that are next to each other, or around a corner.
Close(a, b) == a[1] - b[1] \in -2..2 /\ a[2] - b[2] \in -2..2

(* A step of the noise gives every LED a colour, and LEDs that are next to   *)
(* each other, the last and the first too, are looked up next to each other, *)
(* so that the colours do not jump (noise.cpp:99-115).                       *)
NoiseGoesAroundTheTable ==
    pc = "left" /\ ~InLoop =>
        /\ \A led \in LEDs : positions[led] # Unset
        /\ \A led \in LEDs : Close(positions[led], positions[(led + 1) % NB_LEDS])

(* Whatever elapsed_fade holds at first, the cycle starts anew for ever.     *)
FadeCycles == []<>(elapsed_fade = 0)
=============================================================================
