--------------------------- MODULE EffectsProofs ---------------------------
(***************************************************************************)
(* For every strip whose length is one or three more than a multiple of    *)
(* six, every permutation and every gradient, the effects stay inside      *)
(* their arrays, and a step of the noise gives every LED the colour of a   *)
(* place next to that of its neighbours.  The invariant says how far the   *)
(* four loops have come and where each LED before that was looked up.      *)
(***************************************************************************)
EXTENDS Effects, TLAPS

(* The walk: along the top, down the right side, back along the bottom and    *)
(* up the left side, whose first LED is the last one of the bottom.          *)
Counters ==
    /\ pc = "top" => i \in 0..WIDTH /\ j = 0
    /\ pc = "right" => i = WIDTH /\ j \in 0..HEIGHT
    /\ pc = "bottom" => i \in -1..WIDTH /\ j = HEIGHT
    /\ pc = "left" => i = -1 /\ j \in -1..HEIGHT

TopDone(led) ==
    led < WIDTH /\ (pc \in {"right", "bottom", "left"} \/ (pc = "top" /\ led < i))
        => positions[led] = <<led, 0>>

RightDone(led) ==
    led >= WIDTH /\ led < WIDTH + HEIGHT
    /\ (pc \in {"bottom", "left"} \/ (pc = "right" /\ led < WIDTH + j))
        => positions[led] = <<WIDTH, led - WIDTH>>

BottomDone(led) ==
    led >= WIDTH + HEIGHT /\ led < 2 * WIDTH + HEIGHT
    /\ (pc = "left" \/ (pc = "bottom" /\ led < 2 * WIDTH + HEIGHT - i))
        => positions[led] = <<2 * WIDTH + HEIGHT - led, HEIGHT>>

LeftDone(led) ==
    led >= 2 * WIDTH + HEIGHT /\ pc = "left" /\ led < 2 * WIDTH + 2 * HEIGHT - j
        => positions[led] = <<-1, 2 * WIDTH + 2 * HEIGHT - led>>

Done == \A led \in LEDs : TopDone(led) /\ RightDone(led) /\ BottomDone(led) /\ LeftDone(led)

WalkInv == Counters /\ Done

ReadsInv == reads \subseteq DOMAIN p
EntryInv == entry \in Generated

IInv == TypeOK /\ WalkInv /\ ReadsInv /\ EntryInv

-----------------------------------------------------------------------------
\* The four loops come to NB_LEDS - 1, and no further.
LEMMA Dimensions ==
    WIDTH \in Nat /\ HEIGHT \in Nat /\ NB_LEDS \in Nat /\ NB_LEDS = 2 * WIDTH + 2 * HEIGHT + 1
BY StripAssumption DEF WIDTH, HEIGHT

\* A cell of the noise is one of the period.
LEMMA CellFacts == \A coordinate \in Int : Cell(coordinate) \in 0..PERIOD - 1
<1> SUFFICES ASSUME NEW coordinate \in Int PROVE Cell(coordinate) \in 0..PERIOD - 1
  OBVIOUS
<1>1. coordinate \div scale \in Int
  BY NoiseAssumption
<1>2. \A n \in Int : n % PERIOD \in 0..PERIOD - 1
  BY NoiseAssumption
<1>3. QED
  BY <1>1, <1>2 DEF Cell

\* The table of the noise holds numbers below the period.
LEMMA TableFacts == \A k \in 0..2 * PERIOD - 1 : p[k] \in 0..PERIOD - 1
<1> SUFFICES ASSUME NEW k \in 0..2 * PERIOD - 1 PROVE p[k] \in 0..PERIOD - 1
  OBVIOUS
<1>1. k % PERIOD \in 0..PERIOD - 1
  BY NoiseAssumption
<1>2. QED
  BY <1>1, NoiseAssumption DEF p

\* The corners of a cell of the noise are inside its table.
LEMMA CornersFacts ==
    ASSUME NEW X \in 0..PERIOD - 1, NEW Y \in 0..PERIOD - 1, NEW Z \in 0..PERIOD - 1
    PROVE  Corners(X, Y, Z) \subseteq DOMAIN p
<1> DEFINE A == p[X] + Y
           B == p[X + 1] + Y
<1>1. PERIOD \in Nat \ {0} /\ DOMAIN p = 0..2 * PERIOD - 1
  BY NoiseAssumption DEF p
<1>2. X \in 0..2 * PERIOD - 1 /\ X + 1 \in 0..2 * PERIOD - 1
  BY <1>1
<1>3. A \in 0..2 * PERIOD - 2 /\ B \in 0..2 * PERIOD - 2
  BY <1>1, <1>2, TableFacts
<1> HIDE DEF A, B
<1>4. {A, A + 1, B, B + 1} \subseteq 0..2 * PERIOD - 1
  BY <1>1, <1>3
<1>5. \A k \in {A, A + 1, B, B + 1} :
          p[k] + Z \in 0..2 * PERIOD - 1 /\ p[k] + Z + 1 \in 0..2 * PERIOD - 1
  <2> SUFFICES ASSUME NEW k \in {A, A + 1, B, B + 1}
               PROVE  p[k] + Z \in 0..2 * PERIOD - 1 /\ p[k] + Z + 1 \in 0..2 * PERIOD - 1
    OBVIOUS
  <2>1. p[k] \in 0..PERIOD - 1
    BY <1>4, TableFacts
  <2>2. QED
    BY <1>1, <2>1
<1>6. Corners(X, Y, Z) = {X, X + 1} \union {A, A + 1, B, B + 1}
          \union {p[k] + Z : k \in {A, A + 1, B, B + 1}}
          \union {p[k] + Z + 1 : k \in {A, A + 1, B, B + 1}}
  BY DEF Corners, A, B
<1>7. QED
  BY <1>1, <1>2, <1>4, <1>5, <1>6

\* Whatever the position, its entry has been generated.
LEMMA LookupFacts == \A alpha \in Int : Lookup(alpha) \in Generated
BY GradientAssumption DEF Lookup, Clamped, Generated

LEMMA PositionFacts == \A elapsed \in Int : PositionAt(elapsed) \in Int
<1> SUFFICES ASSUME NEW elapsed \in Int PROVE PositionAt(elapsed) \in Int
  OBVIOUS
<1> DEFINE n == 2 * MAX_COLORS * elapsed + CYCLE_DURATION
           d == 2 * CYCLE_DURATION
<1>1. n \in Int /\ d \in Nat \ {0}
  BY GradientAssumption, FadeAssumption
<1> HIDE DEF n, d
<1>2. n \div d \in Int
  BY <1>1
<1>3. QED
  BY <1>2 DEF PositionAt, n, d

\* While a loop goes on it writes one of the LEDs.
LEMMA IndexFacts == Counters /\ InLoop => Index \in LEDs
<1> SUFFICES ASSUME Counters, InLoop PROVE Index \in LEDs
  OBVIOUS
<1> USE Dimensions
<1>1. CASE pc = "top"
  <2>1. Index = i /\ i \in Nat /\ i < WIDTH
    BY <1>1 DEF Counters, InLoop, Index
  <2>2. QED
    BY <2>1 DEF LEDs
<1>2. CASE pc = "right"
  <2>1. Index = WIDTH + j /\ j \in Nat /\ j < HEIGHT
    BY <1>2 DEF Counters, InLoop, Index
  <2>2. QED
    BY <2>1 DEF LEDs
<1>3. CASE pc = "bottom"
  <2>1. Index = WIDTH + HEIGHT + (WIDTH - i) /\ i \in 0..WIDTH
    BY <1>3 DEF Counters, InLoop, Index
  <2>2. QED
    BY <2>1 DEF LEDs
<1>4. CASE pc = "left"
  <2>1. Index = 2 * WIDTH + HEIGHT + (HEIGHT - j) /\ j \in 0..HEIGHT
    BY <1>4 DEF Counters, InLoop, Index
  <2>2. QED
    BY <2>1 DEF LEDs
<1>5. QED
  BY <1>1, <1>2, <1>3, <1>4 DEF InLoop

-----------------------------------------------------------------------------
LEMMA InitInv == Init => IInv
<1> SUFFICES ASSUME Init PROVE IInv
  OBVIOUS
<1>1. TypeOK
  <2>1. elapsed_fade \in Int
    BY FadeAssumption DEF Init
  <2>2. 0 \in 0..PERIOD - 1
    BY NoiseAssumption
  <2>3. QED
    BY <2>1, <2>2, Dimensions DEF Init, TypeOK, Sides
<1>2. 0 \in Generated
  BY GradientAssumption DEF Generated
<1>3. QED
  BY <1>1, <1>2 DEF Init, IInv, WalkInv, Counters, Done, TopDone, RightDone, BottomDone,
                      LeftDone, ReadsInv, EntryInv

\* A step of the noise or of the fade preserves the invariant.
LEMMA NextInv == IInv /\ [Next]_vars => IInv'
<1> SUFFICES ASSUME IInv, [Next]_vars PROVE IInv'
  OBVIOUS
<1> USE Dimensions
<1>1. CASE StartNoise
  <2>1. TypeOK'
    BY <1>1, NoiseAssumption DEF StartNoise, IInv, TypeOK, Sides
  <2>2. WalkInv'
    BY <1>1 DEF StartNoise, WalkInv, Counters, Done, TopDone, RightDone, BottomDone, LeftDone, LEDs
  <2>3. QED
    BY <1>1, <2>1, <2>2 DEF StartNoise, IInv, ReadsInv, EntryInv
<1>2. CASE NextLed
  <2>0. Index \in LEDs /\ i \in -1..WIDTH /\ j \in -1..HEIGHT /\ z \in 0..PERIOD - 1
    BY <1>2, IndexFacts DEF NextLed, IInv, WalkInv, TypeOK
  <2>1. i' \in -1..WIDTH /\ j' \in -1..HEIGHT
    BY <1>2, <2>0 DEF NextLed, InLoop
  <2>2. positions' = [positions EXCEPT ![Index] = <<i, j>>]
    BY <1>2 DEF NextLed
  <2>3. ReadsInv'
    <3>1. Cell(i) \in 0..PERIOD - 1 /\ Cell(j) \in 0..PERIOD - 1
      BY <2>0, CellFacts
    <3>2. QED
      BY <1>2, <2>0, <3>1, CornersFacts DEF NextLed, ReadsInv
  <2>4. EntryInv'
    <3>1. PICK alpha \in 0..2 * MAX_COLORS : entry' = Lookup(alpha)
      BY <1>2 DEF NextLed
    <3>2. QED
      BY <3>1, LookupFacts DEF EntryInv
  <2>5. TypeOK'
    <3>1. entry' \in Int
      BY <2>4 DEF EntryInv, Generated
    <3>2. reads' \subseteq Nat
      BY <2>3, NoiseAssumption DEF ReadsInv, p
    <3>3. positions' \in [LEDs -> ((-1..WIDTH) \X (-1..HEIGHT)) \union {Unset}]
      BY <2>0, <2>2 DEF IInv, TypeOK
    <3>4. QED
      BY <1>2, <2>1, <3>1, <3>2, <3>3 DEF NextLed, IInv, TypeOK
  <2>6. WalkInv'
    <3>1. \A led \in LEDs : positions'[led] = IF led = Index THEN <<i, j>> ELSE positions[led]
      BY <2>0, <2>2 DEF IInv, TypeOK
    <3> HIDE DEF Index
    <3>2. Counters /\ Done /\ InLoop /\ pc' = pc
      BY <1>2 DEF NextLed, IInv, WalkInv
    <3>3. \A led \in LEDs : led \in Nat /\ led < NB_LEDS
      BY DEF LEDs
    <3>4. CASE pc = "top"
      <4>1. i \in 0..WIDTH - 1 /\ j = 0 /\ i' = i + 1 /\ j' = j /\ Index = i
        BY <1>2, <3>2, <3>4 DEF NextLed, Counters, InLoop, Index
      <4>2. Counters'
        BY <3>2, <3>4, <4>1 DEF Counters
      <4>3. ASSUME NEW led \in LEDs
            PROVE  TopDone(led)' /\ RightDone(led)' /\ BottomDone(led)' /\ LeftDone(led)'
        BY <3>1, <3>2, <3>3, <3>4, <4>1 DEF Done, TopDone, RightDone, BottomDone, LeftDone
      <4>4. QED
        BY <4>2, <4>3 DEF WalkInv, Done, LEDs
    <3>5. CASE pc = "right"
      <4>1. i = WIDTH /\ j \in 0..HEIGHT - 1 /\ i' = i /\ j' = j + 1 /\ Index = WIDTH + j
        BY <1>2, <3>2, <3>5 DEF NextLed, Counters, InLoop, Index
      <4>2. Counters'
        BY <3>2, <3>5, <4>1 DEF Counters
      <4>3. ASSUME NEW led \in LEDs
            PROVE  TopDone(led)' /\ RightDone(led)' /\ BottomDone(led)' /\ LeftDone(led)'
        BY <3>1, <3>2, <3>3, <3>5, <4>1 DEF Done, TopDone, RightDone, BottomDone, LeftDone
      <4>4. QED
        BY <4>2, <4>3 DEF WalkInv, Done, LEDs
    <3>6. CASE pc = "bottom"
      <4>1. /\ i \in 0..WIDTH /\ j = HEIGHT /\ i' = i - 1 /\ j' = j
            /\ Index = 2 * WIDTH + HEIGHT - i
        BY <1>2, <3>2, <3>6 DEF NextLed, Counters, InLoop, Index
      <4>2. Counters'
        BY <3>2, <3>6, <4>1 DEF Counters
      <4>3. ASSUME NEW led \in LEDs
            PROVE  TopDone(led)' /\ RightDone(led)' /\ BottomDone(led)' /\ LeftDone(led)'
        BY <3>1, <3>2, <3>3, <3>6, <4>1 DEF Done, TopDone, RightDone, BottomDone, LeftDone
      <4>4. QED
        BY <4>2, <4>3 DEF WalkInv, Done, LEDs
    <3>7. CASE pc = "left"
      <4>1. /\ i = -1 /\ j \in 0..HEIGHT /\ i' = i /\ j' = j - 1
            /\ Index = 2 * WIDTH + 2 * HEIGHT - j
        BY <1>2, <3>2, <3>7 DEF NextLed, Counters, InLoop, Index
      <4>2. Counters'
        BY <3>2, <3>7, <4>1 DEF Counters
      <4>3. ASSUME NEW led \in LEDs
            PROVE  TopDone(led)' /\ RightDone(led)' /\ BottomDone(led)' /\ LeftDone(led)'
        <5>1. Index >= 2 * WIDTH + HEIGHT /\ led \in Nat /\ pc' = "left"
          BY <3>2, <3>3, <3>7, <4>1
        <5>2. /\ positions'[led] = IF led = Index THEN <<i, j>> ELSE positions[led]
              /\ TopDone(led) /\ RightDone(led) /\ BottomDone(led) /\ LeftDone(led)
          BY <3>1, <3>2 DEF Done
        <5>3. TopDone(led)'
          BY <3>7, <5>1, <5>2 DEF TopDone
        <5>4. RightDone(led)'
          BY <3>7, <5>1, <5>2 DEF RightDone
        <5>5. BottomDone(led)'
          BY <3>7, <5>1, <5>2 DEF BottomDone
        <5>6. LeftDone(led)'
          BY <3>7, <4>1, <5>1, <5>2 DEF LeftDone
        <5>7. QED
          BY <5>3, <5>4, <5>5, <5>6
      <4>4. QED
        BY <4>2, <4>3 DEF WalkInv, Done, LEDs
    <3>8. QED
      BY <3>2, <3>4, <3>5, <3>6, <3>7 DEF InLoop
  <2>7. QED
    BY <2>3, <2>4, <2>5, <2>6 DEF IInv
<1>3. CASE NextSide
  <2>1. TypeOK'
    BY <1>3 DEF NextSide, IInv, TypeOK, Sides
  <2>2. WalkInv'
    <3>1. /\ Counters /\ Done /\ ~InLoop /\ pc \in Sides
          /\ i' = i /\ j' = j /\ positions' = positions
          /\ i \in Int /\ j \in Int
      BY <1>3 DEF NextSide, IInv, WalkInv, TypeOK
    <3>2. \A led \in LEDs : led \in Nat /\ led < NB_LEDS
      BY DEF LEDs
    <3>3. CASE pc = "top"
      <4>1. pc' = "right" /\ i = WIDTH /\ j = 0
        BY <1>3, <3>1, <3>3 DEF NextSide, Counters, InLoop
      <4>2. QED
        BY <3>1, <3>2, <3>3, <4>1
        DEF WalkInv, Counters, Done, TopDone, RightDone, BottomDone, LeftDone, LEDs
    <3>4. CASE pc = "right"
      <4>1. pc' = "bottom" /\ i = WIDTH /\ j = HEIGHT
        BY <1>3, <3>1, <3>4 DEF NextSide, Counters, InLoop
      <4>2. QED
        BY <3>1, <3>2, <3>4, <4>1
        DEF WalkInv, Counters, Done, TopDone, RightDone, BottomDone, LeftDone, LEDs
    <3>5. CASE pc = "bottom"
      <4>1. pc' = "left" /\ i = -1 /\ j = HEIGHT
        BY <1>3, <3>1, <3>5 DEF NextSide, Counters, InLoop
      <4>2. QED
        BY <3>1, <3>2, <3>5, <4>1
        DEF WalkInv, Counters, Done, TopDone, RightDone, BottomDone, LeftDone, LEDs
    <3>6. CASE pc = "left"
      <4>1. pc' = "idle"
        BY <1>3, <3>6 DEF NextSide
      <4>2. QED
        BY <3>1, <4>1
        DEF WalkInv, Counters, Done, TopDone, RightDone, BottomDone, LeftDone, LEDs
    <3>7. QED
      BY <3>1, <3>3, <3>4, <3>5, <3>6 DEF Sides
  <2>3. QED
    BY <1>3, <2>1, <2>2 DEF NextSide, IInv, ReadsInv, EntryInv
<1>4. ASSUME NEW dt \in Dts, FadeStep(dt) PROVE IInv'
  <2>1. EntryInv'
    BY <1>4, LookupFacts, PositionFacts DEF FadeStep, EntryInv, IInv, TypeOK
  <2>2. entry' \in Int
    BY <2>1 DEF EntryInv, Generated
  <2>3. elapsed_fade' \in Int
    BY <1>4, FadeAssumption DEF FadeStep, IInv, TypeOK
  <2>4. QED
    BY <1>4, <2>1, <2>2, <2>3 DEF FadeStep, IInv, TypeOK, WalkInv, Counters, Done,
       TopDone, RightDone, BottomDone, LeftDone, ReadsInv
<1>5. CASE UNCHANGED vars
  BY <1>5 DEF vars, IInv, TypeOK, WalkInv, Counters, Done, TopDone, RightDone, BottomDone,
              LeftDone, ReadsInv, EntryInv
<1>6. QED
  BY <1>1, <1>2, <1>3, <1>4, <1>5 DEF Next, Noise

-----------------------------------------------------------------------------
THEOREM Invariance == Spec => []IInv
BY InitInv, NextInv, PTL DEF Spec

\* Every variable of the effects keeps its type (TypeOK).
THEOREM EffectsTypeCorrect == Spec => []TypeOK
<1>1. IInv => TypeOK
  BY DEF IInv
<1>2. QED
  BY <1>1, Invariance, PTL

(* No effect reads or writes outside an array, or an entry of the gradient    *)
(* that was not generated (AccessesInBounds).                                *)
THEOREM EffectsStayInBounds == Spec => []AccessesInBounds
<1>1. IInv => AccessesInBounds
  BY IndexFacts DEF IInv, WalkInv, AccessesInBounds, ReadsInv, EntryInv
<1>2. QED
  BY <1>1, Invariance, PTL

(* A step of the noise covers the strip, and goes around the table without a  *)
(* jump (NoiseGoesAroundTheTable).                                           *)
THEOREM NoiseCoversTheStrip == Spec => []NoiseGoesAroundTheTable
<1>1. IInv => NoiseGoesAroundTheTable
  <2> SUFFICES ASSUME IInv, pc = "left", ~InLoop
               PROVE  /\ \A led \in LEDs : positions[led] # Unset
                      /\ \A led \in LEDs : Close(positions[led], positions[(led + 1) % NB_LEDS])
    BY DEF NoiseGoesAroundTheTable
  <2> DEFINE X(led) == IF led < WIDTH THEN led
                       ELSE IF led < WIDTH + HEIGHT THEN WIDTH
                       ELSE IF led < 2 * WIDTH + HEIGHT THEN 2 * WIDTH + HEIGHT - led
                       ELSE -1
             Y(led) == IF led < WIDTH THEN 0
                       ELSE IF led < WIDTH + HEIGHT THEN led - WIDTH
                       ELSE IF led < 2 * WIDTH + HEIGHT THEN HEIGHT
                       ELSE 2 * WIDTH + 2 * HEIGHT - led
  <2>1. j = -1
    BY Dimensions DEF InLoop, IInv, WalkInv, Counters
  <2>2. ASSUME NEW led \in LEDs
        PROVE  positions[led] = <<X(led), Y(led)>>
    <3>1. led \in Nat /\ led < 2 * WIDTH + 2 * HEIGHT - j
      BY <2>1, Dimensions DEF LEDs
    <3>2. CASE led < WIDTH
      BY <3>2 DEF IInv, WalkInv, Done, TopDone
    <3>3. CASE led >= WIDTH /\ led < WIDTH + HEIGHT
      BY <3>1, <3>3, Dimensions DEF IInv, WalkInv, Done, RightDone
    <3>4. CASE led >= WIDTH + HEIGHT /\ led < 2 * WIDTH + HEIGHT
      BY <3>1, <3>4, Dimensions DEF IInv, WalkInv, Done, BottomDone
    <3>5. CASE led >= 2 * WIDTH + HEIGHT
      BY <3>1, <3>5, Dimensions DEF IInv, WalkInv, Done, LeftDone
    <3>6. QED
      BY <3>1, <3>2, <3>3, <3>4, <3>5, Dimensions
  <2>3. ASSUME NEW led \in LEDs PROVE positions[led] # Unset
    <3>1. <<X(led), Y(led)>> # <<>>
      OBVIOUS
    <3>2. QED
      BY <2>2, <3>1 DEF Unset
  <2>4. ASSUME NEW led \in LEDs
        PROVE  Close(positions[led], positions[(led + 1) % NB_LEDS])
    <3> DEFINE next == (led + 1) % NB_LEDS
    <3>1. led \in 0..NB_LEDS - 1
      BY DEF LEDs
    <3>2. next = IF led = NB_LEDS - 1 THEN 0 ELSE led + 1
      BY <3>1, Dimensions
    <3> HIDE DEF next
    <3>3. next \in LEDs
      BY <3>1, <3>2, Dimensions DEF LEDs
    <3>4. X(led) - X(next) \in -2..2 /\ Y(led) - Y(next) \in -2..2
      BY <3>1, <3>2, Dimensions
    <3> HIDE DEF X, Y
    <3>5. positions[led] = <<X(led), Y(led)>> /\ positions[next] = <<X(next), Y(next)>>
      BY <2>2, <3>3
    <3>6. Close(positions[led], positions[next])
      BY <3>4, <3>5 DEF Close
    <3>7. QED
      BY <3>6 DEF next
  <2>5. QED
    BY <2>3, <2>4
<1>2. QED
  BY <1>1, Invariance, PTL
=============================================================================
