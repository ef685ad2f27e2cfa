------------------------------ MODULE LedStrip ------------------------------
(***************************************************************************)
(* The Ledstrip object, the pixel buffer of the lpd8806 library and the    *)
(* chips of the strip at the other end of the SPI bus.                     *)
(*                                                                         *)
(* The buffer is written by write_all, one write() of the spidev driver at *)
(* a time: it may be cut short, be refused as too long or fail.  The unit  *)
(* of a transfer is a frame (the three bytes of an LED, or three zero      *)
(* bytes); a write that EINTR interrupts is tried again, unchanged: it is  *)
(* a stuttering step.                                                      *)
(***************************************************************************)
EXTENDS Integers, Sequences

CONSTANTS
    NB_LEDS,     \* the LEDs of the strip
    Colors,      \* the colours clients ask for
    Black,       \* Color()
    Levels,      \* the gamma-corrected colours, whose bytes have their top bit set
    Gamma,       \* the gamma tables: the level of each colour
    Reset,       \* a frame of zero bytes: the next frame is for the first LED
    MaxWrite     \* the longest write the driver accepts, in frames

ASSUME StripAssumption == NB_LEDS \in Nat \ {0} /\ MaxWrite \in Nat \ {0}
ASSUME ColorsAssumption ==
    /\ Black \in Colors
    /\ Gamma \in [Colors -> Levels]
    /\ Reset \notin Levels

VARIABLES
    pc,           \* "ready", "sending", "closing" (sending, in the destructor), "destroyed"
    initialized,  \* could the device be opened and the buffer allocated?
    colors,       \* _colors
    pixels,       \* the first NB_LEDS of buf.pixels
    unset,        \* the frames of the buffer no one ever writes: two before, one after
    sent,         \* the frames of the buffer that write_all has written
    attempt,      \* the length of its next write
    result,       \* what the last send_buffer returned; its callers do not look
    chips         \* the strip: what each LED shows and which one the next frame is for

vars == <<pc, initialized, colors, pixels, unset, sent, attempt, result, chips>>

LEDs == 0..NB_LEDS - 1
Frames == Levels \union {Reset}
Sending == {"sending", "closing"}

\* Mutant: the leading frame of zeros is not there.
BufferWithoutReset ==
    <<unset[1], unset[1], unset[2]>> \o [i \in 1..NB_LEDS |-> pixels[i - 1]]
        \o <<unset[3], Reset, Reset>>

\* Three frames, a pixel per LED and one more, two frames (lpd8806_init).
Buffer ==
    <<Reset, unset[1], unset[2]>> \o [i \in 1..NB_LEDS |-> pixels[i - 1]]
        \o <<unset[3], Reset, Reset>>

Size == NB_LEDS + 6

AllOf(color) == [i \in LEDs |-> color]
Corrected(cs) == [i \in LEDs |-> Gamma[cs[i]]]

-----------------------------------------------------------------------------
(* The chips.  A level goes to the next LED of the chain, or past its end.   *)
Latch(c, frame) ==
    IF frame = Reset THEN [c EXCEPT !.next = 0]
    ELSE IF c.next < NB_LEDS THEN [strip |-> [c.strip EXCEPT ![c.next] = frame],
                                   next |-> c.next + 1]
    ELSE c

Latched(c, frames) ==
    LET After[k \in 0..Len(frames)] == IF k = 0 THEN c ELSE Latch(After[k - 1], frames[k])
    IN  After[Len(frames)]

-----------------------------------------------------------------------------
(* The constructor: the device is opened and set up, the buffer allocated,   *)
(* and the strip blanked; where a step fails, only _colors is.               *)
Init ==
    /\ initialized \in BOOLEAN
    /\ pc = IF initialized THEN "sending" ELSE "ready"
    /\ colors = AllOf(Black)
    /\ pixels = AllOf(Gamma[Black])
    /\ unset \in [1..3 -> Frames]
    /\ sent = 0
    /\ attempt = Size
    /\ result = "none"
    /\ chips \in [strip : {AllOf(level) : level \in Levels}, next : {0}]

\* The pixels are in the buffer: send_buffer starts.
SendBuffer(step) ==
    /\ pc' = step
    /\ sent' = 0
    /\ attempt' = Size
    /\ UNCHANGED <<initialized, unset, result, chips>>

(* _colors becomes cs in any case; the pixels and the rest are for a strip    *)
(* that is there.                                                            *)
Show(cs, new_pixels) ==
    /\ pc = "ready"
    /\ colors' = cs
    /\ \/ ~initialized /\ UNCHANGED <<pc, initialized, pixels, unset, sent, attempt, result, chips>>
       \/ initialized /\ pixels' = new_pixels /\ SendBuffer("sending")

Blank == Show(AllOf(Black), AllOf(Gamma[Black]))

Fill(color) == Show(AllOf(color), AllOf(Gamma[color]))

\* Mutant: the pixel after the one asked for is written.
SetLedOneTooFar(idx, color) ==
    /\ idx < NB_LEDS
    /\ Show([colors EXCEPT ![idx] = color], [pixels EXCEPT ![idx + 1] = Gamma[color]])

\* An index past the end is ignored.
SetLed(idx, color) ==
    /\ idx < NB_LEDS
    /\ Show([colors EXCEPT ![idx] = color], [pixels EXCEPT ![idx] = Gamma[color]])

\* The colours the strip is believed to show are not sent again.
SetColors(cs) == cs # colors /\ Show(cs, Corrected(cs))

\* The destructor blanks the strip and closes the device.
Destroy ==
    /\ pc = "ready"
    /\ IF initialized THEN /\ colors' = AllOf(Black)
                           /\ pixels' = AllOf(Gamma[Black])
                           /\ SendBuffer("closing")
                      ELSE /\ pc' = "destroyed"
                           /\ UNCHANGED <<initialized, colors, pixels, unset, sent, attempt,
                                          result, chips>>

-----------------------------------------------------------------------------
(* write_all, a turn of its loop at a time.                                  *)

Return(r) ==
    /\ result' = r
    /\ pc' = IF pc = "closing" THEN "destroyed" ELSE "ready"

\* Mutant: the length of the next write is not cut to what is left.
WriteSomeUnclamped(n) ==
    /\ pc \in Sending
    /\ attempt =< MaxWrite
    /\ n =< attempt
    /\ chips' = Latched(chips, SubSeq(Buffer, sent + 1, sent + n))
    /\ sent' = sent + n
    /\ attempt' = attempt
    /\ IF sent' = Size THEN Return("sent") ELSE UNCHANGED <<result, pc>>
    /\ UNCHANGED <<initialized, colors, pixels, unset>>

\* The driver transfers n frames.
WriteSome(n) ==
    /\ pc \in Sending
    /\ attempt =< MaxWrite
    /\ n =< attempt
    /\ chips' = Latched(chips, SubSeq(Buffer, sent + 1, sent + n))
    /\ sent' = sent + n
    /\ attempt' = IF attempt > Size - sent' THEN Size - sent' ELSE attempt
    /\ IF sent' = Size THEN Return("sent") ELSE UNCHANGED <<result, pc>>
    /\ UNCHANGED <<initialized, colors, pixels, unset>>

\* Mutant: the same length is tried again.
WriteTooLongAgain ==
    /\ pc \in Sending
    /\ attempt > MaxWrite
    /\ UNCHANGED vars

\* EMSGSIZE: half of it is tried next.
WriteTooLong ==
    /\ pc \in Sending
    /\ attempt > MaxWrite
    /\ attempt' = attempt \div 2
    /\ UNCHANGED <<pc, initialized, colors, pixels, unset, sent, result, chips>>

\* Any other error ends the transfer where it is.
WriteFails ==
    /\ pc \in Sending
    /\ Return("failed")
    /\ UNCHANGED <<initialized, colors, pixels, unset, sent, attempt, chips>>

Write == WriteTooLong \/ \E n \in 1..Size : WriteSome(n)

Next ==
    \/ Blank
    \/ \E color \in Colors : Fill(color)
    \/ \E idx \in 0..NB_LEDS, color \in Colors : SetLed(idx, color)
    \/ \E cs \in [LEDs -> Colors] : SetColors(cs)
    \/ Destroy
    \/ Write
    \/ WriteFails

Spec == Init /\ [][Next]_vars

\* The driver answers, and signals do not interrupt its writes for ever.
FairSpec == Spec /\ WF_vars(Write)

-----------------------------------------------------------------------------
(* The next write is never of more than what is left of the buffer, and      *)
(* never of nothing, which would spin: not after the cuts of a short write,  *)
(* not after the halving of one too long, in any order (lpd8806led.c:104).   *)
WritesStayInTheBuffer == pc \in Sending => attempt \in 1..Size - sent

(* The buffer and _colors never disagree on a strip that is there, so that   *)
(* the test of set(ColorSet) skips only what the buffer already holds        *)
(* (ledstrip.cpp:122-138).                                                   *)
BufferHoldsColors == initialized => pixels = Corrected(colors)

\* The frames before the pixels that are not zero, after the last one that is.
Leading == IF unset[2] = Reset THEN <<>>
           ELSE IF unset[1] = Reset THEN <<unset[2]>>
           ELSE <<unset[1], unset[2]>>

(* A buffer that was sent is on the LEDs, from the first one on, wherever    *)
(* the transfers before it were cut or failed.  Exactly what malloc left in  *)
(* front of the pixels shifts the picture (lpd8806led.c:25-40, 104-127).     *)
SentIsShown ==
    pc \notin Sending /\ initialized /\ result = "sent"
        => chips.strip = [i \in LEDs |->
              IF i < Len(Leading) THEN Leading[i + 1] ELSE Gamma[colors[i - Len(Leading)]]]

(* A transfer ends, however it was cut: send_buffer "will always block while *)
(* writing" (lpd8806led.h:91), but the main loop gets its thread back.       *)
SendEnds == pc \in Sending ~> pc \notin Sending
=============================================================================
