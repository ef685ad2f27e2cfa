--------------------------- MODULE LedStripProofs ---------------------------
(***************************************************************************)
(* For any strip and any driver, the writes of write_all stay inside the   *)
(* buffer and are never empty, the buffer holds the colours that Ledstrip  *)
(* remembers, and a write that succeeds leaves every chip with the colour  *)
(* of its LED, whatever interrupted transfers came before it.              *)
(*                                                                         *)
(* The last one is the hard one.  The chips are fed frame by frame, and a  *)
(* transfer may stop anywhere: a chip may have kept a colour and wait for  *)
(* the next reset, or have half the buffer behind it.  The invariant says  *)
(* which chips are lit after the first frames of the buffer (ChipsFollow), *)
(* counted from the last reset frame among those sent (Origin).  What a    *)
(* transfer of several frames does to the chips is a recursion over the    *)
(* frames: the lemmas unroll it, by induction over the set of lengths.     *)
(***************************************************************************)
EXTENDS LedStrip, SequenceTheorems, WellFoundedInduction, TLAPS

\* The types the two invariants need.
Typed ==
    /\ pc \in Sending \union {"ready", "destroyed"}
    /\ initialized \in BOOLEAN
    /\ colors \in [LEDs -> Colors]
    /\ pixels \in [LEDs -> Levels]
    /\ sent \in Nat
    /\ attempt \in Nat

IInv == Typed /\ WritesStayInTheBuffer /\ BufferHoldsColors

LEMMA SizeIsPositive == Size \in Nat \ {0}
BY StripAssumption DEF Size

LEMMA UniformColors ==
    ASSUME NEW color \in Colors
    PROVE  /\ AllOf(color) \in [LEDs -> Colors]
           /\ AllOf(Gamma[color]) \in [LEDs -> Levels]
           /\ AllOf(Gamma[color]) = Corrected(AllOf(color))
BY ColorsAssumption DEF AllOf, Corrected

LEMMA CorrectedColors ==
    ASSUME NEW cs \in [LEDs -> Colors]
    PROVE  Corrected(cs) \in [LEDs -> Levels]
BY ColorsAssumption DEF Corrected

LEMMA OneColorMore ==
    ASSUME NEW cs \in [LEDs -> Colors], NEW idx \in LEDs, NEW color \in Colors
    PROVE  [cs EXCEPT ![idx] = color] \in [LEDs -> Colors]
OBVIOUS

\* What every operation on the colours does to the invariant.
LEMMA ShowKeepsIInv ==
    ASSUME IInv, NEW cs \in [LEDs -> Colors], NEW px,
           initialized => px = Corrected(cs), Show(cs, px)
    PROVE  IInv'
<1>1. Corrected(cs) \in [LEDs -> Levels]
  BY CorrectedColors
<1>2. CASE ~initialized
  BY <1>2 DEF IInv, Typed, Show, WritesStayInTheBuffer, BufferHoldsColors, Sending, Size
<1>3. CASE initialized
  <2>1. colors' = cs /\ pixels' = Corrected(cs) /\ initialized' = initialized
    BY <1>3 DEF Show, SendBuffer
  <2>2. pc' = "sending" /\ sent' = 0 /\ attempt' = Size
    BY <1>3 DEF Show, SendBuffer
  <2>3. Typed'
    BY <1>1, <2>1, <2>2, SizeIsPositive DEF IInv, Typed, Sending
  <2>4. WritesStayInTheBuffer'
    <3>1. Size' = Size
      BY DEF Size
    <3> QED
      BY <2>2, <3>1, SizeIsPositive DEF WritesStayInTheBuffer
  <2>5. BufferHoldsColors'
    BY <2>1 DEF BufferHoldsColors, Corrected
  <2> QED
    BY <2>3, <2>4, <2>5 DEF IInv
<1> QED
  BY <1>2, <1>3 DEF IInv, Typed

LEMMA InitIInv == Init => IInv
<1> SUFFICES ASSUME Init PROVE IInv
  OBVIOUS
<1>1. AllOf(Black) \in [LEDs -> Colors] /\ AllOf(Gamma[Black]) \in [LEDs -> Levels]
  BY ColorsAssumption, UniformColors
<1>2. AllOf(Gamma[Black]) = Corrected(AllOf(Black))
  BY ColorsAssumption, UniformColors
<1>3. Typed
  BY <1>1, SizeIsPositive DEF Init, Typed, Sending
<1>4. WritesStayInTheBuffer
  BY SizeIsPositive DEF Init, WritesStayInTheBuffer
<1>5. BufferHoldsColors
  BY <1>2 DEF Init, BufferHoldsColors
<1> QED
  BY <1>3, <1>4, <1>5 DEF IInv

\* The colours and the pixels are left alone by every step of write_all.
LEMMA WriteKeepsIInv ==
    ASSUME IInv, Write \/ WriteFails
    PROVE  IInv'
<1>1. UNCHANGED <<initialized, colors, pixels>> /\ pc \in Sending
  BY DEF Write, WriteFails, WriteTooLong, WriteSome
<1>2. BufferHoldsColors'
  BY <1>1 DEF IInv, BufferHoldsColors, Corrected
<1>3. sent \in Nat /\ attempt \in 1..Size - sent /\ Size' = Size
  BY <1>1 DEF IInv, Typed, WritesStayInTheBuffer, Size
<1>4. CASE WriteTooLong
  <2>1. attempt' = attempt \div 2 /\ sent' = sent /\ pc' = pc /\ attempt > MaxWrite
    BY <1>4 DEF WriteTooLong
  <2>2. attempt' \in 1..Size - sent'
    BY <1>3, <2>1, StripAssumption, SizeIsPositive
  <2>3. Typed' /\ WritesStayInTheBuffer'
    BY <1>1, <1>3, <2>1, <2>2, SizeIsPositive DEF IInv, Typed, WritesStayInTheBuffer
  <2> QED
    BY <1>2, <2>3 DEF IInv
<1>5. CASE \E n \in 1..Size : WriteSome(n)
  <2> PICK n \in 1..Size : WriteSome(n)
    BY <1>5
  <2>1. n =< attempt /\ sent' = sent + n
    BY DEF WriteSome
  <2>2. attempt' = IF attempt > Size - sent' THEN Size - sent' ELSE attempt
    BY DEF WriteSome
  <2>3. sent' \in Nat /\ attempt' \in Nat
    BY <1>3, <2>1, <2>2, SizeIsPositive
  <2>4. pc' \in Sending \union {"ready", "destroyed"}
    BY <1>1 DEF WriteSome, Return, Sending
  <2>5. Typed'
    BY <1>1, <2>3, <2>4 DEF IInv, Typed
  <2>6. pc' \in Sending => sent' # Size
    BY DEF WriteSome, Return, Sending
  <2>7. sent' # Size => attempt' \in 1..Size - sent'
    BY <1>3, <2>1, <2>2, SizeIsPositive
  <2>8. WritesStayInTheBuffer'
    BY <1>3, <2>6, <2>7 DEF WritesStayInTheBuffer, Sending
  <2> QED
    BY <1>2, <2>5, <2>8 DEF IInv
<1>6. CASE WriteFails
  <2>1. pc' \in {"ready", "destroyed"} /\ sent' = sent /\ attempt' = attempt
    BY <1>6 DEF WriteFails, Return
  <2>2. Typed' /\ WritesStayInTheBuffer'
    BY <1>1, <2>1 DEF IInv, Typed, WritesStayInTheBuffer, Sending
  <2> QED
    BY <1>2, <2>2 DEF IInv
<1> QED
  BY <1>4, <1>5, <1>6 DEF Write

LEMMA NextIInv == IInv /\ [Next]_vars => IInv'
<1> SUFFICES ASSUME IInv, [Next]_vars PROVE IInv'
  OBVIOUS
<1>0. colors \in [LEDs -> Colors] /\ (initialized => pixels = Corrected(colors))
  BY DEF IInv, Typed, BufferHoldsColors
<1>1. CASE Blank
  BY <1>1, ColorsAssumption, UniformColors, ShowKeepsIInv DEF Blank
<1>2. ASSUME NEW color \in Colors, Fill(color) PROVE IInv'
  BY <1>2, UniformColors, ShowKeepsIInv DEF Fill
<1>3. ASSUME NEW idx \in 0..NB_LEDS, NEW color \in Colors, SetLed(idx, color) PROVE IInv'
  <2>1. idx \in LEDs
    BY <1>3, StripAssumption DEF SetLed, LEDs
  <2>2. [colors EXCEPT ![idx] = color] \in [LEDs -> Colors]
    BY <1>0, <2>1, OneColorMore
  <2>3. ASSUME initialized
        PROVE  [pixels EXCEPT ![idx] = Gamma[color]] = Corrected([colors EXCEPT ![idx] = color])
    <3>1. pixels = Corrected(colors)
      BY <1>0, <2>3
    <3>2. [Corrected(colors) EXCEPT ![idx] = Gamma[color]]
              = Corrected([colors EXCEPT ![idx] = color])
      BY <1>0, <2>1, ColorsAssumption DEF Corrected
    <3> QED
      BY <3>1, <3>2, Zenon
  <2> QED
    BY <1>3, <2>2, <2>3, ShowKeepsIInv DEF SetLed
<1>4. ASSUME NEW cs \in [LEDs -> Colors], SetColors(cs) PROVE IInv'
  BY <1>4, ShowKeepsIInv DEF SetColors
<1>5. CASE Destroy
  <2>1. CASE initialized
    <3>1. colors' = AllOf(Black) /\ pixels' = AllOf(Gamma[Black]) /\ initialized' = initialized
      BY <1>5, <2>1 DEF Destroy, SendBuffer
    <3>2. pc' = "closing" /\ sent' = 0 /\ attempt' = Size
      BY <1>5, <2>1 DEF Destroy, SendBuffer
    <3>3. /\ AllOf(Black) \in [LEDs -> Colors]
          /\ AllOf(Gamma[Black]) \in [LEDs -> Levels]
          /\ AllOf(Gamma[Black]) = Corrected(AllOf(Black))
      BY ColorsAssumption, UniformColors
    <3>4. Typed'
      BY <3>1, <3>2, <3>3, SizeIsPositive DEF IInv, Typed, Sending
    <3>5. WritesStayInTheBuffer'
      <4>1. Size' = Size
        BY DEF Size
      <4> QED
        BY <3>2, <4>1, SizeIsPositive DEF WritesStayInTheBuffer
    <3>6. BufferHoldsColors'
      BY <3>1, <3>3 DEF BufferHoldsColors, Corrected
    <3> QED
      BY <3>4, <3>5, <3>6 DEF IInv
  <2>2. CASE ~initialized
    BY <1>5, <2>2 DEF Destroy, IInv, Typed, WritesStayInTheBuffer, BufferHoldsColors,
                      Sending, Corrected
  <2> QED
    BY <2>1, <2>2 DEF IInv, Typed
<1>6. CASE Write \/ WriteFails
  BY <1>6, WriteKeepsIInv
<1>7. CASE UNCHANGED vars
  BY <1>7 DEF vars, IInv, Typed, WritesStayInTheBuffer, BufferHoldsColors, Corrected, Size
<1> QED
  BY <1>1, <1>2, <1>3, <1>4, <1>5, <1>6, <1>7 DEF Next

-----------------------------------------------------------------------------
(* The frames of a transfer, one at a time.  The recursion of Latched is      *)
(* unrolled by hand: Nat has no descending chain, so a set of numbers that is *)
(* not empty has a least one, and a property of sets is enough for induction. *)

\* A set of numbers that is not empty has a least one.
LEMMA LeastNumber ==
    ASSUME NEW S \in SUBSET Nat, S # {}
    PROVE  \E n \in S : \A k \in S : n =< k
<1>1. PICK n \in S : \A k \in S : <<k, n>> \notin OpToRel(<, Nat)
  BY WFMin, NatLessThanWellFounded, Zenon
<1>2. \A k \in S : ~(k < n)
  BY <1>1 DEF OpToRel
<1>3. QED
  BY <1>2

\* What holds of 0, and of every number after one it holds of, holds up to n.
LEMMA UpTo ==
    ASSUME NEW n \in Nat, NEW S, 0 \in S, \A k \in 0..n - 1 : k \in S => k + 1 \in S
    PROVE  \A k \in 0..n : k \in S
<1> DEFINE missing == {k \in 0..n : k \notin S}
<1>1. SUFFICES ASSUME missing # {} PROVE FALSE
  OBVIOUS
<1>2. PICK m \in missing : \A k \in missing : m =< k
  <2>1. missing \in SUBSET Nat
    OBVIOUS
  <2> HIDE DEF missing
  <2> QED
    BY <1>1, <2>1, LeastNumber
<1>3. m \in 1..n
  OBVIOUS
<1>4. m - 1 \in 0..n - 1 /\ m - 1 \notin missing
  BY <1>2, <1>3
<1> QED
  BY <1>3, <1>4

\* Latched takes the frames in their order.
LEMMA LatchedIsRecursive ==
    ASSUME NEW c, NEW frames, Len(frames) \in Nat
    PROVE  \E f : /\ f[0] = c
                  /\ \A k \in 1..Len(frames) : f[k] = Latch(f[k - 1], frames[k])
                  /\ f[Len(frames)] = Latched(c, frames)
<1> DEFINE n == Len(frames)
           Value(f, k) == IF k = 0 THEN c ELSE Latch(f[k - 1], frames[k])
           Unrolled(f, m) == f = [k \in 0..m |-> Value(f, k)]
           S == {m \in 0..n : \E f : Unrolled(f, m)}
<1>1. 0 \in S
  <2> DEFINE f == [k \in 0..0 |-> c]
  <2>1. Unrolled(f, 0)
    OBVIOUS
  <2> HIDE DEF f
  <2> QED
    BY <2>1
<1>2. ASSUME NEW m \in 0..n - 1, m \in S PROVE m + 1 \in S
  <2> PICK f : Unrolled(f, m)
    BY <1>2
  <2> DEFINE g == [k \in 0..m + 1 |-> IF k = m + 1 THEN Value(f, k) ELSE f[k]]
  <2>1. \A k \in 0..m : g[k] = f[k] /\ f[k] = Value(f, k)
    OBVIOUS
  <2>2. \A k \in 0..m + 1 : Value(g, k) = Value(f, k)
    <3> TAKE k \in 0..m + 1
    <3>1. CASE k = 0
      BY <3>1
    <3>2. CASE k # 0
      <4>1. k - 1 \in 0..m
        BY <3>2
      <4>2. g[k - 1] = f[k - 1]
        BY <2>1, <4>1
      <4> HIDE DEF g
      <4> QED
        BY <4>2
    <3> QED
      BY <3>1, <3>2
  <2>3. \A k \in 0..m + 1 : g[k] = Value(f, k)
    BY <2>1
  <2>4. Unrolled(g, m + 1)
    <3>1. g = [k \in 0..m + 1 |-> g[k]]
      OBVIOUS
    <3> HIDE DEF g, Value
    <3> QED
      BY <2>2, <2>3, <3>1
  <2> HIDE DEF g, Unrolled
  <2> QED
    BY <2>4
<1>3. n \in S
  <2>1. n \in Nat /\ n \in 0..n
    OBVIOUS
  <2> HIDE DEF n, S
  <2> QED
    BY <1>1, <1>2, <2>1, UpTo
<1>4. PICK g : Unrolled(g, n)
  BY <1>3
<1> DEFINE f == CHOOSE h : h = [k \in 0..n |-> IF k = 0 THEN c ELSE Latch(h[k - 1], frames[k])]
<1>5. Unrolled(f, n)
  BY <1>4
<1>6. Latched(c, frames) = f[n]
  BY DEF Latched
<1>7. f[0] = c /\ \A k \in 1..n : f[k] = Latch(f[k - 1], frames[k])
  <2> HIDE DEF f
  <2> QED
    BY <1>5
<1> HIDE DEF f
<1> QED
  BY <1>6, <1>7

-----------------------------------------------------------------------------
(* What the chips show in the course of a transfer.                          *)

\* The frame of the buffer that last brought the chain back to its first LED, before the pixels.
Origin(s) ==
    IF s >= 3 /\ unset[2] = Reset THEN 3 ELSE IF s >= 2 /\ unset[1] = Reset THEN 2 ELSE 1

Least(a, b) == IF a =< b THEN a ELSE b

\* The LEDs show the frames after o, up to the last of s frames or of the LEDs.
LitFrom(o, c, s) ==
    /\ s =< NB_LEDS + 3 => c.next = Least(NB_LEDS, s - o)
    /\ \A led \in LEDs : led < s - o => c.strip[led] = Buffer[o + 1 + led]

\* After s frames those from Origin on are shown; as soon as all LEDs are lit, none changes.
Lit(c, s) ==
    /\ c \in [strip : [LEDs -> Levels], next : 0..NB_LEDS]
    /\ 1 =< s => LitFrom(Origin(s), c, s)

\* The chips are as far as the transfer, or at the end of one that is over.
ChipsFollow ==
    /\ unset \in [1..3 -> Frames]
    /\ Lit(chips, IF pc \in Sending THEN sent ELSE 0)
    /\ pc \notin Sending /\ initialized /\ result = "sent" => Lit(chips, Size)

\* Two sequences, one after the other.
LEMMA Joined ==
    ASSUME NEW S, NEW a \in Seq(S), NEW b \in Seq(S)
    PROVE  /\ a \o b \in Seq(S)
           /\ Len(a \o b) = Len(a) + Len(b)
           /\ \A i \in 1..Len(a) : (a \o b)[i] = a[i]
           /\ \A i \in 1..Len(b) : (a \o b)[Len(a) + i] = b[i]
<1> DEFINE ab == a \o b
<1>1. /\ ab \in Seq(S)
      /\ Len(ab) = Len(a) + Len(b)
      /\ \A i \in 1..Len(a) + Len(b) : ab[i] = IF i =< Len(a) THEN a[i] ELSE b[i - Len(a)]
  BY ConcatProperties, Zenon
<1>2. Len(a) \in Nat /\ Len(b) \in Nat
  OBVIOUS
<1> HIDE DEF ab
<1>3. ASSUME NEW i \in 1..Len(a) PROVE ab[i] = a[i]
  BY <1>1, <1>2
<1>4. ASSUME NEW i \in 1..Len(b) PROVE ab[Len(a) + i] = b[i]
  <2>1. /\ Len(a) + i \in 1..Len(a) + Len(b)
        /\ ~(Len(a) + i =< Len(a)) /\ Len(a) + i - Len(a) = i
    BY <1>2
  <2> QED
    BY <1>1, <2>1
<1> QED
  BY <1>1, <1>3, <1>4 DEF ab

\* The buffer, frame by frame.
LEMMA BufferFrames ==
    ASSUME unset \in [1..3 -> Frames], pixels \in [LEDs -> Levels]
    PROVE  /\ Buffer \in Seq(Frames) /\ Len(Buffer) = Size
           /\ Buffer[1] = Reset /\ Buffer[2] = unset[1] /\ Buffer[3] = unset[2]
           /\ \A led \in LEDs : Buffer[4 + led] = pixels[led]
           /\ \A k \in NB_LEDS + 5..Size : Buffer[k] = Reset
<1> DEFINE head == <<Reset, unset[1], unset[2]>>
           picture == [i \in 1..NB_LEDS |-> pixels[i - 1]]
           tail == <<unset[3], Reset, Reset>>
<1>1. head \in Seq(Frames) /\ Len(head) = 3
  BY DEF Frames
<1>2. tail \in Seq(Frames) /\ Len(tail) = 3
  BY DEF Frames
<1>3. picture \in Seq(Frames) /\ Len(picture) = NB_LEDS
  <2>1. \A i \in 1..NB_LEDS : i - 1 \in LEDs
    BY StripAssumption DEF LEDs
  <2>2. picture \in [1..NB_LEDS -> Frames]
    BY <2>1 DEF Frames
  <2> QED
    BY <2>2, StripAssumption, SeqDef
<1>4. /\ head[1] = Reset /\ head[2] = unset[1] /\ head[3] = unset[2]
      /\ tail[2] = Reset /\ tail[3] = Reset
  OBVIOUS
<1>5. \A led \in LEDs : led + 1 \in 1..NB_LEDS /\ picture[led + 1] = pixels[led]
  BY StripAssumption DEF LEDs
<1> DEFINE front == head \o picture
<1>6. Buffer = front \o tail
  BY DEF Buffer
<1> HIDE DEF head, picture, tail
<1>7. /\ front \in Seq(Frames) /\ Len(front) = 3 + NB_LEDS
      /\ \A i \in 1..3 : front[i] = head[i]
      /\ \A i \in 1..NB_LEDS : front[3 + i] = picture[i]
  <2>1. /\ front \in Seq(Frames) /\ Len(front) = Len(head) + Len(picture)
        /\ \A i \in 1..Len(head) : front[i] = head[i]
        /\ \A i \in 1..Len(picture) : front[Len(head) + i] = picture[i]
    <3>1. head \in Seq(Frames) /\ picture \in Seq(Frames)
      BY <1>1, <1>3
    <3> QED
      BY <3>1, Joined
  <2> HIDE DEF front
  <2> QED
    BY <1>1, <1>3, <2>1
<1> HIDE DEF front
<1>8. /\ Buffer \in Seq(Frames) /\ Len(Buffer) = 3 + NB_LEDS + 3
      /\ \A i \in 1..3 + NB_LEDS : Buffer[i] = front[i]
      /\ \A i \in 1..3 : Buffer[3 + NB_LEDS + i] = tail[i]
  <2>1. /\ front \o tail \in Seq(Frames) /\ Len(front \o tail) = Len(front) + Len(tail)
        /\ \A i \in 1..Len(front) : (front \o tail)[i] = front[i]
        /\ \A i \in 1..Len(tail) : (front \o tail)[Len(front) + i] = tail[i]
    <3>1. front \in Seq(Frames) /\ tail \in Seq(Frames)
      BY <1>2, <1>7
    <3> QED
      BY <3>1, Joined
  <2> QED
    BY <1>2, <1>6, <1>7, <2>1, Zenon
<1> HIDE DEF Buffer
<1>9. ASSUME NEW k \in NB_LEDS + 5..Size PROVE Buffer[k] = Reset
  <2>1. k = 3 + NB_LEDS + 2 \/ k = 3 + NB_LEDS + 3
    BY StripAssumption DEF Size
  <2>2. Buffer[3 + NB_LEDS + 2] = tail[2] /\ Buffer[3 + NB_LEDS + 3] = tail[3]
    BY <1>8
  <2> QED
    BY <1>4, <2>1, <2>2
<1>10. Buffer[1] = head[1] /\ Buffer[2] = head[2] /\ Buffer[3] = head[3]
  <2>1. \A i \in 1..3 : i \in 1..3 + NB_LEDS
    BY StripAssumption
  <2> QED
    BY <1>7, <1>8, <2>1
<1>11. ASSUME NEW led \in LEDs PROVE Buffer[4 + led] = pixels[led]
  <2>1. 4 + led = 3 + (led + 1) /\ 3 + (led + 1) \in 1..3 + NB_LEDS /\ led + 1 \in 1..NB_LEDS
    BY StripAssumption DEF LEDs
  <2>2. front[3 + (led + 1)] = picture[led + 1]
    BY <1>7, <2>1
  <2>3. Buffer[3 + (led + 1)] = front[3 + (led + 1)]
    BY <1>8, <2>1
  <2> QED
    BY <1>5, <2>1, <2>2, <2>3
<1>12. 3 + NB_LEDS + 3 = Size
  BY StripAssumption DEF Size
<1> QED
  BY <1>4, <1>8, <1>9, <1>10, <1>11, <1>12

LEMMA OriginType == ASSUME NEW s \in Nat PROVE Origin(s) \in 1..3 /\ (s >= 1 => Origin(s) =< s)
BY DEF Origin

\* What a frame does to chips that are as far as s frames.
LEMMA OneFrameMore ==
    ASSUME unset \in [1..3 -> Frames], pixels \in [LEDs -> Levels],
           NEW c, NEW s \in 0..Size - 1, Lit(c, s)
    PROVE  Lit(Latch(c, Buffer[s + 1]), s + 1)
<1> DEFINE t == s + 1
           frame == Buffer[t]
           d == Latch(c, frame)
           o == Origin(t)
<1>0. /\ NB_LEDS \in Nat \ {0} /\ Size = NB_LEDS + 6 /\ LEDs = 0..NB_LEDS - 1
      /\ s \in Nat /\ t = s + 1 /\ t \in 1..Size
  BY StripAssumption DEF Size, LEDs
<1>1. frame \in Frames
  BY <1>0, BufferFrames
<1>2. /\ c \in [strip : [LEDs -> Levels], next : 0..NB_LEDS]
      /\ 1 =< s /\ s =< NB_LEDS + 3 => c.next = Least(NB_LEDS, s - Origin(s))
      /\ 1 =< s => \A led \in LEDs : led < s - Origin(s) => c.strip[led] = Buffer[Origin(s) + 1 + led]
  BY <1>0 DEF Lit, LitFrom
<1>3. frame = Reset => d.strip = c.strip /\ d.next = 0
  BY <1>2 DEF Latch
<1>4. frame # Reset /\ c.next < NB_LEDS
        => d.strip = [c.strip EXCEPT ![c.next] = frame] /\ d.next = c.next + 1
  BY DEF Latch
<1>5. frame # Reset /\ ~(c.next < NB_LEDS) => d = c
  BY DEF Latch
<1>6. d \in [strip : [LEDs -> Levels], next : 0..NB_LEDS]
  <2>1. CASE frame = Reset
    BY <1>0, <1>2, <2>1 DEF Latch
  <2>2. CASE frame # Reset /\ c.next < NB_LEDS
    <3>1. frame \in Levels /\ c.next \in LEDs /\ c.next + 1 \in 0..NB_LEDS
      BY <1>0, <1>1, <1>2, <2>2 DEF Frames
    <3>2. [c.strip EXCEPT ![c.next] = frame] \in [LEDs -> Levels]
      BY <1>2, <3>1
    <3> QED
      BY <2>2, <3>1, <3>2 DEF Latch
  <2>3. CASE frame # Reset /\ ~(c.next < NB_LEDS)
    BY <1>2, <1>5, <2>3
  <2> QED
    BY <2>1, <2>2, <2>3
<1>7. o \in 1..3 /\ o =< t /\ (s >= 1 => Origin(s) \in 1..3 /\ Origin(s) =< s)
  BY <1>0, OriginType
<1> HIDE DEF d, frame, o, t
<1> SUFFICES /\ t =< NB_LEDS + 3 => d.next = Least(NB_LEDS, t - o)
             /\ \A led \in LEDs : led < t - o => d.strip[led] = Buffer[o + 1 + led]
  <2>1. Lit(d, t)
    BY <1>6 DEF Lit, LitFrom, o
  <2> QED
    BY <2>1 DEF d, frame, t
<1>9. CASE s < 3 /\ frame = Reset
  <2>1. o = t
    BY <1>0, <1>9, BufferFrames DEF o, Origin, frame
  <2>2. \A led \in LEDs : ~(led < t - o)
    BY <1>0, <2>1
  <2> QED
    BY <1>0, <1>3, <1>9, <2>1, <2>2 DEF Least
<1>10. CASE s =< NB_LEDS + 2 /\ frame # Reset
  <2>1. s >= 1 /\ o = Origin(s)
    BY <1>0, <1>10, BufferFrames DEF o, Origin, frame
  <2>2. c.next = Least(NB_LEDS, s - o) /\ o \in 1..3 /\ o =< s
    BY <1>0, <1>2, <1>7, <1>10, <2>1
  <2>3. CASE s - o < NB_LEDS
    <3>1. c.next = s - o
      BY <1>0, <2>2, <2>3 DEF Least
    <3>2. d.strip = [c.strip EXCEPT ![s - o] = frame] /\ d.next = s - o + 1
      BY <1>0, <1>4, <1>10, <2>3, <3>1
    <3>3. d.next = Least(NB_LEDS, t - o)
      BY <1>0, <2>2, <2>3, <3>2 DEF Least
    <3>4. ASSUME NEW led \in LEDs, led < t - o PROVE d.strip[led] = Buffer[o + 1 + led]
      <4>1. c.strip \in [LEDs -> Levels]
        BY <1>2
      <4>2. CASE led = s - o
        <5>1. d.strip[led] = frame
          BY <3>2, <4>1, <4>2
        <5>2. o + 1 + led = t
          BY <1>0, <2>2, <4>2
        <5> QED
          BY <5>1, <5>2 DEF frame
      <4>3. CASE led # s - o
        <5>1. led < s - o
          BY <1>0, <2>2, <3>4, <4>3
        <5>2. d.strip[led] = c.strip[led]
          BY <3>2, <4>1, <4>3
        <5> QED
          BY <1>2, <2>1, <5>1, <5>2
      <4> QED
        BY <4>2, <4>3
    <3> QED
      BY <3>3, <3>4
  <2>4. CASE ~(s - o < NB_LEDS)
    <3>1. c.next = NB_LEDS
      BY <1>0, <2>2, <2>4 DEF Least
    <3>2. d = c
      BY <1>0, <1>5, <1>10, <3>1
    <3>3. d.next = Least(NB_LEDS, t - o)
      BY <1>0, <2>2, <2>4, <3>1, <3>2 DEF Least
    <3>4. \A led \in LEDs : led < s - o
      BY <1>0, <2>2, <2>4
    <3> QED
      BY <1>2, <2>1, <3>2, <3>3, <3>4
  <2> QED
    BY <2>3, <2>4
<1>11. CASE s \in 3..NB_LEDS + 2 /\ frame = Reset
  <2>1. s - 3 \in LEDs /\ 4 + (s - 3) = t
    BY <1>0, <1>11
  <2>2. frame = pixels[s - 3]
    <3>1. Buffer[4 + (s - 3)] = pixels[s - 3]
      BY <2>1, BufferFrames
    <3> QED
      BY <2>1, <3>1 DEF frame
  <2> QED
    BY <1>11, <2>1, <2>2, ColorsAssumption
<1>12. CASE s > NB_LEDS + 2
  <2>1. s >= 3 /\ o = Origin(s) /\ o \in 1..3
    BY <1>0, <1>7, <1>12 DEF o, Origin
  <2>2. \A led \in LEDs : led < s - Origin(s)
    BY <1>0, <1>12, <2>1
  <2>3. d.strip = c.strip
    <3>1. CASE s = NB_LEDS + 3
      <4>1. c.next = NB_LEDS
        BY <1>0, <1>2, <2>1, <3>1 DEF Least
      <4> QED
        BY <1>0, <1>3, <1>5, <4>1
    <3>2. CASE s > NB_LEDS + 3
      <4>1. t \in NB_LEDS + 5..Size
        BY <1>0, <3>2
      <4> QED
        BY <1>3, <4>1, BufferFrames DEF frame
    <3> QED
      BY <1>0, <1>12, <3>1, <3>2
  <2> QED
    BY <1>0, <1>2, <1>12, <2>1, <2>2, <2>3
<1> QED
  BY <1>0, <1>9, <1>10, <1>11, <1>12

\* A write of n frames takes the chips n frames further.
LEMMA SomeFramesMore ==
    ASSUME unset \in [1..3 -> Frames], pixels \in [LEDs -> Levels],
           NEW c, NEW s \in Nat, NEW n \in Nat, s + n =< Size, Lit(c, s)
    PROVE  Lit(Latched(c, SubSeq(Buffer, s + 1, s + n)), s + n)
<1> DEFINE frames == SubSeq(Buffer, s + 1, s + n)
<1>0. Size \in Nat
  BY SizeIsPositive
<1>1. Len(frames) = n /\ \A k \in 1..n : frames[k] = Buffer[s + k]
  <2>1. \A i \in s + 1..s + n : Buffer[i] \in Frames
    BY <1>0, BufferFrames
  <2>2. /\ Len(frames) = IF s + 1 =< s + n THEN s + n - (s + 1) + 1 ELSE 0
        /\ \A k \in 1..s + n - (s + 1) + 1 : frames[k] = Buffer[s + 1 + k - 1]
    <3>1. s + 1 \in Int /\ s + n \in Int
      OBVIOUS
    <3> QED
      BY <2>1, <3>1, SubSeqProperties
  <2> HIDE DEF frames
  <2> QED
    BY <2>2
<1> HIDE DEF frames
<1>2. PICK f : /\ f[0] = c
               /\ \A k \in 1..n : f[k] = Latch(f[k - 1], frames[k])
               /\ f[n] = Latched(c, frames)
  BY <1>1, LatchedIsRecursive
<1> DEFINE S == {k \in 0..n : Lit(f[k], s + k)}
<1>3. 0 \in S
  BY <1>2
<1>4. ASSUME NEW k \in 0..n - 1, k \in S PROVE k + 1 \in S
  <2>1. s + k \in 0..Size - 1 /\ k + 1 \in 1..n /\ s + (k + 1) = s + k + 1
    BY <1>0
  <2>2. f[k + 1] = Latch(f[k], Buffer[s + k + 1])
    <3>1. k + 1 - 1 = k
      OBVIOUS
    <3> QED
      BY <1>1, <1>2, <2>1, <3>1
  <2>3. Lit(Latch(f[k], Buffer[s + k + 1]), s + k + 1)
    BY <1>4, <2>1, OneFrameMore
  <2> QED
    BY <2>1, <2>2, <2>3
<1>5. n \in S
  <2> HIDE DEF S
  <2> QED
    BY <1>3, <1>4, UpTo
<1> QED
  BY <1>2, <1>5 DEF frames

\* An operation on the colours leaves the chips alone, and a new transfer has all to show.
LEMMA ShowKeepsChips ==
    ASSUME ChipsFollow, IInv,
           UNCHANGED <<unset, chips, result>>,
           \/ pc' \in Sending /\ sent' = 0 /\ pc \notin Sending
           \/ UNCHANGED <<pc, initialized, pixels>> /\ pc \notin Sending
    PROVE  ChipsFollow'
<1>1. Lit(chips, 0) /\ unset \in [1..3 -> Frames]
  BY DEF ChipsFollow
<1>2. Lit(chips, 0)'
  BY <1>1 DEF Lit
<1>3. CASE pc' \in Sending /\ sent' = 0
  BY <1>1, <1>2, <1>3 DEF ChipsFollow
<1>4. CASE UNCHANGED <<pc, initialized, pixels>> /\ pc \notin Sending
  <2>1. Lit(chips, Size) => Lit(chips, Size)'
    BY <1>4 DEF Lit, LitFrom, Origin, Buffer, Size
  <2> QED
    BY <1>1, <1>2, <1>4, <2>1 DEF ChipsFollow
<1> QED
  BY <1>3, <1>4

\* A write takes the chips as far as the transfer, and the last one to its end.
LEMMA WriteKeepsChips ==
    ASSUME ChipsFollow, IInv, Write \/ WriteFails
    PROVE  ChipsFollow'
<1>1. UNCHANGED <<initialized, pixels, unset>> /\ pc \in Sending
  BY DEF Write, WriteFails, WriteTooLong, WriteSome
<1>2. unset \in [1..3 -> Frames] /\ pixels \in [LEDs -> Levels] /\ Lit(chips, sent) /\ Lit(chips, 0)
  BY <1>1 DEF ChipsFollow, IInv, Typed, Lit
<1>3. Buffer' = Buffer /\ Size' = Size /\ \A s : Origin(s)' = Origin(s)
  BY <1>1 DEF Buffer, Size, Origin
<1>4. CASE WriteTooLong \/ WriteFails
  <2>1. UNCHANGED <<chips, sent>> /\ (pc' \notin Sending => result' = "failed")
    BY <1>4 DEF WriteTooLong, WriteFails, Return, Sending
  <2>2. Lit(chips, sent)' /\ Lit(chips, 0)'
    BY <1>2, <1>3, <2>1 DEF Lit, LitFrom
  <2> QED
    BY <1>1, <1>2, <2>1, <2>2 DEF ChipsFollow
<1>5. ASSUME NEW n \in 1..Size, WriteSome(n) PROVE ChipsFollow'
  <2>1. /\ chips' = Latched(chips, SubSeq(Buffer, sent + 1, sent + n))
        /\ sent' = sent + n
        /\ pc' \notin Sending /\ result' = "sent" => sent' = Size
    <3>1. sent' # Size => pc' = pc
      BY <1>5 DEF WriteSome
    <3> QED
      BY <1>1, <1>5, <3>1 DEF WriteSome
  <2>2. sent \in Nat /\ n \in Nat /\ sent + n =< Size
    <3>1. sent \in Nat /\ attempt \in 1..Size - sent /\ n =< attempt
      BY <1>1, <1>5 DEF IInv, Typed, WritesStayInTheBuffer, WriteSome
    <3> QED
      BY <3>1, SizeIsPositive
  <2>3. Lit(chips', sent')
    BY <1>2, <2>1, <2>2, SomeFramesMore
  <2>4. Lit(chips, sent)' /\ Lit(chips, 0)'
    BY <1>3, <2>3 DEF Lit, LitFrom
  <2>5. sent' = Size => Lit(chips, Size)'
    BY <1>3, <2>4 DEF Lit, LitFrom
  <2> QED
    BY <1>1, <1>2, <2>1, <2>4, <2>5 DEF ChipsFollow
<1> QED
  BY <1>4, <1>5 DEF Write

LEMMA InitChips == Init => ChipsFollow
<1> SUFFICES ASSUME Init PROVE ChipsFollow
  OBVIOUS
<1>1. chips \in [strip : [LEDs -> Levels], next : 0..NB_LEDS]
  BY StripAssumption DEF Init, AllOf
<1>2. Lit(chips, 0)
  BY <1>1 DEF Lit
<1> QED
  BY <1>2 DEF Init, ChipsFollow, Sending

LEMMA NextChips == ChipsFollow /\ IInv /\ [Next]_vars => ChipsFollow'
<1> SUFFICES ASSUME ChipsFollow, IInv, [Next]_vars PROVE ChipsFollow'
  OBVIOUS
<1>1. ASSUME NEW cs, NEW px, Show(cs, px) PROVE ChipsFollow'
  BY <1>1, ShowKeepsChips DEF Show, SendBuffer, Sending
<1>2. CASE Blank
  BY <1>1, <1>2 DEF Blank
<1>3. ASSUME NEW color \in Colors, Fill(color) PROVE ChipsFollow'
  BY <1>1, <1>3 DEF Fill
<1>4. ASSUME NEW idx \in 0..NB_LEDS, NEW color \in Colors, SetLed(idx, color)
      PROVE  ChipsFollow'
  BY <1>1, <1>4 DEF SetLed
<1>5. ASSUME NEW cs \in [LEDs -> Colors], SetColors(cs) PROVE ChipsFollow'
  BY <1>1, <1>5 DEF SetColors
<1>6. CASE Destroy
  <2>1. CASE initialized
    BY <1>6, <2>1, ShowKeepsChips DEF Destroy, SendBuffer, Sending
  <2>2. CASE ~initialized
    BY <1>6, <2>2 DEF Destroy, ChipsFollow, Lit, LitFrom, Sending, Origin, Buffer
  <2> QED
    BY <2>1, <2>2 DEF IInv, Typed
<1>7. CASE Write \/ WriteFails
  BY <1>7, WriteKeepsChips
<1>8. CASE UNCHANGED vars
  BY <1>8 DEF vars, ChipsFollow, Lit, LitFrom, Origin, Buffer, Size
<1> QED
  BY <1>2, <1>3, <1>4, <1>5, <1>6, <1>7, <1>8 DEF Next

\* Chips at the end of a transfer show what SentIsShown says.
LEMMA ChipsShowTheColors == ChipsFollow /\ IInv => SentIsShown
<1> SUFFICES ASSUME ChipsFollow, IInv, pc \notin Sending, initialized, result = "sent"
             PROVE  chips.strip = [i \in LEDs |->
                       IF i < Len(Leading) THEN Leading[i + 1]
                       ELSE Gamma[colors[i - Len(Leading)]]]
  BY DEF SentIsShown
<1>0. NB_LEDS \in Nat \ {0} /\ Size = NB_LEDS + 6 /\ LEDs = 0..NB_LEDS - 1
  BY StripAssumption DEF Size, LEDs
<1>1. unset \in [1..3 -> Frames] /\ Lit(chips, Size)
  BY DEF ChipsFollow
<1>2. pixels \in [LEDs -> Levels] /\ pixels = Corrected(colors)
  BY DEF IInv, Typed, BufferHoldsColors
<1> DEFINE o == Origin(Size)
<1>3. o \in 1..3 /\ Len(Leading) = 3 - o
  BY <1>0, <1>1 DEF Origin, Leading
<1>4. \A i \in 1..3 - o : Leading[i] = Buffer[o + i]
  BY <1>0, <1>1, <1>2, BufferFrames DEF Origin, Leading
<1> HIDE DEF o
<1>5. chips.strip \in [LEDs -> Levels]
  BY <1>1 DEF Lit
<1>6. ASSUME NEW led \in LEDs PROVE chips.strip[led] = Buffer[o + 1 + led]
  <2>1. led < Size - o /\ 1 =< Size
    BY <1>0, <1>3
  <2> QED
    BY <1>1, <2>1 DEF Lit, LitFrom, o
<1>7. ASSUME NEW led \in LEDs
      PROVE  chips.strip[led] = IF led < Len(Leading) THEN Leading[led + 1]
                                ELSE Gamma[colors[led - Len(Leading)]]
  <2>1. CASE led < 3 - o
    <3>1. led + 1 \in 1..3 - o /\ o + (led + 1) = o + 1 + led
      BY <1>0, <1>3, <2>1
    <3>2. Leading[led + 1] = Buffer[o + 1 + led]
      BY <1>4, <3>1
    <3> QED
      BY <1>3, <1>6, <2>1, <3>2
  <2>2. CASE ~(led < 3 - o)
    <3>1. led - (3 - o) \in LEDs /\ 4 + (led - (3 - o)) = o + 1 + led
      BY <1>0, <1>3, <2>2
    <3>2. Buffer[o + 1 + led] = pixels[led - (3 - o)]
      BY <1>1, <1>2, <3>1, BufferFrames
    <3>3. pixels[led - (3 - o)] = Gamma[colors[led - (3 - o)]]
      BY <1>2, <3>1 DEF Corrected
    <3> QED
      BY <1>3, <1>6, <2>2, <3>2, <3>3
  <2> QED
    BY <2>1, <2>2
<1> QED
  BY <1>5, <1>7

-----------------------------------------------------------------------------
THEOREM Invariance == Spec => []IInv
BY InitIInv, NextIInv, PTL DEF Spec

(* write_all never asks the driver for bytes past the end of the buffer, and *)
(* never for none, so a turn of its loop always makes progress.              *)
THEOREM WritesAreBounded == Spec => []WritesStayInTheBuffer
<1>1. IInv => WritesStayInTheBuffer
  BY DEF IInv
<1> QED
  BY <1>1, Invariance, PTL

(* What set(ColorSet) compares with is what the buffer holds.                *)
THEOREM BufferIsUpToDate == Spec => []BufferHoldsColors
<1>1. IInv => BufferHoldsColors
  BY DEF IInv
<1> QED
  BY <1>1, Invariance, PTL

(* The picture is on the strip after every transfer that was not given up,   *)
(* whatever happened to the ones before it and however the driver cut it;    *)
(* only what malloc left before the pixels shifts it.                        *)
THEOREM SentColorsAreShown == Spec => []SentIsShown
<1>1. Init => ChipsFollow
  BY InitChips
<1>2. ChipsFollow /\ IInv /\ [Next]_vars => ChipsFollow'
  BY NextChips
<1>3. ChipsFollow /\ IInv => SentIsShown
  BY ChipsShowTheColors
<1> QED
  BY <1>1, <1>2, <1>3, Invariance, PTL DEF Spec
=============================================================================
