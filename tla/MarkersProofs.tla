---------------------------- MODULE MarkersProofs ----------------------------
(***************************************************************************)
(* For every set of patterns, every resolution, and whatever the camera    *)
(* reads: what find_markers returns are known markers, with an identity    *)
(* and an orientation that were set.  The heart of it is that Best names   *)
(* one of the near markers: of the ranks of the near markers, by score     *)
(* first and by id second, one is the least.                               *)
(***************************************************************************)
EXTENDS Markers, FiniteSetTheorems, WellFoundedInduction, TLAPS

\* A marker that is about to be kept is complete as well.
Complete(m) == m.valid => m.id \in Ids /\ m.theta # "unset"

IInv ==
    /\ TypeOK
    /\ pc \in {"unfold", "unfolded"} => circles > 0
    /\ Complete(marker)
    /\ ReturnedMarkersAreKnown

-----------------------------------------------------------------------------
\* The score of a marker is a number: patterns are finite.
LEMMA ScoreType ==
    ASSUME NEW encoded \in SUBSET (0..RADIUS_RESOLUTION), NEW id \in Ids
    PROVE  Score(encoded, id) \in Nat
<1>1. SymDiff(encoded, MARKERS[id]) \subseteq 0..RADIUS_RESOLUTION
  <2>1. MARKERS[id] \subseteq 0..RADIUS_RESOLUTION - 1
    BY MarkersAssumption DEF Patterns
  <2>2. 0..RADIUS_RESOLUTION - 1 \subseteq 0..RADIUS_RESOLUTION
    BY ResolutionAssumption
  <2>3. QED
    BY <2>1, <2>2 DEF SymDiff
<1>2. IsFiniteSet(0..RADIUS_RESOLUTION)
  BY FS_Interval, ResolutionAssumption
<1>3. IsFiniteSet(SymDiff(encoded, MARKERS[id]))
  BY <1>1, <1>2, FS_Subset
<1>4. QED
  BY <1>3, FS_CardinalityType DEF Score

\* A set of numbers that is not empty has a least one.
LEMMA LeastNumber ==
    ASSUME NEW S \in SUBSET Nat, S # {}
    PROVE  \E n \in S : \A k \in S : n =< k
<1>1. PICK n \in S : \A k \in S : <<k, n>> \notin OpToRel(<, Nat)
  BY WFMin, NatLessThanWellFounded, Zenon
<1>2. \A k \in S : ~(k < n)
  BY <1>1 DEF OpToRel
<1>3. QED
  BY <1>2

\* Best is one of the near markers, when there is one.
LEMMA BestIsNear ==
    ASSUME NEW encoded \in SUBSET (0..RADIUS_RESOLUTION), Near(encoded) # {}
    PROVE  Best(encoded) \in Near(encoded)
<1> DEFINE rank(id) == 256 * Score(encoded, id) + id
           ranks == {rank(id) : id \in Near(encoded)}
           Better(id) == \A other \in Near(encoded) :
                            \/ Score(encoded, id) < Score(encoded, other)
                            \/ Score(encoded, id) = Score(encoded, other) /\ id =< other
<1>1. \A id \in Near(encoded) : id \in Ids /\ id \in 1..255 /\ Score(encoded, id) \in Nat
  BY ScoreType, MarkersAssumption DEF Near
<1>2. ranks \in SUBSET Nat /\ ranks # {}
  <2>1. \A id \in Near(encoded) : rank(id) \in Nat
    BY <1>1
  <2>2. QED
    BY <2>1
<1> HIDE DEF ranks
<1>3. PICK n \in ranks : \A k \in ranks : n =< k
  BY <1>2, LeastNumber
<1>4. PICK best \in Near(encoded) : \A other \in Near(encoded) : rank(best) =< rank(other)
  BY <1>3 DEF ranks
<1>5. Better(best)
  <2> SUFFICES ASSUME NEW other \in Near(encoded)
               PROVE  \/ Score(encoded, best) < Score(encoded, other)
                      \/ Score(encoded, best) = Score(encoded, other) /\ best =< other
    OBVIOUS
  <2>1. 256 * Score(encoded, best) + best =< 256 * Score(encoded, other) + other
    BY <1>4
  <2>2. /\ best \in 1..255 /\ other \in 1..255
        /\ Score(encoded, best) \in Nat /\ Score(encoded, other) \in Nat
    BY <1>1
  <2>3. QED
    BY <2>1, <2>2
<1>6. Best(encoded) = CHOOSE id \in Near(encoded) : Better(id)
  BY DEF Best
<1> HIDE DEF Better
<1>7. QED
  BY <1>5, <1>6

\* What unfold_circle leaves is a Marker, complete if it is valid.
LEMMA UnfoldedFacts ==
    ASSUME NEW read \in [Radii -> Levels], NEW m \in Unfolded(read)
    PROVE  m \in Markers /\ Complete(m)
<1>1. CASE TooFuzzy(read) \/ Near(Encoded(read)) = {}
  <2>1. m = [valid |-> FALSE, id |-> 0, theta |-> "unset"]
    BY <1>1 DEF Unfolded, Empty
  <2>2. QED
    BY <2>1 DEF Markers, Complete
<1>2. CASE ~(TooFuzzy(read) \/ Near(Encoded(read)) = {})
  <2>1. PICK angle \in Angles(read) :
            m = [valid |-> TRUE, id |-> Best(Encoded(read)), theta |-> angle]
    BY <1>2 DEF Unfolded
  <2>2. angle \in {"angle", "nan"}
    BY DEF Angles
  <2>3. Encoded(read) \in SUBSET (0..RADIUS_RESOLUTION)
    BY ResolutionAssumption DEF Encoded, ReadBlack, Radii
  <2>4. Best(Encoded(read)) \in Ids
    BY <1>2, <2>3, BestIsNear DEF Near
  <2>5. Best(Encoded(read)) \in 0..255
    <3>1. 1..255 \subseteq 0..255
      OBVIOUS
    <3>2. Ids \subseteq 1..255
      BY MarkersAssumption
    <3>3. QED
      BY <2>4, <3>1, <3>2, Zenon
  <2>6. QED
    BY <2>1, <2>2, <2>4, <2>5 DEF Markers, Complete
<1>3. QED
  BY <1>1, <1>2

\* Whatever the bound on the faults, a reading gives every radius a level.
LEMMA ReadingsType == \A what : Readings(what) \subseteq [Radii -> Levels]
BY DEF Readings, Levels

-----------------------------------------------------------------------------
(* Telling the markers apart.                                               *)

LEMMA MarkerFacts ==
    ASSUME NEW id \in Ids
    PROVE  /\ MARKERS[id] \subseteq 0..RADIUS_RESOLUTION - 1
           /\ Shifted(id) \in SUBSET (0..RADIUS_RESOLUTION)
           /\ PaintedBlack(id) \subseteq Radii
<1>1. MARKERS[id] \subseteq 0..RADIUS_RESOLUTION - 1
  BY MarkersAssumption DEF Patterns
<1>2. Shifted(id) \in SUBSET (0..RADIUS_RESOLUTION)
  BY <1>1, ResolutionAssumption DEF Shifted
<1>3. QED
  BY <1>1, <1>2 DEF PaintedBlack

\* A bit of what is read, and of what would be read of a marker, by its radius.
LEMMA EncodedBits ==
    ASSUME NEW id \in Ids, NEW read, NEW bit
    PROVE  /\ bit \in Encoded(read) <=>
                  bit \in 1..RADIUS_RESOLUTION /\ RADIUS_RESOLUTION - bit \in ReadBlack(read)
           /\ bit \in Shifted(id) <=>
                  bit \in 1..RADIUS_RESOLUTION /\ RADIUS_RESOLUTION - bit \in PaintedBlack(id)
<1>1. bit \in Encoded(read) <=>
          bit \in 1..RADIUS_RESOLUTION /\ RADIUS_RESOLUTION - bit \in ReadBlack(read)
  <2>1. ReadBlack(read) \subseteq 0..RADIUS_RESOLUTION - 1
    BY DEF ReadBlack, Radii
  <2>2. ASSUME bit \in Encoded(read)
        PROVE  bit \in 1..RADIUS_RESOLUTION /\ RADIUS_RESOLUTION - bit \in ReadBlack(read)
    <3>1. PICK i \in ReadBlack(read) : bit = RADIUS_RESOLUTION - i
      BY <2>2 DEF Encoded
    <3>2. i \in 0..RADIUS_RESOLUTION - 1 /\ RADIUS_RESOLUTION - bit = i
      BY <2>1, <3>1, ResolutionAssumption
    <3>3. QED
      BY <3>1, <3>2, ResolutionAssumption
  <2>3. ASSUME bit \in 1..RADIUS_RESOLUTION, RADIUS_RESOLUTION - bit \in ReadBlack(read)
        PROVE  bit \in Encoded(read)
    <3>1. bit = RADIUS_RESOLUTION - (RADIUS_RESOLUTION - bit)
      BY <2>3, ResolutionAssumption
    <3>2. QED
      BY <2>3, <3>1 DEF Encoded
  <2>4. QED
    BY <2>2, <2>3
<1>2. bit \in Shifted(id) <=>
          bit \in 1..RADIUS_RESOLUTION /\ RADIUS_RESOLUTION - bit \in PaintedBlack(id)
  <2>1. PaintedBlack(id) = {i \in Radii : RADIUS_RESOLUTION - 1 - i \in MARKERS[id]}
    BY DEF PaintedBlack
  <2>2. ASSUME bit \in Shifted(id)
        PROVE  bit \in 1..RADIUS_RESOLUTION /\ RADIUS_RESOLUTION - bit \in PaintedBlack(id)
    <3>1. PICK i \in MARKERS[id] : bit = i + 1
      BY <2>2 DEF Shifted
    <3>2. i \in 0..RADIUS_RESOLUTION - 1
      BY MarkerFacts
    <3>3. /\ bit \in 1..RADIUS_RESOLUTION /\ RADIUS_RESOLUTION - bit \in Radii
          /\ RADIUS_RESOLUTION - 1 - (RADIUS_RESOLUTION - bit) = i
      BY <3>1, <3>2, ResolutionAssumption DEF Radii
    <3>4. QED
      BY <2>1, <3>1, <3>3
  <2>3. ASSUME bit \in 1..RADIUS_RESOLUTION, RADIUS_RESOLUTION - bit \in PaintedBlack(id)
        PROVE  bit \in Shifted(id)
    <3>1. RADIUS_RESOLUTION - 1 - (RADIUS_RESOLUTION - bit) \in MARKERS[id]
      BY <2>1, <2>3
    <3>2. bit - 1 = RADIUS_RESOLUTION - 1 - (RADIUS_RESOLUTION - bit) /\ bit = bit - 1 + 1
      BY <2>3, ResolutionAssumption
    <3>3. QED
      BY <3>1, <3>2 DEF Shifted
  <2>4. QED
    BY <2>2, <2>3
<1>3. QED
  BY <1>1, <1>2

\* One bit more or less moves every score by one.
LEMMA ScoreMovesByOne ==
    ASSUME NEW encoded \in SUBSET (0..RADIUS_RESOLUTION), NEW bit, NEW id \in Ids
    PROVE  \/ Score(SymDiff(encoded, {bit}), id) = Score(encoded, id) + 1
           \/ Score(SymDiff(encoded, {bit}), id) = Score(encoded, id) - 1
<1> DEFINE differences == SymDiff(encoded, MARKERS[id])
<1>1. IsFiniteSet(differences)
  <2>1. MARKERS[id] \subseteq 0..RADIUS_RESOLUTION
    <3>1. 0..RADIUS_RESOLUTION - 1 \subseteq 0..RADIUS_RESOLUTION
      BY ResolutionAssumption
    <3>2. QED
      BY <3>1, MarkerFacts
  <2>2. differences \subseteq 0..RADIUS_RESOLUTION
    BY <2>1 DEF SymDiff
  <2>3. IsFiniteSet(0..RADIUS_RESOLUTION)
    BY FS_Interval, ResolutionAssumption
  <2> HIDE DEF differences
  <2>4. QED
    BY <2>2, <2>3, FS_Subset
<1>2. CASE bit \in differences
  <2>1. SymDiff(SymDiff(encoded, {bit}), MARKERS[id]) = differences \ {bit}
    BY <1>2 DEF SymDiff
  <2> HIDE DEF differences
  <2>2. Cardinality(differences \ {bit}) = Cardinality(differences) - 1
    BY <1>1, <1>2, FS_RemoveElement
  <2>3. QED
    BY <2>1, <2>2 DEF Score, differences
<1>3. CASE bit \notin differences
  <2>1. SymDiff(SymDiff(encoded, {bit}), MARKERS[id]) = differences \union {bit}
    BY <1>3 DEF SymDiff
  <2> HIDE DEF differences
  <2>2. Cardinality(differences \union {bit}) = Cardinality(differences) + 1
    BY <1>1, <1>3, FS_AddElement
  <2>3. QED
    BY <2>1, <2>2 DEF Score, differences
<1>4. QED
  BY <1>2, <1>3

\* With one level misread or none, the scores are those of the marker, give or take one.
LEMMA ScoresOfAMarker ==
    ASSUME NEW id \in Ids, NEW read, Cardinality(Misread(id, read)) =< 1, NEW other \in Ids
    PROVE  /\ Score(Encoded(read), other) \in Nat /\ Score(Shifted(id), other) \in Nat
           /\ Score(Encoded(read), other) - Score(Shifted(id), other) \in -1..1
<1> DEFINE wrong == Misread(id, read)
<1>1. IsFiniteSet(wrong) /\ wrong \subseteq Radii
  <2>1. wrong \subseteq Radii
    BY DEF Misread, SymDiff, PaintedBlack, ReadBlack
  <2>2. IsFiniteSet(Radii)
    BY FS_Interval, ResolutionAssumption DEF Radii
  <2>3. QED
    BY <2>1, <2>2, FS_Subset
<1>2. Shifted(id) \in SUBSET (0..RADIUS_RESOLUTION) /\ Encoded(read) \in SUBSET (0..RADIUS_RESOLUTION)
  BY MarkerFacts, ResolutionAssumption DEF Encoded, ReadBlack, Radii
<1>3. Score(Encoded(read), other) \in Nat /\ Score(Shifted(id), other) \in Nat
  BY <1>2, ScoreType
<1>4. CASE wrong = {}
  <2>1. PaintedBlack(id) = ReadBlack(read)
    BY <1>4 DEF Misread, SymDiff
  <2>2. Encoded(read) = Shifted(id)
    BY <2>1, EncodedBits
  <2>3. QED
    BY <1>3, <2>2
<1>5. ASSUME NEW r, wrong = {r}
      PROVE  Score(Encoded(read), other) - Score(Shifted(id), other) \in -1..1
  <2>1. r \in 0..RADIUS_RESOLUTION - 1
    BY <1>1, <1>5 DEF Radii
  <2>2. \A i : i \in ReadBlack(read) <=> (i \in PaintedBlack(id) <=> i # r)
    BY <1>5 DEF Misread, SymDiff
  <2>3. \A bit \in 1..RADIUS_RESOLUTION :
            RADIUS_RESOLUTION - bit = r <=> bit = RADIUS_RESOLUTION - r
    BY <2>1, ResolutionAssumption
  <2>4. RADIUS_RESOLUTION - r \in 1..RADIUS_RESOLUTION
    BY <2>1, ResolutionAssumption
  <2>5. ASSUME NEW bit
        PROVE  bit \in Encoded(read) <=> bit \in SymDiff(Shifted(id), {RADIUS_RESOLUTION - r})
    BY <2>2, <2>3, <2>4, EncodedBits DEF SymDiff
  <2>6. Encoded(read) = SymDiff(Shifted(id), {RADIUS_RESOLUTION - r})
    BY <2>5
  <2>7. \/ Score(Encoded(read), other) = Score(Shifted(id), other) + 1
        \/ Score(Encoded(read), other) = Score(Shifted(id), other) - 1
    BY <1>2, <2>6, ScoreMovesByOne
  <2>8. QED
    BY <1>3, <2>7
<1>6. wrong = {} \/ \E r : wrong = {r}
  <2> HIDE DEF wrong
  <2>1. Cardinality(wrong) \in Nat
    BY <1>1, FS_CardinalityType
  <2>2. Cardinality(wrong) = 0 \/ Cardinality(wrong) = 1
    BY <2>1 DEF wrong
  <2>3. QED
    BY <1>1, <2>2, FS_EmptySet, FS_Singleton
<1>7. QED
  BY <1>3, <1>4, <1>5, <1>6

\* A marker with one level misread or none is the best of the near ones.
LEMMA BestIsThePainted ==
    ASSUME NEW id \in Ids, NEW read, Cardinality(Misread(id, read)) =< 1
    PROVE  id \in Near(Encoded(read)) /\ Best(Encoded(read)) = id
<1> DEFINE score(other) == Score(Encoded(read), other)
           own == Score(Shifted(id), id)
           Better(i) == \A other \in Near(Encoded(read)) :
                           \/ Score(Encoded(read), i) < Score(Encoded(read), other)
                           \/ Score(Encoded(read), i) = Score(Encoded(read), other) /\ i =< other
<1>1. score(id) \in Nat /\ own \in Nat /\ score(id) =< own + 1
  BY ScoresOfAMarker
<1>2. 10 * (own + 1) < 3 * RADIUS_RESOLUTION
  BY FarApartAssumption
<1>3. id \in Near(Encoded(read))
  <2>1. 10 * score(id) < 3 * RADIUS_RESOLUTION
    <3> HIDE DEF score, own
    <3>1. QED
      BY <1>1, <1>2, ResolutionAssumption
  <2>2. QED
    BY <2>1 DEF Near
<1>4. ASSUME NEW other \in Ids, other # id PROVE score(id) < score(other)
  <2>1. Score(Shifted(id), other) > own + 2
    BY <1>4, FarApartAssumption
  <2>2. /\ score(other) \in Nat /\ Score(Shifted(id), other) \in Nat
        /\ score(other) >= Score(Shifted(id), other) - 1
    BY ScoresOfAMarker
  <2> HIDE DEF score, own
  <2>3. QED
    BY <1>1, <2>1, <2>2
<1>5. Near(Encoded(read)) \subseteq Ids /\ id \in 1..255
  BY MarkersAssumption DEF Near
<1>6. Better(id)
  <2> SUFFICES ASSUME NEW other \in Near(Encoded(read))
               PROVE  score(id) < score(other) \/ (score(id) = score(other) /\ id =< other)
    OBVIOUS
  <2>1. CASE other = id
    BY <1>5, <2>1
  <2>2. CASE other # id
    <3>1. score(id) < score(other)
      BY <1>4, <1>5, <2>2
    <3>2. QED
      BY <3>1
  <2>3. QED
    BY <2>1, <2>2
<1>7. ASSUME NEW i \in Near(Encoded(read)), Better(i) PROVE i = id
  <2> SUFFICES ASSUME i # id PROVE FALSE
    OBVIOUS
  <2>1. score(id) < score(i)
    BY <1>4, <1>5
  <2>2. score(i) < score(id) \/ score(i) = score(id)
    BY <1>3, <1>7
  <2>3. score(i) \in Nat
    BY <1>5, ScoresOfAMarker
  <2> HIDE DEF score
  <2>4. QED
    BY <1>1, <2>1, <2>2, <2>3
<1>8. Best(Encoded(read)) = CHOOSE i \in Near(Encoded(read)) : Better(i)
  BY <1>3 DEF Best
<1> HIDE DEF Better
<1>9. QED
  BY <1>3, <1>6, <1>7, <1>8

\* Two levels of a marker are white, so that one at least is read as such.
LEMMA NotAllBlack ==
    ASSUME NEW id \in Ids, NEW read, Cardinality(Misread(id, read)) =< 1
    PROVE  Angles(read) = {"angle"}
<1> SUFFICES ASSUME \A i \in Radii : read[i] = "black" PROVE FALSE
  BY DEF Angles
<1>1. ReadBlack(read) = Radii
  BY DEF ReadBlack
<1>2. Misread(id, read) = Radii \ PaintedBlack(id)
  BY <1>1, MarkerFacts DEF Misread, SymDiff
<1>3. IsFiniteSet(Radii) /\ Cardinality(Radii) = RADIUS_RESOLUTION
  BY FS_Interval, ResolutionAssumption DEF Radii
<1>4. IsFiniteSet(MARKERS[id]) /\ IsFiniteSet(PaintedBlack(id))
  BY <1>3, MarkerFacts, FS_Subset DEF Radii
<1>5. Cardinality(PaintedBlack(id)) =< Cardinality(MARKERS[id])
  <2> DEFINE bit == [i \in PaintedBlack(id) |-> RADIUS_RESOLUTION - 1 - i]
  <2>1. bit \in [PaintedBlack(id) -> MARKERS[id]]
    BY DEF PaintedBlack
  <2>2. \A i, j \in PaintedBlack(id) : bit[i] = bit[j] => i = j
    BY ResolutionAssumption DEF PaintedBlack, Radii
  <2>3. bit \in Injection(PaintedBlack(id), MARKERS[id])
    <3> HIDE DEF bit
    <3>1. QED
      BY <2>1, <2>2 DEF Injection, IsInjective
  <2>4. QED
    BY <1>4, <2>3, FS_Injection
<1>6. Cardinality(Radii \ PaintedBlack(id)) = RADIUS_RESOLUTION - Cardinality(PaintedBlack(id))
  <2>1. Radii \intersect PaintedBlack(id) = PaintedBlack(id)
    BY MarkerFacts
  <2>2. QED
    BY <1>3, <2>1, FS_Difference
<1>7. Cardinality(PaintedBlack(id)) \in Nat /\ Cardinality(MARKERS[id]) \in Nat
  BY <1>4, FS_CardinalityType
<1>8. Cardinality(MARKERS[id]) =< RADIUS_RESOLUTION - 2
  BY FarApartAssumption
<1>9. QED
  BY <1>2, <1>5, <1>6, <1>7, <1>8, ResolutionAssumption

-----------------------------------------------------------------------------
LEMMA EmptyFacts == Empty \in Markers /\ Complete(Empty) /\ Unread \in [Radii -> Levels]
BY DEF Empty, Markers, Complete, Unread, Levels

LEMMA InitInv == Init => IInv
<1> SUFFICES ASSUME Init PROVE IInv
  OBVIOUS
<1>1. TypeOK
  BY EmptyFacts DEF Init, TypeOK
<1>2. QED
  BY <1>1, EmptyFacts DEF Init, IInv, ReturnedMarkersAreKnown

\* One circle after the other.
LEMMA NextInv == ASSUME IInv, [Next]_vars PROVE IInv'
<1>1. CASE RefineCircle
  <2>1. levels' \in [Radii -> Levels]
    BY <1>1, ReadingsType DEF RefineCircle
  <2>2. QED
    BY <1>1, <2>1 DEF RefineCircle, IInv, TypeOK, ReturnedMarkersAreKnown
<1>2. CASE NoCircle
  <2>1. circles' \in 0..MaxCircles
    BY <1>2, CirclesAssumption DEF NoCircle, IInv, TypeOK
  <2>2. QED
    BY <1>2, <2>1 DEF NoCircle, IInv, TypeOK, ReturnedMarkersAreKnown
<1>3. CASE UnfoldCircle
  <2>1. marker' \in Markers /\ Complete(marker')
    BY <1>3, UnfoldedFacts DEF UnfoldCircle, IInv, TypeOK
  <2>2. QED
    BY <1>3, <2>1 DEF UnfoldCircle, IInv, TypeOK, ReturnedMarkersAreKnown, Complete
<1>4. CASE KeepMarker
  <2>1. marker \in Markers /\ Complete(marker) /\ markers \in Seq(Markers)
    BY DEF IInv, TypeOK
  <2>2. markers' \in Seq(Markers)
    BY <1>4, <2>1 DEF KeepMarker
  <2>3. ReturnedMarkersAreKnown'
    <3>1. CASE marker.valid
      <4>1. markers' = Append(markers, marker)
        BY <1>4, <3>1 DEF KeepMarker
      <4>2. DOMAIN markers' = 1..Len(markers) + 1 /\ DOMAIN markers = 1..Len(markers)
        BY <2>1, <4>1
      <4>3. \A k \in DOMAIN markers' :
                markers'[k] = IF k \in DOMAIN markers THEN markers[k] ELSE marker
        BY <2>1, <4>1, <4>2
      <4>4. QED
        BY <2>1, <3>1, <4>3 DEF IInv, ReturnedMarkersAreKnown, Complete
    <3>2. CASE ~marker.valid
      BY <1>4, <3>2 DEF KeepMarker, IInv, ReturnedMarkersAreKnown
    <3>3. QED
      BY <3>1, <3>2
  <2>4. circles' \in 0..MaxCircles
    BY <1>4, CirclesAssumption DEF KeepMarker, IInv, TypeOK
  <2>5. QED
    BY <1>4, <2>2, <2>3, <2>4, EmptyFacts DEF KeepMarker, IInv, TypeOK
<1>5. CASE Return
  BY <1>5 DEF Return, IInv, TypeOK, ReturnedMarkersAreKnown
<1>6. CASE UNCHANGED vars
  BY <1>6 DEF vars, IInv, TypeOK, ReturnedMarkersAreKnown
<1>7. QED
  BY <1>1, <1>2, <1>3, <1>4, <1>5, <1>6 DEF Next

-----------------------------------------------------------------------------
(* The type invariant, and that every Marker returned is complete, hold in    *)
(* every state.                                                              *)
THEOREM Invariance == Spec => []IInv
<1>1. Init => IInv
  BY InitInv
<1>2. IInv /\ [Next]_vars => IInv'
  BY NextInv
<1>3. QED
  BY <1>1, <1>2, PTL DEF Spec

(* Whatever the camera reads, a Marker that is returned is a known one, and   *)
(* none of its members is as the constructor left it                         *)
(* (ReturnedMarkersAreKnown).                                                *)
THEOREM OnlyKnownMarkers == Spec => []ReturnedMarkersAreKnown
<1>1. IInv => ReturnedMarkersAreKnown
  BY DEF IInv
<1>2. QED
  BY <1>1, Invariance, PTL

\* What is known of the current circle is what unfold_circle made of its levels.
MarkerIsUnfolded == pc = "unfolded" => marker \in Unfolded(levels)

(* For any markers as far apart as those of detector.h: one whose levels are  *)
(* clear enough, with at most one of them misread, is recognised as itself    *)
(* and has an orientation (MarkersAreToldApart).                             *)
THEOREM ToldApart == Spec => []MarkersAreToldApart
<1>1. Init => MarkerIsUnfolded
  BY DEF Init, MarkerIsUnfolded
<1>2. MarkerIsUnfolded /\ [Next]_vars => MarkerIsUnfolded'
  BY DEF MarkerIsUnfolded, Next, RefineCircle, NoCircle, UnfoldCircle, KeepMarker, Return, vars
<1>3. MarkerIsUnfolded => MarkersAreToldApart
  <2> SUFFICES ASSUME MarkerIsUnfolded, pc = "unfolded", painted \in Ids, ~TooFuzzy(levels),
                      Cardinality(Misread(painted, levels)) =< 1
               PROVE  marker = [valid |-> TRUE, id |-> painted, theta |-> "angle"]
    BY DEF MarkersAreToldApart
  <2>1. painted \in Near(Encoded(levels)) /\ Best(Encoded(levels)) = painted
    BY BestIsThePainted
  <2>2. Angles(levels) = {"angle"}
    BY NotAllBlack
  <2>3. marker \in {[valid |-> TRUE, id |-> painted, theta |-> angle] : angle \in {"angle"}}
    BY <2>1, <2>2 DEF MarkerIsUnfolded, Unfolded
  <2>4. QED
    BY <2>3
<1>4. QED
  BY <1>1, <1>2, <1>3, PTL DEF Spec
=============================================================================
