------------------------------- MODULE Markers -------------------------------
(***************************************************************************)
(* Detector::find_markers: the circles of an image are sampled along their *)
(* radii, the samples at one distance from the centre are averaged into a  *)
(* level, and the levels, one bit each, are compared with the patterns of  *)
(* the known markers.                                                      *)
(*                                                                         *)
(* A pattern is the set of its bits that are 1, that is, black.  OpenCV is *)
(* external: it finds any circles, and reads any levels.  A painted circle *)
(* is followed together with what was painted, which the program does not  *)
(* know, so that what it reports can be compared with it.                  *)
(***************************************************************************)
EXTENDS Integers, FiniteSets, FiniteSetsExt, Sequences

CONSTANTS
    RADIUS_RESOLUTION,  \* the samples along a radius
    MARKERS,            \* the pattern of each marker, by its id
    PLAIN,              \* the patterns of circles that are no markers, by other ids
    MaxCircles          \* bound: the circles of an image

Ids == DOMAIN MARKERS
Patterns == SUBSET (0..RADIUS_RESOLUTION - 1)

ASSUME ResolutionAssumption == RADIUS_RESOLUTION \in Nat \ {0}
ASSUME MarkersAssumption == Ids \subseteq 1..255 /\ MARKERS \in [Ids -> Patterns]
ASSUME CirclesAssumption == MaxCircles \in Nat
ASSUME PlainAssumption ==
    DOMAIN PLAIN \intersect (Ids \union {0}) = {} /\ PLAIN \in [DOMAIN PLAIN -> Patterns]

VARIABLES
    pc,        \* "circles", "unfold", "unfolded" or "returned"
    circles,   \* the circles still to decode
    painted,   \* what the current circle is: a marker or a plain one, or 0 between two
    levels,    \* what is read of it, from the centre outwards
    marker,    \* its Marker
    markers    \* the Markers found

vars == <<pc, circles, painted, levels, marker, markers>>

Radii == 0..RADIUS_RESOLUTION - 1
Circles == Ids \union DOMAIN PLAIN

\* An average of at most 120, below 150, below 170, and of 170 or more.
Levels == {"black", "dark", "light", "white"}

\* struct Marker; 0 and "unset" where the constructor leaves it uninitialised.
Markers == [valid : BOOLEAN, id : 0..255, theta : {"unset", "angle", "nan"}]

TypeOK ==
    /\ pc \in {"circles", "unfold", "unfolded", "returned"}
    /\ circles \in 0..MaxCircles
    /\ painted \in Circles \union {0}
    /\ levels \in [Radii -> Levels]
    /\ marker \in Markers
    /\ markers \in Seq(Markers)

-----------------------------------------------------------------------------
(* What is painted, and how the camera reads it.                            *)

\* "1 char = 1 mm, higher bits towards center" (detector.h:42).
PaintedBlack(what) ==
    LET pattern == IF what \in Ids THEN MARKERS[what] ELSE PLAIN[what]
    IN  {i \in Radii : RADIUS_RESOLUTION - 1 - i \in pattern}

ReadBlack(read) == {i \in Radii : read[i] \in {"black", "dark"}}
Fuzzy(read) == {i \in Radii : read[i] \in {"dark", "light"}}

\* The levels on the wrong side of the threshold.
Misread(what, read) == SymDiff(PaintedBlack(what), ReadBlack(read))

(* Bound: at most two levels are on the wrong side of the threshold, and the *)
(* fuzzy ones are none, as many as are tolerated, or one more; which they are *)
(* makes no difference to the code.                                          *)
Readings(what) ==
    {[i \in Radii |->
        IF i \in PaintedBlack(what) <=> i \notin wrong
        THEN IF i < fuzzy THEN "dark" ELSE "black"
        ELSE IF i < fuzzy THEN "light" ELSE "white"] :
     wrong \in {{}} \union {{i, j} : i, j \in Radii},
     fuzzy \in {0, RADIUS_RESOLUTION \div 5, RADIUS_RESOLUTION \div 5 + 1}}

-----------------------------------------------------------------------------
(* unfold_circle.                                                           *)

TooFuzzy(read) == 5 * Cardinality(Fuzzy(read)) > RADIUS_RESOLUTION

\* Mutant: the bits are counted from the border.
EncodedFromTheBorder(read) == {i : i \in ReadBlack(read)}

\* Bit RADIUS_RESOLUTION - i for the level at radius i.
Encoded(read) == {RADIUS_RESOLUTION - i : i \in ReadBlack(read)}

\* The 1s of the exclusive or of two patterns.
Score(encoded, id) == Cardinality(SymDiff(encoded, MARKERS[id]))

\* The markers with less than 30% of differences.
Near(encoded) == {id \in Ids : 10 * Score(encoded, id) < 3 * RADIUS_RESOLUTION}

\* What is read of a marker when no level is misread: every bit one higher than painted.
Shifted(id) == {i + 1 : i \in MARKERS[id]}

(* The markers were chosen far enough apart: one misread level brings none too *)
(* far from itself or as near to another one, and none is nearly all black.   *)
ASSUME FarApartAssumption ==
    \A id \in Ids :
        LET own == Score(Shifted(id), id)
        IN  /\ 10 * (own + 1) < 3 * RADIUS_RESOLUTION
            /\ \A other \in Ids \ {id} : Score(Shifted(id), other) > own + 2
            /\ Cardinality(MARKERS[id]) =< RADIUS_RESOLUTION - 2

\* Mutant: a later marker is kept whatever its score.
BestLast(encoded) ==
    IF Near(encoded) = {} THEN 0
    ELSE CHOOSE id \in Near(encoded) : \A other \in Near(encoded) : id >= other

\* The first of those with the best score; current_best starts at 0.
Best(encoded) ==
    IF Near(encoded) = {} THEN 0
    ELSE CHOOSE id \in Near(encoded) : \A other \in Near(encoded) :
            \/ Score(encoded, id) < Score(encoded, other)
            \/ Score(encoded, id) = Score(encoded, other) /\ id =< other

(* The angle is the mean of those whose radii are nearly as bright as the     *)
(* brightest; when every sample is 0 there is none, and the mean is 0 / 0.    *)
Angles(read) == IF \A i \in Radii : read[i] = "black" THEN {"angle", "nan"} ELSE {"angle"}

Empty == [valid |-> FALSE, id |-> 0, theta |-> "unset"]

\* Mutant: the marker is taken for valid before its levels are looked at.
UnfoldedAlwaysValid(read) ==
    IF TooFuzzy(read) THEN {[Empty EXCEPT !.valid = TRUE]}
    ELSE {[valid |-> TRUE, id |-> Best(Encoded(read)), theta |-> angle] : angle \in Angles(read)}

\* The Markers that unfold_circle may leave.
Unfolded(read) ==
    IF TooFuzzy(read) \/ Near(Encoded(read)) = {} THEN {Empty}
    ELSE {[valid |-> TRUE, id |-> Best(Encoded(read)), theta |-> angle] : angle \in Angles(read)}

-----------------------------------------------------------------------------
(* find_markers.                                                            *)

Unread == [i \in Radii |-> "white"]

\* The circles HoughCircles finds in the small image.
Init ==
    /\ pc = "circles"
    /\ circles \in 0..MaxCircles
    /\ painted = 0
    /\ levels = Unread
    /\ marker = Empty
    /\ markers = <<>>

\* decode_marker: the circle is searched again at full resolution, and found.
RefineCircle ==
    /\ pc = "circles"
    /\ circles > 0
    /\ painted' \in Circles
    /\ levels' \in Readings(painted')
    /\ pc' = "unfold"
    /\ UNCHANGED <<circles, marker, markers>>

\* It is not found again: its Marker is returned as it is, not valid.
NoCircle ==
    /\ pc = "circles"
    /\ circles > 0
    /\ circles' = circles - 1
    /\ UNCHANGED <<pc, painted, levels, marker, markers>>

UnfoldCircle ==
    /\ pc = "unfold"
    /\ marker' \in Unfolded(levels)
    /\ pc' = "unfolded"
    /\ UNCHANGED <<circles, painted, levels, markers>>

\* A valid Marker goes into the result; what was read of its circle is dropped.
KeepMarker ==
    /\ pc = "unfolded"
    /\ markers' = IF marker.valid THEN Append(markers, marker) ELSE markers
    /\ circles' = circles - 1
    /\ pc' = "circles"
    /\ painted' = 0 /\ levels' = Unread /\ marker' = Empty

Return ==
    /\ pc = "circles"
    /\ circles = 0
    /\ pc' = "returned"
    /\ UNCHANGED <<circles, painted, levels, marker, markers>>

Next == RefineCircle \/ NoCircle \/ UnfoldCircle \/ KeepMarker \/ Return

Spec == Init /\ [][Next]_vars

-----------------------------------------------------------------------------
(* A marker whose levels are clear enough, with one of them on the wrong side *)
(* of the threshold or none, is recognised as itself and has an orientation, *)
(* although the patterns read are one bit higher than those they are         *)
(* compared with (detector.h:43-48, detector.cpp:131 and 145-168).           *)
MarkersAreToldApart ==
    /\ pc = "unfolded"
    /\ painted \in Ids
    /\ ~TooFuzzy(levels)
    /\ Cardinality(Misread(painted, levels)) =< 1
    => marker = [valid |-> TRUE, id |-> painted, theta |-> "angle"]

(* Whatever the circles are, a Marker that is returned is a known one, with  *)
(* the members the constructor leaves uninitialised set (detector.h:9-14).   *)
ReturnedMarkersAreKnown ==
    \A k \in DOMAIN markers :
        markers[k].valid /\ markers[k].id \in Ids /\ markers[k].theta # "unset"
=============================================================================
