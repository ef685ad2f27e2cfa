CONSTANTS
    RADIUS_RESOLUTION = 25
    MARKERS <- MCMarkers
    PLAIN <- MCPlain
    MaxCircles = 2
SPECIFICATION Spec
CHECK_DEADLOCK FALSE
INVARIANTS MarkersAreToldApart ReturnedMarkersAreKnown
