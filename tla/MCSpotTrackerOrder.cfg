CONSTANTS
    Width = 3
    Height = 2
    EPSILON = 2
    Endpoints <- MCEndpoints
    Listening = "127.0.0.1"
    MaxContours = 2
    MaxDescriptors = 2
    Conns = {c1, c2}
    Other <- MCOther
SPECIFICATION Spec
INVARIANTS SpotsAreAllReturned
