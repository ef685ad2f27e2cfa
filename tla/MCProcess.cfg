CONSTANTS
    Conns = {c1, c2, c3}
    MaxDescriptors = 3
SPECIFICATION FairProcessSpec
CHECK_DEADLOCK FALSE
INVARIANTS OneOperation ManagedConnectionsWork ServerIsUpOrDown NothingIsLeftOpen
PROPERTIES ReplyKeptWhileWritten AnsweredConnectionsEnd SignalEnds
