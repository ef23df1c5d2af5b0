SPECIFICATION FairSpec
CONSTANTS
    Clients = {c1, c2}
    MaxRequests = 6
    Count = 3
    Nobody = Nobody
\* Server and clients end.
CHECK_DEADLOCK FALSE
INVARIANTS
    RepliesAreInOrder
    CountedRequestsHaveReplies
PROPERTIES
    ServerStops
