SPECIFICATION FairSpec
CONSTANTS
    Clients = {c1}
    MaxRequests = 2
    Count = 2
    Nobody = Nobody
CHECK_DEADLOCK FALSE
PROPERTIES
    ClientsFinish
