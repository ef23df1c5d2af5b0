SPECIFICATION FairSpec
CONSTANTS
    MaxAddresses = 3
    DefaultTimeout = 2
    MaxTimeout = 3
    Timeouts <- MCTimeouts
    Ports <- MCPorts
    MaxPort = 5
    Fds = {3, 4}
    NoFd = NoFd

INVARIANTS
    TypeOK
    NothingIsLeft
    ReportIsTrue
    WaitIsBounded
PROPERTIES
    ProbesEnd
