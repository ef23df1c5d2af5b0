SPECIFICATION FairSpec
CONSTANTS
    Hosts = {h1, h2}
    bridge = bridge
    cut = cut
    Programs = {bridge, cut}
    pattern = pattern
    full = full
    Names = {pattern, full}
    Selects <- MCSelects
    Pids <- MCPids
    ProgramOf <- MCProgramOf
    Concurrent = FALSE
    MaxDraws = 2
    NoFile = NoFile

INVARIANTS
    TypeOK
    ReportIsOfItsTime
    OutputIsRemoved
PROPERTIES
    QueriesEnd
