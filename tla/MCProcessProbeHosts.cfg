SPECIFICATION Spec
CONSTANTS
    Hosts = {h1, h2}
    bridge = bridge
    cut = cut
    Programs = {bridge, cut}
    pattern = pattern
    full = full
    Names = {pattern, full}
    Selects <- MCSelects
    Pids <- MCPids
    ProgramOf <- MCProgramOf
    Concurrent = TRUE
    MaxDraws = 1
    NoFile = NoFile

INVARIANT
    ReportIsOfItsTime
