CONSTANTS
    Blanks <- MCBlanks
    Literals <- MCLiterals
    Numbers <- MCNumbers
    MaxInt <- MCMaxInt
    NoInt = NoInt
    Missing = Missing
    NotJson = NotJson
    RepoRoot <- MCRepoRoot
    Words <- MCWords
    Python <- MCPython
    Directories <- MCDirectories
    JsonValues <- MCJsonValues
    Profiles <- MCProfiles
    Disk <- MCDisk
    Rewritten <- MCRewritten
    Versions <- MCVersions
    Pids = {2, 3}
    Documents <- MCDocuments
    Outputs <- MCOutputs
    Endings <- MCEndings
    Unencodable <- MCUnencodable
    Meaning <- MCMeaning
    Jobs <- MCJobs
SPECIFICATION Spec
CHECK_DEADLOCK FALSE
INVARIANTS
    TypeOK
    StatusIsComplete
    ReportedPidRan
    ArgumentsArriveWhole
    ResultsTellWhatHappened
    RepliesFitDocuments
    PathsAreSeparate
