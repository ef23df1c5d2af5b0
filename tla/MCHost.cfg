SPECIFICATION Spec
CONSTANTS
    Clients = {c1, c2, c3}
    app1 = app1
    app2 = app2
    other = other
    act = act
    det = det
    across = across
    status = status
    away = away
    AllowedApps = {app1, app2}
    Apps = {app1, app2, other}
    Actions = {act, det}
    Catalog <- MCCatalog
    Detached = {det}
    Requests <- JobRequests
    MaxClock = 3
    MaxCounter = 2
    Absent = Absent
    SnapshotName = SnapshotName
    JobTexts = {across, status, away}
    LeadsTo <- MCLeadsTo
    Elsewhere = Elsewhere
    Foreign = Foreign
    NoFile = NoFile
    NoClient = NoClient
    NoRequest = NoRequest
    NoReply = NoReply
    NoDraft = NoDraft
SYMMETRY Symmetry
INVARIANTS
    AcceptedJobsAreStored
    OneRecordPerInvoke
    KnownJobsAreFound
    JobReportsAreTrue
PROPERTIES
    StoredRecordsAreFinal
