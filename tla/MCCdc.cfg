SPECIFICATION CdcFairSpec
CONSTANTS
    Scenes = {"stream", "control"}
    r1 = r1  r2 = r2  users = users
    Engines = {"mongodb", "postgres", "mysql"}
    Rows = {r1, r2}
    TableOf <- MCTableOf
    None = none
    MaxChanges = 3
    MaxFailures = 1
    q0 = q0  q1 = q1  q2 = q2
    SyncRequests = {q0, q1, q2}
    Creator = q0
    MaxSyncFailures = 1
    Letters = 2
    PageFailures = 0
INVARIANT DestCoversCursor
INVARIANT StopsAtNextEvent
INVARIANT PausedMeansStopped
PROPERTY Converges
PROPERTY StartRuns
CHECK_DEADLOCK FALSE
