SPECIFICATION CdcSpec
CONSTANTS
    Scenes = {"stream"}
    r1 = r1  r2 = r2  users = users
    Engines = {"postgres"}
    Rows = {r1, r2}
    TableOf <- MCTableOf
    None = none
    MaxChanges = 2
    MaxFailures = 1
    q0 = q0  q1 = q1  q2 = q2
    SyncRequests = {q0, q1, q2}
    Creator = q0
    MaxSyncFailures = 1
    Letters = 2
    PageFailures = 0
INVARIANT SlotLosesNothing
CHECK_DEADLOCK FALSE
