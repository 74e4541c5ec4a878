SPECIFICATION Spec
CONSTANTS
    Rows = {r1, r2}
    Names = {n1}
    Requests = {q1}
    Boot = boot
    None = none
    MaxFailures = 0
PROPERTY TeardownSparesNewDatabase
CHECK_DEADLOCK FALSE
