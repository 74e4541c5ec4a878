SPECIFICATION FairSpec
CONSTANTS
    Rows = {r1}
    Names = {n1}
    Requests = {q1, q2}
    Boot = boot
    None = none
    MaxFailures = 2
PROPERTY RequestsSettle
PROPERTY BootRecovers
CHECK_DEADLOCK FALSE
