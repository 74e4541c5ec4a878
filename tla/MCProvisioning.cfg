SPECIFICATION Spec
CONSTANTS
    Rows = {r1, r2}
    Names = {n1}
    Requests = {q1, q2}
    Boot = boot
    None = none
    MaxFailures = 1
SYMMETRY Symmetry
INVARIANT CleanDatabaseUndisturbed
INVARIANT NoOrphans
CHECK_DEADLOCK FALSE
