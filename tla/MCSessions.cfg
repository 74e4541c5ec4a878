SPECIFICATION FairSpec
CONSTANTS
    c1 = c1  c2 = c2
    Callers = {c1, c2}
    NoCaller = NoCaller
    MaxSessions = 2
    MaxPasswords = 1
    Ttl = 2
    MaxAuthFaults = 1
INVARIANT RevokedRefused
INVARIANT OldPasswordOut
PROPERTY RevokedForgotten
CHECK_DEADLOCK FALSE
