----------------------------- MODULE MCSessions -----------------------------
(* Two requests at a time, two sessions, one new password, one fault. *)
EXTENDS Sessions, TLC

CONSTANTS c1, c2

FairSpec == SessionsInit /\ [][SessionsNext]_sessionVars /\ SessionsFairness

=============================================================================
