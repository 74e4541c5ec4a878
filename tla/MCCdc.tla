------------------------------- MODULE MCCdc -------------------------------
(***************************************************************************)
(* Change data capture: the data path of a sync, for two rows of one table  *)
(* and the three engines, and its control, with two requests to its routes  *)
(* besides the one that created it: those of any client, or those that the  *)
(* page's card offers.  They share no state in the model: a behaviour moves *)
(* one of them, its scene, and leaves the other in an initial state.        *)
(***************************************************************************)
EXTENDS CdcStream, SyncPage

CONSTANTS r1, r2, users, q0, q1, q2,
          Scenes   \* those a configuration looks at

VARIABLE scene

MCTableOf == [r \in Rows |-> users]

AStream == Next /\ UNCHANGED <<syncVars, pageVars>>
AControl == PageNext /\ UNCHANGED vars

CdcInit ==
    /\ scene \in Scenes
    /\ Init /\ (scene # "stream" => engine = CHOOSE e \in Engines : TRUE)
    /\ scene # "stream" => bootstrap = "snapshot"
    /\ PageInit /\ (scene # "control" => tab = "closed")

CdcNext ==
    /\ scene' = scene
    /\ \/ scene = "stream" /\ AStream
       \/ scene = "control" /\ AControl

CdcSpec == CdcInit /\ [][CdcNext]_<<vars, syncVars, pageVars, scene>>

\* The fairness of CdcStream and of CdcJob, in the scene that moves.
CdcFairSpec ==
    /\ CdcSpec
    /\ WF_vars(scene = "stream" /\ Work)
    /\ WF_syncVars(scene = "control" /\ Worker)
    /\ WF_syncVars(scene = "control" /\ FailedListener)
    /\ WF_syncVars(scene = "control" /\ BackoffOver)
    /\ WF_syncVars(scene = "control" /\ Stalled)
    /\ \A q \in SyncRequests : WF_syncVars(scene = "control" /\ Serve(q))

=============================================================================
