---------------------- MODULE MCReplicationSwitchObserved ----------------------
(* Instances of ReplicationSwitchObserved for TLC.                           *)
EXTENDS MCReplicationSwitch, ReplicationSwitchObserved

\* A healthy pair to which somebody else writes as well.
WatchedInit == ObservedInit /\ Healthy
WatchedSpec == WatchedInit /\ [][ObservedNext]_observedVars
===============================================================================
