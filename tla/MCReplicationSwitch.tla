-------------------------- MODULE MCReplicationSwitch --------------------------
(* Instances of ReplicationSwitch for TLC; each .cfg picks the definitions   *)
(* below as the values of the constants.                                     *)
EXTENDS ReplicationSwitch, TLC

CONSTANTS east, west, r1, r2, r3

OneVPN   == {1}
TwoVPNs  == {1, 2}
OneRun   == {r1}
TwoRuns  == {r1, r2}
ThreeRuns == {r1, r2, r3}
TheSites == {east, west}

\* One env file on both machines: the VPNs live at different sites.
CrossedFile == {(1 :> east) @@ (2 :> west)}
\* Env files that disagree: in any way, or about the second VPN.
AnyFile     == [VPNs -> {east, west}]
TwoFiles    == {(1 :> east) @@ (2 :> west), (1 :> east) @@ (2 :> east)}

\* Each run is local to one site (CLI) and reaches the other one over SEMP ...
LocalCLI == {<<r1, east>>, <<r2, west>>} \cap (Runs \X Sites)
\* ... or over kubectl, so that both runs use the script file of either site.
AllCLI   == Runs \X {east, west}
===============================================================================
