------------------------- MODULE MCReplicationConfigure -------------------------
(* Instances of ReplicationConfigure for TLC.                                *)
EXTENDS ReplicationConfigure

CONSTANTS mate, former, a1, a2

\* Two listed VPNs and one that is not, or one of each.
ThreeVPNs    == {1, 2, 3}
TwoListed    == {1, 2}
SecondActive == {2}
TwoVPNs      == {1, 2}
OneListed    == {1}
FirstActive  == {1}

MCAddrs      == {a1, a2}
MCNames      == {mate, former}
MCMateAddrs  == {a1}

\* Roles are resolved, and the last VPN, which the file does not list, is up.
MCInit ==
  /\ Init
  /\ \A v \in VPNs : role[v] = "n/a" <=> admin[v] = "none"
  /\ \E v \in VPNs \ Listed : admin[v] = "enabled"
MCSpec == MCInit /\ [][Next]_vars
MCFairSpec == MCSpec /\ Fairness
===============================================================================
