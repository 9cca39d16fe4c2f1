------------------------------- MODULE RolePair -------------------------------
(***************************************************************************)
(* What a replication role switch promises about a pair of brokers, and    *)
(* nothing about how: for each message-VPN, the set of sites that hold the *)
(* active role.  A role moves by being given up first and taken up second, *)
(* so the tool passes through "nobody is active" and never through "both   *)
(* are".  A VPN found active at both sites is left exactly as it was.      *)
(***************************************************************************)
CONSTANTS Sites,   \* the two replication sites
          VPNs     \* the message-VPNs of the pair

VARIABLE holder    \* holder[v]: the sites at which v is active

Init == holder \in [VPNs -> SUBSET Sites]

\* The one active site of v becomes standby.
Release(v) ==
  /\ \E s \in Sites : holder[v] = {s}
  /\ holder' = [holder EXCEPT ![v] = {}]

\* Site s becomes active for v, which nobody holds.
Acquire(v, s) ==
  /\ holder[v] = {}
  /\ holder' = [holder EXCEPT ![v] = {s}]

Next == \E v \in VPNs : Release(v) \/ \E s \in Sites : Acquire(v, s)

Spec == Init /\ [][Next]_holder
===============================================================================
