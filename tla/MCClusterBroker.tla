--------------------------- MODULE MCClusterBroker ---------------------------
(* Two nodes, the backup on a custom volume, run by an identity that may do  *)
(* everything and by ones that lack some of the permissions.                 *)
EXTENDS ClusterBroker

CONSTANTS backup, primary, none, leaving

InRestartOrder == <<backup, primary>>
Mounted == {backup}
Someone == {Grants \ lacking : lacking \in
              {{}, {"delete namespaces"}, {"claims", "pods", "create namespaces"},
               {"secrets", "get namespaces", "delete namespaces"}}}
=============================================================================
