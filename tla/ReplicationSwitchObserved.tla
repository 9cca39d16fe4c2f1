----------------------- MODULE ReplicationSwitchObserved -----------------------
(***************************************************************************)
(* ReplicationSwitch with a history variable that records when a VPN was   *)
(* active already.  It adds no behaviour: every step of Next is a step     *)
(* here.                                                                   *)
(***************************************************************************)
EXTENDS ReplicationSwitch

VARIABLE
  overtaken   \* overtaken[r]: VPNs that were already active somewhere when
              \* the previous promotion of run r returned

observedVars == <<vars, overtaken>>

ActiveSomewhere(v) == \E s \in Sites : role[s][v] = "active"

\* Run r has just completed the promotion of v.
Promotes(r, v) ==
  /\ pc[r] = "promote" /\ v \in todo[r]
  /\ v \notin todo'[r] /\ pc'[r] # "failed"

ObservedInit == Init /\ overtaken = [r \in Runs |-> {}]

Observe ==
  overtaken' = [r \in Runs |->
    IF \E v \in VPNs : Promotes(r, v) THEN {w \in todo'[r] : ActiveSomewhere(w)'}
    ELSE IF pc'[r] = "promote" THEN overtaken[r] ELSE {}]

ObservedNext == Next /\ Observe

ObservedSpec == ObservedInit /\ [][ObservedNext]_observedVars

-------------------------------------------------------------------------------
\* switchplan.go, of promoteConfirmed: it "re-reads immediately before each
\* promotion and promotes only what is still standby everywhere".  Then no VPN
\* is promoted that was active somewhere already when this run made its
\* previous promotion.
RereadBeforeEachPromotion ==
  [][\A r \in Runs, v \in VPNs : Promotes(r, v) => v \notin overtaken[r]]_observedVars
===============================================================================
