--------------------------- MODULE SharedOperator ---------------------------
(***************************************************************************)
(* `operator deploy`, `operator remove`, `operator start` and `stop`       *)
(* (internal/k8s/operator.go, watch.go, operatorversion.go, prep.go and    *)
(* internal/cli/ops_k8s.go): several env files, each with a claim on the   *)
(* ONE operator of a cluster, which tells the claims apart only by the     *)
(* namespaces in its WATCH_NAMESPACE.                                      *)
(*                                                                         *)
(* A watch list is the set of its namespaces; the empty set stands, as the *)
(* empty value does, for every namespace.  The order of the list, which    *)
(* the code preserves, is not modelled.  A step is one call of kubectl     *)
(* that reads or writes the cluster; permission probes are part of the     *)
(* step they precede, and a question stays open between two steps.         *)
(***************************************************************************)
EXTENDS Naturals, FiniteSets

CONSTANTS
  Files,         \* the env files
  Places,        \* the namespaces an operator may be installed in
  Namespaces,    \* the namespaces brokers live in
  NoOperator,    \* a place without the operator's Deployment
  NoPlace,       \* the binding of a cluster role nobody is bound to
  Before,        \* the operators somebody else may have installed, per place
  Desired,       \* per file: the namespaces it wants watched, {} for all
  Home,          \* per file: the operator namespace it resolves
  Version,       \* per file: the operator version it would install
  Pulls,         \* the files with registry credentials
  SeesAll,       \* the files whose identity lists Deployments cluster-wide
  SeesBrokers,   \* ... lists the broker resource cluster-wide
  MayEscalate,   \* ... may create and bind the operator's ClusterRole
  MayCreateNs,   \* ... may create namespaces
  MaxCommands,   \* bound: commands that are started
  MaxAtOnce,     \* bound: commands that run at the same time
  MaxFaults,     \* bound: calls that fail half-way
  MaxBrokers     \* bound: broker resources that are created

ASSUME FilesAssumption ==
  /\ Desired \in [Files -> SUBSET Namespaces]
  /\ Home \in [Files -> Places]
  /\ Version \in [Files -> Nat]
  /\ NoOperator \notin [watch : SUBSET Namespaces, version : Nat, runs : BOOLEAN]
  /\ Before \subseteq [Places -> [watch : SUBSET Namespaces, version : Nat, runs : BOOLEAN]
                                  \cup {NoOperator}]
ASSUME RightsAssumption ==
  /\ Pulls \subseteq Files /\ SeesAll \subseteq Files /\ SeesBrokers \subseteq Files
  /\ MayEscalate \subseteq Files /\ MayCreateNs \subseteq Files
ASSUME BoundsAssumption ==
  /\ MaxCommands \in Nat /\ MaxAtOnce \in Nat /\ MaxFaults \in Nat /\ MaxBrokers \in Nat

VARIABLES
  dep,      \* per place: the Deployment there, or NoOperator
  bound,    \* the place whose ServiceAccount the fixed-name binding names
  places,   \* the operator namespaces that exist
  cred,     \* the places that hold the image-pull secret
  crds,     \* whether the broker resource is known to the cluster
  brokers,  \* the namespaces with a broker resource
  cmd,      \* per file: the command in progress
  told,     \* per file: what its last command ended with
  claim,    \* the files whose namespaces the last write of theirs asked for
  late,     \* brokers created since a removal deleted the operator's bundle
  spent     \* commands, faults and brokers used up, of the bounds above

cluster == <<dep, bound, places, cred, crds>>
vars == <<dep, bound, places, cred, crds, brokers, cmd, told, claim, late, spent>>

Deployments == [watch : SUBSET Namespaces, version : Nat, runs : BOOLEAN]
Phases == {"idle", "asking", "namespace", "regcred", "bundle",
           "release", "narrow", "delete", "crds"}
Outcomes == {"none", "deployed", "refused", "nothing", "kept", "narrowed", "removed", "failed"}
Commands == [phase : Phases, watch : SUBSET Namespaces, ns : BOOLEAN, crd : BOOLEAN,
             agreed : BOOLEAN]
Idle == [phase |-> "idle", watch |-> {}, ns |-> FALSE, crd |-> FALSE, agreed |-> FALSE]

TypeOK ==
  /\ dep \in [Places -> Deployments \cup {NoOperator}]
  /\ bound \in Places \cup {NoPlace}
  /\ places \subseteq Places /\ cred \subseteq Places
  /\ crds \in BOOLEAN
  /\ brokers \subseteq Namespaces /\ late \subseteq Namespaces
  /\ cmd \in [Files -> Commands]
  /\ told \in [Files -> Outcomes]
  /\ claim \subseteq Files
  /\ spent \in [commands : Nat, faults : Nat, brokers : Nat]

Init ==
  /\ dep \in Before
  /\ bound \in {NoPlace} \cup {p \in Places : dep[p] # NoOperator}
  /\ places = {p \in Places : dep[p] # NoOperator}
  /\ cred = {}
  /\ crds \in {FALSE, bound # NoPlace}
  /\ brokers = {} /\ late = {}
  /\ cmd = [f \in Files |-> Idle]
  /\ told = [f \in Files |-> "none"]
  /\ claim = {}
  /\ spent = [commands |-> 0, faults |-> 0, brokers |-> 0]

-----------------------------------------------------------------------------
(* Reading the operator that is installed.                                 *)

Installed == {p \in Places : dep[p] # NoOperator}

\* Where an identity finds an operator: in its own place first, elsewhere
\* only if it may list the whole cluster.  Two elsewhere are ambiguous.
Found(f) ==
  IF Home[f] \in Installed THEN {Home[f]} ELSE IF f \in SeesAll THEN Installed ELSE {}

Ambiguous(f) == Cardinality(Found(f)) > 1

\* What the operator that was found watches; {} where its Deployment says nothing.
Watched(found) == dep[CHOOSE p \in found : TRUE].watch

\* Broken on purpose: the list of the env file replaces the installed one.
RenderedBlindly(f, found) == Desired[f]

\* The watch list to apply, against the one read: a superset of every list
\* stays, a specific one is joined.
Reconciled(f, found) ==
  IF found = {} \/ Desired[f] = {} THEN Desired[f]
  ELSE IF Watched(found) = {} THEN {} ELSE Watched(found) \cup Desired[f]

Downgrades(f, found) == \E p \in found : dep[p].version > Version[f]

\* Broken on purpose: only a downgrade is a question.
AsksForVersion(f, found) == Downgrades(f, found)

\* A deploy asks before it widens a specific list to every namespace and
\* before it installs an older version.
NeedsConsent(f, found) ==
  \/ found # {} /\ Watched(found) # {} /\ Desired[f] = {}
  \/ Downgrades(f, found)

\* A first install by an identity that could not look elsewhere takes the right
\* to hand out the operator's ClusterRole.
MayInstall(f, found) == found # {} \/ f \in SeesAll \cup MayEscalate

\* Whether the namespace document is applied: not over one that exists.  A
\* read that fails leaves the answer to the permission to create it.
NamespacePlan(f, read) ==
  IF read /\ Home[f] \in places THEN {FALSE}
  ELSE IF f \in MayCreateNs THEN {TRUE} ELSE {}

-----------------------------------------------------------------------------
(* operator deploy.                                                        *)

Start(f) ==
  /\ cmd[f].phase = "idle"
  /\ spent.commands < MaxCommands
  /\ Cardinality({g \in Files : cmd[g].phase # "idle"}) < MaxAtOnce
  /\ spent' = [spent EXCEPT !.commands = @ + 1]

End(f, outcome) ==
  /\ cmd' = [cmd EXCEPT ![f] = Idle]
  /\ told' = [told EXCEPT ![f] = outcome]

Goto(f, phase) == cmd' = [cmd EXCEPT ![f].phase = phase] /\ UNCHANGED told

\* The one read a deploy makes, with the probes and refusals around it.
ReadForDeploy(f) ==
  /\ Start(f)
  /\ \E read \in BOOLEAN :
       LET found == Found(f)
           plan == NamespacePlan(f, read)
           refused == \/ Ambiguous(f)
                      \/ ~MayInstall(f, found)
                      \/ plan = {}
       IN IF refused THEN End(f, "refused")
          ELSE /\ cmd' = [cmd EXCEPT ![f] =
                    [phase |-> IF NeedsConsent(f, found) THEN "asking" ELSE "namespace",
                     watch |-> Reconciled(f, found), ns |-> TRUE \in plan,
                     crd |-> FALSE, agreed |-> FALSE]]
               /\ UNCHANGED told
  /\ UNCHANGED <<cluster, brokers, claim, late>>

\* The two questions, downgrade and widening; either "no" applies nothing.
Answer(f) ==
  /\ cmd[f].phase = "asking"
  /\ \/ /\ cmd' = [cmd EXCEPT ![f].phase = "namespace", ![f].agreed = TRUE]
        /\ UNCHANGED told
     \/ End(f, "refused")
  /\ UNCHANGED <<cluster, brokers, claim, late, spent>>

ApplyNamespace(f) ==
  /\ cmd[f].phase = "namespace"
  /\ places' = IF cmd[f].ns THEN places \cup {Home[f]} ELSE places
  /\ Goto(f, IF f \in Pulls THEN "regcred" ELSE "bundle")
  /\ UNCHANGED <<dep, bound, cred, crds, brokers, claim, late, spent>>

ApplyRegcred(f) ==
  /\ cmd[f].phase = "regcred"
  /\ cred' = cred \cup {Home[f]}
  /\ Goto(f, "bundle")
  /\ UNCHANGED <<dep, bound, places, crds, brokers, claim, late, spent>>

Deployment(f) == [watch |-> cmd[f].watch, version |-> Version[f], runs |-> TRUE]

\* The rest of the bundle: definitions, roles with their fixed-name binding,
\* and the Deployment, whose one replica starts an operator that was stopped.
ApplyBundle(f) ==
  /\ cmd[f].phase = "bundle"
  /\ crds' = TRUE
  /\ bound' = Home[f]
  /\ dep' = [dep EXCEPT ![Home[f]] = Deployment(f)]
  /\ claim' = claim \cup {f}
  /\ End(f, "deployed")
  /\ UNCHANGED <<places, cred, brokers, late, spent>>

Fault == spent.faults < MaxFaults /\ spent' = [spent EXCEPT !.faults = @ + 1]

\* An apply that fails, or a command that is killed, leaves any of the
\* bundle's documents applied.
BreakBundle(f) ==
  /\ cmd[f].phase = "bundle"
  /\ Fault
  /\ \E types, roles, controller \in BOOLEAN :
       /\ crds' = (crds \/ types)
       /\ bound' = IF roles THEN Home[f] ELSE bound
       /\ dep' = IF controller THEN [dep EXCEPT ![Home[f]] = Deployment(f)] ELSE dep
       /\ claim' = IF controller THEN claim \cup {f} ELSE claim
  /\ End(f, "failed")
  /\ UNCHANGED <<places, cred, brokers, late>>

-----------------------------------------------------------------------------
(* operator remove.                                                        *)

\* With --delete-crd the definitions go if that is agreed to; while a broker
\* is listed nobody is asked, the request is simply carried to its refusal.
AskRemove(f) ==
  /\ Start(f)
  /\ \E flag, yes \in BOOLEAN :
       cmd' = [cmd EXCEPT ![f] = [Idle EXCEPT !.phase = "release",
                 !.crd = flag /\ (yes \/ (f \in SeesBrokers /\ brokers # {}))]]
  /\ UNCHANGED <<cluster, brokers, told, claim, late>>

\* The gate before the definitions are deleted: no broker anywhere, and an
\* identity that is able to say so.
GateOpen(f) == cmd[f].crd => f \in SeesBrokers /\ brokers = {}

\* What a removal does is decided by what the operator still watches once
\* the namespaces of this file are taken off.
Release(f) ==
  LET found == Found(f)
      w == Watched(found)
      remaining == w \ Desired[f]
  IN /\ cmd[f].phase = "release"
     /\ IF Ambiguous(f) THEN End(f, "failed")
        ELSE IF found = {} THEN End(f, "nothing")
        ELSE IF w = {} THEN End(f, "kept")
        ELSE IF remaining # {}
             THEN cmd' = [cmd EXCEPT ![f].phase = "narrow", ![f].watch = remaining]
                  /\ UNCHANGED told
        ELSE IF GateOpen(f) THEN Goto(f, "delete")
        ELSE End(f, "refused")
     /\ UNCHANGED <<cluster, brokers, claim, late, spent>>

\* `kubectl set env` on the Deployment of this file's own place: one field
\* changes; with no Deployment there the call fails.
SetWatch(f) ==
  /\ cmd[f].phase = "narrow"
  /\ IF Home[f] \in Installed
     THEN /\ dep' = [dep EXCEPT ![Home[f]].watch = cmd[f].watch]
          /\ claim' = claim \ {f}
          /\ End(f, "narrowed")
     ELSE End(f, "failed") /\ UNCHANGED <<dep, claim>>
  /\ UNCHANGED <<bound, places, cred, crds, brokers, late, spent>>

\* The bundle without definitions and namespace, and the image-pull secret.
\* The roles and their binding have fixed names: they go wherever the
\* operator they serve is.
DeleteBundle(f) ==
  /\ cmd[f].phase = "delete"
  /\ bound' = NoPlace
  /\ dep' = [dep EXCEPT ![Home[f]] = NoOperator]
  /\ cred' = IF f \in Pulls THEN cred \ {Home[f]} ELSE cred
  /\ claim' = claim \ {f}
  /\ late' = {}
  /\ IF cmd[f].crd THEN Goto(f, "crds") ELSE End(f, "removed")
  /\ UNCHANGED <<places, crds, brokers, spent>>

\* A delete that fails, or a command that is killed, leaves any of it.
BreakDelete(f) ==
  /\ cmd[f].phase = "delete"
  /\ Fault
  /\ \E roles, controller, secret \in BOOLEAN :
       /\ bound' = IF roles THEN NoPlace ELSE bound
       /\ dep' = IF controller THEN [dep EXCEPT ![Home[f]] = NoOperator] ELSE dep
       /\ cred' = IF secret /\ f \in Pulls THEN cred \ {Home[f]} ELSE cred
       /\ claim' = IF controller THEN claim \ {f} ELSE claim
  /\ End(f, "failed")
  /\ UNCHANGED <<places, crds, brokers, late>>

\* Broken on purpose: the gate is not asked a second time.
GateOnce(f) ==
  /\ cmd[f].phase = "crds" /\ ~cmd[f].agreed
  /\ cmd' = [cmd EXCEPT ![f].agreed = TRUE] /\ UNCHANGED told
  /\ late' = {}
  /\ UNCHANGED <<cluster, brokers, claim, spent>>

\* The gate once more, then the definitions: every broker goes with them.
\* The two calls are two steps, told apart by `agreed`.
GateAgain(f) ==
  /\ cmd[f].phase = "crds" /\ ~cmd[f].agreed
  /\ IF GateOpen(f) THEN cmd' = [cmd EXCEPT ![f].agreed = TRUE] /\ UNCHANGED told
                    ELSE End(f, "failed")
  /\ late' = {}
  /\ UNCHANGED <<cluster, brokers, claim, spent>>

DeleteCRDs(f) ==
  /\ cmd[f].phase = "crds" /\ cmd[f].agreed
  /\ crds' = FALSE
  /\ brokers' = {}
  /\ End(f, "removed")
  /\ UNCHANGED <<dep, bound, places, cred, claim, late, spent>>

-----------------------------------------------------------------------------
(* operator start and stop, and the rest of the cluster.                   *)

\* One patch of the replicas: with no Deployment there, the call fails.
Scale(f) ==
  /\ Start(f)
  /\ Home[f] \in Installed
  /\ \E on \in BOOLEAN : dep' = [dep EXCEPT ![Home[f]].runs = on]
  /\ UNCHANGED <<bound, places, cred, crds, brokers, cmd, told, claim, late>>

\* Somebody deploys or removes a broker, with this tool or without it.
CreateBroker(n) ==
  /\ crds /\ n \notin brokers
  /\ spent.brokers < MaxBrokers
  /\ spent' = [spent EXCEPT !.brokers = @ + 1]
  /\ brokers' = brokers \cup {n}
  /\ late' = late \cup {n}
  /\ UNCHANGED <<cluster, cmd, told, claim>>

RemoveBroker(n) ==
  /\ n \in brokers
  /\ brokers' = brokers \ {n}
  /\ UNCHANGED <<cluster, cmd, told, claim, late, spent>>

Deploy(f) == \/ ReadForDeploy(f) \/ Answer(f) \/ ApplyNamespace(f) \/ ApplyRegcred(f)
             \/ ApplyBundle(f) \/ BreakBundle(f)
Remove(f) == \/ AskRemove(f) \/ Release(f) \/ SetWatch(f) \/ DeleteBundle(f)
             \/ BreakDelete(f) \/ GateAgain(f) \/ DeleteCRDs(f)

Next ==
  \/ \E f \in Files : Deploy(f) \/ Remove(f) \/ Scale(f)
  \/ \E n \in Namespaces : CreateBroker(n) \/ RemoveBroker(n)

Spec == Init /\ [][Next]_vars

-----------------------------------------------------------------------------
(* Properties.                                                             *)

Covers(w, want) == w = {} \/ (want # {} /\ want \subseteq w)

\* An env file that has deployed the operator and has not let go of it is
\* still reconciled, whatever the other env files deployed and removed: the
\* promise of the union and of the subtraction in watch.go.
ClaimsAreServed ==
  \A f \in claim : \E p \in Installed : Covers(dep[p].watch, Desired[f])

\* The operator others depend on is made to watch every namespace, or is
\* taken back to an older version, only by a deploy whose question about it
\* was answered with yes; no removal ever widens what it watches.
SharedOnlyByConsent ==
  [][\A p \in Installed :
       dep'[p] # NoOperator
       /\ ((dep[p].watch # {} /\ dep'[p].watch = {}) \/ dep'[p].version < dep[p].version)
       => \E f \in Files : cmd[f].phase = "bundle" /\ cmd[f].agreed /\ Home[f] = p]_vars

\* Deleting the definitions takes no broker with it that was there when the
\* cluster was asked for the last time.
CascadeTakesNobody ==
  [][(crds /\ ~crds') => brokers \subseteq late]_vars

\* A removal that was told to delete the definitions and ends without an
\* error has deleted them (docs/operations.md: a retry does the whole job).
AskedMeansGone ==
  [][\A f \in Files : (cmd[f].crd /\ told'[f] \in {"nothing", "removed"} /\ cmd'[f] = Idle)
       => ~crds']_vars
=============================================================================
