------------------------- MODULE SharedOperator_proofs -------------------------
(***************************************************************************)
(* Theorems about SharedOperator: any number of env files, places and      *)
(* namespaces.  Commands run one at a time; nothing in the code makes them *)
(* do so, and the theorems say what depends on it.                         *)
(***************************************************************************)
EXTENDS SharedOperator, FiniteSetTheorems, TLAPS

\* One operator command at a time.
OneByOne == MaxAtOnce = 1 /\ IsFiniteSet(Files)

\* No namespace is in the lists of two env files.
NothingInCommon == \A f, g \in Files : f # g => Desired[f] \cap Desired[g] = {}

-------------------------------------------------------------------------------
(* Types *)

\* An operator that was found is installed, and what it watches is a set of namespaces.
LEMMA FoundTypes ==
  ASSUME TypeOK, NEW f \in Files
  PROVE  /\ Found(f) \subseteq Installed
         /\ Found(f) # {} => Watched(Found(f)) \in SUBSET Namespaces
         /\ Reconciled(f, Found(f)) \in SUBSET Namespaces
<1>1. Home[f] \in Places /\ Desired[f] \in SUBSET Namespaces
  BY FilesAssumption
<1>2. Found(f) \subseteq Installed
  BY <1>1 DEF Found
<1>3. \A p \in Installed : dep[p].watch \in SUBSET Namespaces
  BY DEF TypeOK, Installed, Deployments
<1>4. Found(f) # {} => Watched(Found(f)) \in SUBSET Namespaces
  <2>1. Found(f) # {} => (CHOOSE p \in Found(f) : TRUE) \in Found(f)
    OBVIOUS
  <2> QED BY <1>2, <1>3, <2>1 DEF Watched
<1> QED BY <1>1, <1>2, <1>4 DEF Reconciled

LEMMA InitTypeOK == Init => TypeOK
<1> SUFFICES ASSUME Init PROVE TypeOK
  OBVIOUS
<1>1. dep \in [Places -> Deployments \cup {NoOperator}]
  BY FilesAssumption DEF Init, Deployments
<1>2. Idle \in Commands
  BY DEF Idle, Commands, Phases
<1>3. cmd \in [Files -> Commands] /\ told \in [Files -> Outcomes]
  BY <1>2 DEF Init, Outcomes
<1>4. bound \in Places \cup {NoPlace} /\ places \subseteq Places /\ crds \in BOOLEAN
  BY DEF Init
<1> QED BY <1>1, <1>3, <1>4 DEF Init, TypeOK

LEMMA DeploymentType ==
  ASSUME TypeOK, NEW f \in Files
  PROVE  Deployment(f) \in Deployments /\ Home[f] \in Places
BY FilesAssumption DEF TypeOK, Deployment, Deployments, Commands

LEMMA CommandTypes ==
  ASSUME TypeOK, NEW f \in Files
  PROVE  /\ \A o \in Outcomes : End(f, o) => cmd' \in [Files -> Commands] /\ told' \in [Files -> Outcomes]
         /\ \A p \in Phases : Goto(f, p) => cmd' \in [Files -> Commands] /\ told' \in [Files -> Outcomes]
         /\ (Start(f) \/ Fault) => spent' \in [commands : Nat, faults : Nat, brokers : Nat]
<1>1. Idle \in Commands
  BY DEF Idle, Commands, Phases
<1>2. ASSUME NEW o \in Outcomes, End(f, o)
      PROVE  cmd' \in [Files -> Commands] /\ told' \in [Files -> Outcomes]
  BY <1>1, <1>2 DEF TypeOK, End
<1>3. ASSUME NEW p \in Phases, Goto(f, p)
      PROVE  cmd' \in [Files -> Commands] /\ told' \in [Files -> Outcomes]
  <2>1. [cmd[f] EXCEPT !.phase = p] \in Commands
    BY DEF TypeOK, Commands
  <2> QED BY <1>3, <2>1 DEF TypeOK, Goto
<1>4. (Start(f) \/ Fault) => spent' \in [commands : Nat, faults : Nat, brokers : Nat]
  BY DEF TypeOK, Start, Fault
<1> QED BY <1>2, <1>3, <1>4

LEMMA DeployTypes ==
  ASSUME TypeOK, NEW f \in Files, Deploy(f)
  PROVE  TypeOK'
<1> USE DEF cluster
<1>1. CASE ReadForDeploy(f)
  <2>1. cmd' \in [Files -> Commands] /\ told' \in [Files -> Outcomes]
    <3>1. PICK read \in BOOLEAN :
            \/ End(f, "refused")
            \/ /\ cmd' = [cmd EXCEPT ![f] =
                    [phase |-> IF NeedsConsent(f, Found(f)) THEN "asking" ELSE "namespace",
                     watch |-> Reconciled(f, Found(f)), ns |-> TRUE \in NamespacePlan(f, read),
                     crd |-> FALSE, agreed |-> FALSE]]
               /\ UNCHANGED told
      BY <1>1, Zenon DEF ReadForDeploy
    <3>2. [phase |-> IF NeedsConsent(f, Found(f)) THEN "asking" ELSE "namespace",
           watch |-> Reconciled(f, Found(f)), ns |-> TRUE \in NamespacePlan(f, read),
           crd |-> FALSE, agreed |-> FALSE] \in Commands
      BY FoundTypes DEF Commands, Phases
    <3>3. CASE End(f, "refused")
      BY <3>3, CommandTypes DEF Outcomes
    <3> QED BY <3>1, <3>2, <3>3 DEF TypeOK
  <2> QED BY <1>1, <2>1, CommandTypes DEF ReadForDeploy, TypeOK
<1>2. CASE Answer(f)
  <2>1. cmd' \in [Files -> Commands] /\ told' \in [Files -> Outcomes]
    <3>1. CASE End(f, "refused")
      BY <3>1, CommandTypes DEF Outcomes
    <3>2. [cmd[f] EXCEPT !.phase = "namespace", !.agreed = TRUE] \in Commands
      BY ZenonT(60) DEF TypeOK, Commands, Phases
    <3> QED BY <1>2, <3>1, <3>2 DEF Answer, TypeOK
  <2> QED BY <1>2, <2>1 DEF Answer, TypeOK
<1>3. CASE ApplyNamespace(f)
  BY <1>3, CommandTypes, DeploymentType DEF ApplyNamespace, TypeOK, Phases
<1>4. CASE ApplyRegcred(f)
  BY <1>4, CommandTypes, DeploymentType DEF ApplyRegcred, TypeOK, Phases
<1>5. CASE ApplyBundle(f)
  BY <1>5, CommandTypes, DeploymentType DEF ApplyBundle, TypeOK, Outcomes
<1>6. CASE BreakBundle(f)
  <2>1. dep' \in [Places -> Deployments \cup {NoOperator}] /\ claim' \subseteq Files
    BY <1>6, DeploymentType DEF BreakBundle, TypeOK
  <2>2. crds' \in BOOLEAN /\ bound' \in Places \cup {NoPlace}
    BY <1>6, DeploymentType DEF BreakBundle, TypeOK
  <2> QED BY <1>6, <2>1, <2>2, CommandTypes DEF BreakBundle, TypeOK, Outcomes
<1> QED BY <1>1, <1>2, <1>3, <1>4, <1>5, <1>6 DEF Deploy

LEMMA RemoveTypes ==
  ASSUME TypeOK, NEW f \in Files, Remove(f)
  PROVE  TypeOK'
<1> USE DEF cluster
<1>1. CASE AskRemove(f)
  <2>1. cmd' \in [Files -> Commands]
    <3>1. \A b \in BOOLEAN : [Idle EXCEPT !.phase = "release", !.crd = b] \in Commands
      BY DEF Idle, Commands, Phases
    <3> QED BY <1>1, <3>1 DEF AskRemove, TypeOK
  <2> QED BY <1>1, <2>1, CommandTypes DEF AskRemove, TypeOK
<1>2. CASE Release(f)
  <2>1. cmd' \in [Files -> Commands] /\ told' \in [Files -> Outcomes]
    <3>1. \/ \E o \in Outcomes : End(f, o)
          \/ Goto(f, "delete")
          \/ /\ Found(f) # {}
             /\ cmd' = [cmd EXCEPT ![f].phase = "narrow", ![f].watch = Watched(Found(f)) \ Desired[f]]
             /\ UNCHANGED told
      BY <1>2 DEF Release, Outcomes
    <3> QED BY <3>1, CommandTypes, FoundTypes DEF TypeOK, Commands, Phases
  <2> QED BY <1>2, <2>1 DEF Release, TypeOK
<1>3. CASE SetWatch(f)
  <2>1. dep' \in [Places -> Deployments \cup {NoOperator}]
    BY <1>3 DEF SetWatch, TypeOK, Installed, Deployments, Commands
  <2>2. claim' \subseteq Files
    BY <1>3 DEF SetWatch, TypeOK
  <2> QED BY <1>3, <2>1, <2>2, CommandTypes DEF SetWatch, TypeOK, Outcomes
<1>4. CASE DeleteBundle(f)
  BY <1>4, CommandTypes, DeploymentType DEF DeleteBundle, TypeOK, Outcomes, Phases
<1>5. CASE BreakDelete(f)
  <2>1. dep' \in [Places -> Deployments \cup {NoOperator}] /\ claim' \subseteq Files
    BY <1>5, DeploymentType DEF BreakDelete, TypeOK
  <2>2. bound' \in Places \cup {NoPlace} /\ cred' \subseteq Places
    BY <1>5 DEF BreakDelete, TypeOK
  <2> QED BY <1>5, <2>1, <2>2, CommandTypes DEF BreakDelete, TypeOK, Outcomes
<1>6. CASE GateAgain(f)
  <2>1. cmd' \in [Files -> Commands] /\ told' \in [Files -> Outcomes]
    <3>1. [cmd[f] EXCEPT !.agreed = TRUE] \in Commands
      BY DEF TypeOK, Commands
    <3> QED BY <1>6, <3>1, CommandTypes DEF GateAgain, TypeOK, Outcomes
  <2> QED BY <1>6, <2>1 DEF GateAgain, TypeOK
<1>7. CASE DeleteCRDs(f)
  BY <1>7, CommandTypes DEF DeleteCRDs, TypeOK, Outcomes
<1> QED BY <1>1, <1>2, <1>3, <1>4, <1>5, <1>6, <1>7 DEF Remove

LEMMA NextTypeOK == TypeOK /\ [Next]_vars => TypeOK'
<1> SUFFICES ASSUME TypeOK, [Next]_vars PROVE TypeOK'
  OBVIOUS
<1> USE DEF cluster
<1>1. CASE \E f \in Files : Deploy(f) \/ Remove(f)
  BY <1>1, DeployTypes, RemoveTypes
<1>2. ASSUME NEW f \in Files, Scale(f) PROVE TypeOK'
  <2>1. dep' \in [Places -> Deployments \cup {NoOperator}]
    BY <1>2 DEF Scale, TypeOK, Installed, Deployments
  <2> QED BY <1>2, <2>1, CommandTypes DEF Scale, TypeOK
<1>3. ASSUME NEW n \in Namespaces, CreateBroker(n) PROVE TypeOK'
  BY <1>3 DEF CreateBroker, TypeOK
<1>4. ASSUME NEW n \in Namespaces, RemoveBroker(n) PROVE TypeOK'
  BY <1>4 DEF RemoveBroker, TypeOK
<1>5. CASE UNCHANGED vars
  BY <1>5 DEF vars, TypeOK
<1> QED BY <1>1, <1>2, <1>3, <1>4, <1>5 DEF Next

\* Every variable holds a value of its kind.
THEOREM TypeCorrect == Spec => []TypeOK
BY InitTypeOK, NextTypeOK, PTL DEF Spec

-------------------------------------------------------------------------------
(* What a command has read still holds when it acts on it *)

Planned == {"asking", "namespace", "regcred", "bundle"}

\* Two commands are never in progress.
OnlyOne == \A f, g \in Files : cmd[f].phase # "idle" /\ cmd[g].phase # "idle" => f = g

\* What a deploy is going to write serves its own file and whatever is served by the
\* operator it replaces; what needs consent has it once the questions are behind it.
PlanFits(f) ==
  cmd[f].phase \in Planned =>
    /\ Covers(cmd[f].watch, Desired[f])
    /\ Home[f] \in Installed =>
         /\ cmd[f].watch = {} \/ (dep[Home[f]].watch # {} /\ dep[Home[f]].watch \subseteq cmd[f].watch)
         /\ cmd[f].phase # "asking" /\ ~cmd[f].agreed =>
              /\ dep[Home[f]].watch # {} => cmd[f].watch # {}
              /\ ~(dep[Home[f]].version > Version[f])

\* What a removal is going to write leaves off the namespaces of its own file only,
\* and what it is going to delete watches no others.
RemovalFits(f) ==
  Home[f] \in Installed =>
    /\ cmd[f].phase = "narrow" =>
         cmd[f].watch # {} /\ cmd[f].watch = dep[Home[f]].watch \ Desired[f]
    /\ cmd[f].phase = "delete" =>
         dep[Home[f]].watch # {} /\ dep[Home[f]].watch \subseteq Desired[f]

\* Past its last look, every broker is one that came after it.
GateFits(f) ==
  /\ cmd[f].phase \in {"release", "delete"} => ~cmd[f].agreed
  /\ cmd[f].phase = "crds" => cmd[f].crd /\ (cmd[f].agreed => brokers \subseteq late)

Fits == \A f \in Files : PlanFits(f) /\ RemovalFits(f) /\ GateFits(f)

FInv == TypeOK /\ OnlyOne /\ Fits
IInv == FInv /\ ClaimsAreServed

\* A command starts when no other is in progress.
LEMMA StartsAlone ==
  ASSUME OneByOne, TypeOK, NEW f \in Files, Start(f)
  PROVE  \A g \in Files : cmd[g].phase = "idle"
<1> DEFINE Busy == {g \in Files : cmd[g].phase # "idle"}
<1>1. IsFiniteSet(Busy)
  BY FS_Subset DEF OneByOne
<1>2. Cardinality(Busy) \in Nat /\ Cardinality(Busy) < 1
  BY <1>1, FS_CardinalityType DEF Start, OneByOne
<1>3. Cardinality(Busy) = 0
  BY <1>2
<1>4. Busy = {}
  BY <1>1, <1>3, FS_EmptySet
<1> QED BY <1>4

\* An operator in a file's own place is the one it finds.
LEMMA FindsItsOwn ==
  ASSUME TypeOK, NEW f \in Files, Home[f] \in Installed
  PROVE  Found(f) = {Home[f]} /\ Watched(Found(f)) = dep[Home[f]].watch
<1>1. Found(f) = {Home[f]}
  BY DEF Found
<1>2. (CHOOSE p \in {Home[f]} : TRUE) = Home[f]
  OBVIOUS
<1> QED BY <1>1, <1>2 DEF Watched

\* A plan as it is read fits.
LEMMA PlanAsRead ==
  ASSUME TypeOK, NEW f \in Files
  PROVE  /\ Covers(Reconciled(f, Found(f)), Desired[f])
         /\ Home[f] \in Installed =>
              LET w == Reconciled(f, Found(f)) IN
              /\ w = {} \/ (dep[Home[f]].watch # {} /\ dep[Home[f]].watch \subseteq w)
              /\ ~NeedsConsent(f, Found(f)) =>
                   /\ dep[Home[f]].watch # {} => w # {}
                   /\ ~(dep[Home[f]].version > Version[f])
<1>1. Covers(Reconciled(f, Found(f)), Desired[f])
  BY DEF Covers, Reconciled
<1>2. CASE Home[f] \in Installed
  BY <1>1, <1>2, FindsItsOwn DEF Reconciled, NeedsConsent, Downgrades
<1> QED BY <1>1, <1>2

\* What is served stays served under a watch list that only grows.
LEMMA GrowsServes ==
  ASSUME NEW w, NEW v, NEW want, Covers(w, want), v = {} \/ (w # {} /\ w \subseteq v)
  PROVE  Covers(v, want)
BY DEF Covers

\* A command that is the only one is the only one to look at.
LEMMA OnlyThisOne ==
  ASSUME NEW f \in Files, \A g \in Files : g # f => cmd[g].phase = "idle" /\ cmd'[g] = cmd[g],
         PlanFits(f)', RemovalFits(f)', GateFits(f)'
  PROVE  OnlyOne' /\ Fits'
<1>1. \A g \in Files : g # f => cmd'[g].phase = "idle"
  OBVIOUS
<1>2. \A g \in Files : g # f => PlanFits(g)' /\ RemovalFits(g)' /\ GateFits(g)'
  BY <1>1 DEF PlanFits, RemovalFits, GateFits, Planned
<1> QED BY <1>1, <1>2 DEF OnlyOne, Fits

\* A command that has ended claims nothing.
LEMMA EndFits ==
  ASSUME TypeOK, NEW f \in Files, NEW o, End(f, o)
  PROVE  PlanFits(f)' /\ RemovalFits(f)' /\ GateFits(f)'
<1>1. cmd'[f].phase = "idle"
  BY DEF TypeOK, End, Idle
<1> QED BY <1>1 DEF PlanFits, RemovalFits, GateFits, Planned

\* While a command is in progress, and when one starts, the others are idle and
\* stay so.
LEMMA OthersAreIdle ==
  ASSUME OneByOne, TypeOK, OnlyOne, NEW f \in Files,
         Start(f) \/ cmd[f].phase # "idle",
         Deploy(f) \/ Remove(f) \/ Scale(f)
  PROVE  \A g \in Files : g # f => cmd[g].phase = "idle" /\ cmd'[g] = cmd[g]
<1>1. \A g \in Files : g # f => cmd[g].phase = "idle"
  BY StartsAlone DEF OnlyOne
<1>2. \A g \in Files : g # f => cmd'[g] = cmd[g]
  <2>1. (\E c : cmd' = [cmd EXCEPT ![f] = c]) \/ UNCHANGED cmd
    <3>1. CASE Deploy(f)
      BY <3>1 DEF Deploy, ReadForDeploy, Answer, ApplyNamespace, ApplyRegcred, ApplyBundle, BreakBundle, Goto, End
    <3>2. CASE Remove(f)
      BY <3>2 DEF Remove, AskRemove, Release, SetWatch, DeleteBundle, BreakDelete, GateAgain, DeleteCRDs, Goto, End
    <3>3. CASE Scale(f)
      BY <3>3 DEF Scale
    <3> QED BY <3>1, <3>2, <3>3
  <2> QED BY <2>1 DEF TypeOK
<1> QED BY <1>1, <1>2

\* Who is served stays so while no operator changes and nobody claims more.
LEMMA NothingMoves ==
  ASSUME ClaimsAreServed, UNCHANGED <<dep, claim>>
  PROVE  ClaimsAreServed'
BY DEF ClaimsAreServed, Installed

-------------------------------------------------------------------------------
(* operator deploy *)

LEMMA ReadForDeployFits ==
  ASSUME TypeOK, NEW f \in Files, ReadForDeploy(f)
  PROVE  PlanFits(f)' /\ RemovalFits(f)' /\ GateFits(f)'
<1>0. PICK read \in BOOLEAN :
        \/ End(f, "refused")
        \/ /\ cmd' = [cmd EXCEPT ![f] =
                [phase |-> IF NeedsConsent(f, Found(f)) THEN "asking" ELSE "namespace",
                 watch |-> Reconciled(f, Found(f)), ns |-> TRUE \in NamespacePlan(f, read),
                 crd |-> FALSE, agreed |-> FALSE]]
           /\ UNCHANGED told
  BY Zenon DEF ReadForDeploy
<1>1. CASE End(f, "refused")
  BY <1>1, EndFits
<1>2. CASE cmd' = [cmd EXCEPT ![f] =
                    [phase |-> IF NeedsConsent(f, Found(f)) THEN "asking" ELSE "namespace",
                     watch |-> Reconciled(f, Found(f)), ns |-> TRUE \in NamespacePlan(f, read),
                     crd |-> FALSE, agreed |-> FALSE]]
  <2>1. /\ cmd'[f].phase = IF NeedsConsent(f, Found(f)) THEN "asking" ELSE "namespace"
        /\ cmd'[f].watch = Reconciled(f, Found(f)) /\ ~cmd'[f].agreed
    BY <1>2 DEF TypeOK
  <2>2. dep' = dep
    BY DEF ReadForDeploy, cluster
  <2>3. PlanFits(f)'
    BY <2>1, <2>2, PlanAsRead DEF PlanFits, Installed
  <2> QED BY <2>1, <2>3 DEF RemovalFits, GateFits
<1> QED BY <1>0, <1>1, <1>2

LEMMA ApplyBundleServes ==
  ASSUME TypeOK, ClaimsAreServed, NEW f \in Files, PlanFits(f), cmd[f].phase = "bundle",
         dep' = [dep EXCEPT ![Home[f]] = Deployment(f)], claim' = claim \cup {f}
  PROVE  ClaimsAreServed'
<1>1. Home[f] \in Places
  BY FilesAssumption
<1>2. Deployment(f) # NoOperator /\ Deployment(f).watch = cmd[f].watch
  BY DeploymentType, FilesAssumption DEF Deployment, Deployments
<1>3. /\ dep'[Home[f]] = Deployment(f)
      /\ \A p \in Places : p # Home[f] => dep'[p] = dep[p]
  BY <1>1 DEF TypeOK
<1>4. Home[f] \in Installed' /\ \A p \in Installed : p \in Installed'
  BY <1>1, <1>2, <1>3 DEF Installed
<1>5. Covers(dep'[Home[f]].watch, Desired[f])
  BY <1>2, <1>3 DEF PlanFits, Planned
<1>6. ASSUME NEW g \in claim PROVE \E p \in Installed' : Covers(dep'[p].watch, Desired[g])
  <2>1. PICK p \in Installed : Covers(dep[p].watch, Desired[g])
    BY DEF ClaimsAreServed
  <2>2. CASE p = Home[f]
    <3>1. cmd[f].watch = {} \/ (dep[p].watch # {} /\ dep[p].watch \subseteq cmd[f].watch)
      BY <2>2 DEF PlanFits, Planned
    <3>2. Covers(cmd[f].watch, Desired[g])
      BY <2>1, <3>1, GrowsServes
    <3> QED BY <1>2, <1>3, <1>4, <3>2
  <2>3. CASE p # Home[f]
    BY <1>3, <1>4, <2>1, <2>3 DEF Installed
  <2> QED BY <2>2, <2>3
<1> QED BY <1>4, <1>5, <1>6 DEF ClaimsAreServed

LEMMA DeployFits ==
  ASSUME OneByOne, FInv, NEW f \in Files, Deploy(f)
  PROVE  OnlyOne' /\ Fits'
<1> USE DEF FInv
<1>0. PlanFits(f) /\ RemovalFits(f) /\ GateFits(f)
  BY DEF Fits
<1>1. \A g \in Files : g # f => cmd[g].phase = "idle" /\ cmd'[g] = cmd[g]
  BY OthersAreIdle DEF Deploy, ReadForDeploy, Answer, ApplyNamespace, ApplyRegcred, ApplyBundle, BreakBundle
<1>2. PlanFits(f)' /\ RemovalFits(f)' /\ GateFits(f)'
  <2>1. CASE ReadForDeploy(f)
    BY <2>1, ReadForDeployFits
  <2>2. CASE Answer(f)
    <3>1. CASE End(f, "refused")
      BY <3>1, EndFits
    <3>2. CASE cmd' = [cmd EXCEPT ![f].phase = "namespace", ![f].agreed = TRUE]
      <4>1. cmd'[f].phase = "namespace" /\ cmd'[f].agreed /\ cmd'[f].watch = cmd[f].watch
        BY <3>2 DEF TypeOK, Commands
      <4>2. dep' = dep /\ cmd[f].phase = "asking"
        BY <2>2 DEF Answer, cluster
      <4> QED BY <1>0, <4>1, <4>2 DEF PlanFits, RemovalFits, GateFits, Planned, Installed
    <3> QED BY <2>2, <3>1, <3>2 DEF Answer
  <2>3. CASE ApplyNamespace(f) \/ ApplyRegcred(f)
    <3>1. /\ cmd'[f].phase \in {"regcred", "bundle"} /\ cmd'[f].agreed = cmd[f].agreed
          /\ cmd'[f].watch = cmd[f].watch
      BY <2>3 DEF ApplyNamespace, ApplyRegcred, Goto, TypeOK, Commands
    <3>2. dep' = dep /\ cmd[f].phase \in {"namespace", "regcred"}
      BY <2>3 DEF ApplyNamespace, ApplyRegcred
    <3> QED BY <1>0, <3>1, <3>2 DEF PlanFits, RemovalFits, GateFits, Planned, Installed
  <2>4. CASE ApplyBundle(f) \/ BreakBundle(f)
    BY <2>4, EndFits DEF ApplyBundle, BreakBundle
  <2> QED BY <2>1, <2>2, <2>3, <2>4 DEF Deploy
<1> QED BY <1>1, <1>2, OnlyThisOne

LEMMA DeployServes ==
  ASSUME IInv, NEW f \in Files, Deploy(f)
  PROVE  ClaimsAreServed'
<1> USE DEF IInv, FInv
<1>1. PlanFits(f)
  BY DEF Fits
<1>2. CASE UNCHANGED <<dep, claim>>
  BY <1>2, NothingMoves
<1>3. CASE /\ cmd[f].phase = "bundle"
           /\ dep' = [dep EXCEPT ![Home[f]] = Deployment(f)] /\ claim' = claim \cup {f}
  BY <1>1, <1>3, ApplyBundleServes
<1>4. CASE BreakBundle(f)
  BY <1>2, <1>3, <1>4 DEF BreakBundle
<1> QED BY <1>2, <1>3, <1>4
        DEF Deploy, ReadForDeploy, Answer, ApplyNamespace, ApplyRegcred, ApplyBundle, cluster

-------------------------------------------------------------------------------
(* operator remove *)

\* What an operator watches that a removal has found in its file's own place.
LEMMA ReleaseFits ==
  ASSUME TypeOK, NEW f \in Files, GateFits(f), Release(f)
  PROVE  PlanFits(f)' /\ RemovalFits(f)' /\ GateFits(f)'
<1>1. CASE \E o \in Outcomes : End(f, o)
  BY <1>1, EndFits
<1>2. CASE /\ Found(f) # {} /\ Watched(Found(f)) \ Desired[f] # {}
           /\ cmd' = [cmd EXCEPT ![f].phase = "narrow", ![f].watch = Watched(Found(f)) \ Desired[f]]
  <2>1. cmd'[f].phase = "narrow" /\ cmd'[f].watch = Watched(Found(f)) \ Desired[f]
    BY <1>2 DEF TypeOK, Commands
  <2>2. dep' = dep
    BY DEF Release, cluster
  <2> QED BY <1>2, <2>1, <2>2, FindsItsOwn DEF PlanFits, RemovalFits, GateFits, Planned, Installed
<1>3. CASE /\ Found(f) # {} /\ Watched(Found(f)) # {} /\ Watched(Found(f)) \ Desired[f] = {}
           /\ Goto(f, "delete")
  <2>1. cmd'[f].phase = "delete" /\ cmd'[f].agreed = cmd[f].agreed
    BY <1>3 DEF Goto, TypeOK, Commands
  <2>2. dep' = dep /\ cmd[f].phase = "release"
    BY DEF Release, cluster
  <2>3. RemovalFits(f)'
    BY <1>3, <2>1, <2>2, FindsItsOwn DEF RemovalFits, Installed
  <2> QED BY <2>1, <2>2, <2>3 DEF PlanFits, GateFits, Planned
<1> QED BY <1>1, <1>2, <1>3 DEF Release, Outcomes

\* The others are served as before by an operator that loses this file's namespaces.
LEMMA SetWatchServes ==
  ASSUME NothingInCommon, TypeOK, ClaimsAreServed, NEW f \in Files, RemovalFits(f), SetWatch(f)
  PROVE  ClaimsAreServed'
<1>1. CASE UNCHANGED <<dep, claim>>
  BY <1>1, NothingMoves
<1>2. CASE /\ Home[f] \in Installed
           /\ dep' = [dep EXCEPT ![Home[f]].watch = cmd[f].watch] /\ claim' = claim \ {f}
  <2>1. cmd[f].watch # {} /\ cmd[f].watch = dep[Home[f]].watch \ Desired[f]
    BY <1>2 DEF SetWatch, RemovalFits
  <2>2. /\ dep'[Home[f]].watch = cmd[f].watch /\ dep'[Home[f]] # NoOperator
        /\ \A p \in Places : p # Home[f] => dep'[p] = dep[p]
    <3>1. dep[Home[f]] \in Deployments /\ cmd[f].watch \in SUBSET Namespaces
      BY <1>2 DEF Installed, TypeOK, Commands
    <3>2. dep'[Home[f]] = [dep[Home[f]] EXCEPT !.watch = cmd[f].watch]
      BY <1>2 DEF Installed, TypeOK
    <3>3. dep'[Home[f]] \in Deployments /\ dep'[Home[f]].watch = cmd[f].watch
      BY <3>1, <3>2 DEF Deployments
    <3>4. NoOperator \notin Deployments
      BY FilesAssumption DEF Deployments
    <3> QED BY <1>2, <3>3, <3>4 DEF TypeOK
  <2>3. ASSUME NEW g \in claim' PROVE \E p \in Installed' : Covers(dep'[p].watch, Desired[g])
    <3>1. g \in claim /\ g \in Files /\ g # f
      BY <1>2 DEF TypeOK
    <3>2. PICK p \in Installed : Covers(dep[p].watch, Desired[g])
      BY <3>1 DEF ClaimsAreServed
    <3>3. p \in Installed'
      BY <1>2, <2>2, <3>2 DEF Installed
    <3>4. CASE p = Home[f]
      <4>1. Desired[g] \cap Desired[f] = {}
        BY <3>1 DEF NothingInCommon
      <4>2. Covers(cmd[f].watch, Desired[g])
        BY <2>1, <3>2, <3>4, <4>1 DEF Covers
      <4> QED BY <2>2, <3>3, <3>4, <4>2
    <3>5. CASE p # Home[f]
      BY <2>2, <3>2, <3>3, <3>5 DEF Installed
    <3> QED BY <3>4, <3>5
  <2> QED BY <2>3 DEF ClaimsAreServed
<1> QED BY <1>1, <1>2 DEF SetWatch

\* Nobody else is served by an operator that watches this file's namespaces only.
LEMMA DeleteServes ==
  ASSUME NothingInCommon, TypeOK, ClaimsAreServed, NEW f \in Files, RemovalFits(f), cmd[f].phase = "delete",
         dep' = [dep EXCEPT ![Home[f]] = NoOperator], claim' = claim \ {f}
  PROVE  ClaimsAreServed'
<1>1. \A p \in Places : p # Home[f] => dep'[p] = dep[p]
  BY DEF TypeOK
<1>2. ASSUME NEW g \in claim' PROVE \E p \in Installed' : Covers(dep'[p].watch, Desired[g])
  <2>1. g \in claim /\ g \in Files /\ g # f
    BY DEF TypeOK
  <2>2. PICK p \in Installed : Covers(dep[p].watch, Desired[g])
    BY <2>1 DEF ClaimsAreServed
  <2>3. p # Home[f]
    <3>1. Desired[g] \cap Desired[f] = {}
      BY <2>1 DEF NothingInCommon
    <3>2. Home[f] \in Installed => dep[Home[f]].watch # {} /\ dep[Home[f]].watch \subseteq Desired[f]
      BY DEF RemovalFits
    <3> QED BY <2>2, <3>1, <3>2 DEF Covers
  <2> QED BY <1>1, <2>2, <2>3 DEF Installed
<1> QED BY <1>2 DEF ClaimsAreServed

LEMMA RemoveFits ==
  ASSUME OneByOne, FInv, NEW f \in Files, Remove(f)
  PROVE  OnlyOne' /\ Fits'
<1> USE DEF FInv
<1>0. PlanFits(f) /\ RemovalFits(f) /\ GateFits(f)
  BY DEF Fits
<1>1. \A g \in Files : g # f => cmd[g].phase = "idle" /\ cmd'[g] = cmd[g]
  BY OthersAreIdle DEF Remove, AskRemove, Release, SetWatch, DeleteBundle, BreakDelete, GateAgain, DeleteCRDs
<1>2. PlanFits(f)' /\ RemovalFits(f)' /\ GateFits(f)'
  <2>1. CASE AskRemove(f)
    <3>1. cmd'[f].phase = "release" /\ ~cmd'[f].agreed
      BY <2>1 DEF AskRemove, TypeOK, Idle
    <3> QED BY <3>1 DEF PlanFits, RemovalFits, GateFits, Planned
  <2>2. CASE Release(f)
    BY <1>0, <2>2, ReleaseFits
  <2>3. CASE SetWatch(f) \/ BreakDelete(f) \/ DeleteCRDs(f)
    BY <2>3, EndFits DEF SetWatch, BreakDelete, DeleteCRDs
  <2>4. CASE DeleteBundle(f)
    <3>1. CASE End(f, "removed")
      BY <3>1, EndFits
    <3>2. CASE cmd[f].crd /\ Goto(f, "crds")
      <4>1. cmd'[f].phase = "crds" /\ cmd'[f].crd /\ ~cmd'[f].agreed
        BY <1>0, <2>4, <3>2 DEF DeleteBundle, Goto, GateFits, TypeOK, Commands
      <4> QED BY <4>1 DEF PlanFits, RemovalFits, GateFits, Planned
    <3> QED BY <2>4, <3>1, <3>2 DEF DeleteBundle
  <2>5. CASE GateAgain(f)
    <3>1. CASE End(f, "failed")
      BY <3>1, EndFits
    <3>2. CASE GateOpen(f) /\ cmd' = [cmd EXCEPT ![f].agreed = TRUE]
      <4>1. cmd'[f].phase = "crds" /\ cmd'[f].crd /\ brokers' = {}
        BY <1>0, <2>5, <3>2 DEF GateAgain, GateFits, GateOpen, TypeOK, Commands
      <4> QED BY <4>1 DEF PlanFits, RemovalFits, GateFits, Planned
    <3> QED BY <2>5, <3>1, <3>2 DEF GateAgain
  <2> QED BY <2>1, <2>2, <2>3, <2>4, <2>5 DEF Remove
<1> QED BY <1>1, <1>2, OnlyThisOne

LEMMA RemoveServes ==
  ASSUME NothingInCommon, IInv, NEW f \in Files, Remove(f)
  PROVE  ClaimsAreServed'
<1> USE DEF IInv, FInv
<1>1. RemovalFits(f)
  BY DEF Fits
<1>2. CASE UNCHANGED <<dep, claim>>
  BY <1>2, NothingMoves
<1>3. CASE SetWatch(f)
  BY <1>1, <1>3, SetWatchServes
<1>4. CASE /\ cmd[f].phase = "delete"
           /\ dep' = [dep EXCEPT ![Home[f]] = NoOperator] /\ claim' = claim \ {f}
  BY <1>1, <1>4, DeleteServes
<1>5. CASE DeleteBundle(f)
  BY <1>4, <1>5 DEF DeleteBundle
<1>6. CASE BreakDelete(f)
  BY <1>2, <1>4, <1>6 DEF BreakDelete
<1> QED BY <1>2, <1>3, <1>5, <1>6 DEF Remove, AskRemove, Release, GateAgain, DeleteCRDs, cluster

-------------------------------------------------------------------------------
(* The rest of the cluster, and the theorems *)

LEMMA ScaleFits ==
  ASSUME OneByOne, FInv, NEW f \in Files, Scale(f)
  PROVE  OnlyOne' /\ Fits'
<1>1. \A g \in Files : cmd'[g].phase = "idle"
  BY StartsAlone DEF Scale, FInv
<1> QED BY <1>1 DEF OnlyOne, Fits, PlanFits, RemovalFits, GateFits, Planned

\* Starting and stopping an operator leaves it what it is.
LEMMA ScaleKeeps ==
  ASSUME TypeOK, NEW f \in Files, Scale(f)
  PROVE  \A p \in Installed : /\ p \in Installed' /\ dep'[p].watch = dep[p].watch
                             /\ dep'[p].version = dep[p].version
<1>1. PICK on \in BOOLEAN : dep' = [dep EXCEPT ![Home[f]].runs = on]
  BY DEF Scale
<1>2. ASSUME NEW p \in Installed
      PROVE  /\ dep'[p] \in Deployments /\ dep'[p].watch = dep[p].watch
             /\ dep'[p].version = dep[p].version
  <2>1. dep[p] \in Deployments
    BY DEF Installed, TypeOK
  <2> QED BY <1>1, <2>1 DEF Installed, TypeOK, Deployments
<1>3. NoOperator \notin Deployments
  BY FilesAssumption DEF Deployments
<1> QED BY <1>2, <1>3 DEF Installed

LEMMA InitInv == Init => IInv
<1> SUFFICES ASSUME Init PROVE IInv
  OBVIOUS
<1>1. \A f \in Files : cmd[f].phase = "idle"
  BY DEF Init, Idle
<1>2. OnlyOne /\ Fits
  BY <1>1 DEF OnlyOne, Fits, PlanFits, RemovalFits, GateFits, Planned
<1>3. ClaimsAreServed
  BY DEF Init, ClaimsAreServed
<1> QED BY <1>2, <1>3, InitTypeOK DEF IInv, FInv

LEMMA NextFits ==
  ASSUME OneByOne
  PROVE  FInv /\ [Next]_vars => FInv'
<1> SUFFICES ASSUME FInv, [Next]_vars PROVE OnlyOne' /\ Fits'
  BY NextTypeOK DEF FInv
<1>1. CASE \E f \in Files : Deploy(f) \/ Remove(f) \/ Scale(f)
  BY <1>1, DeployFits, RemoveFits, ScaleFits
<1>2. CASE UNCHANGED <<dep, cmd>> /\ (brokers \subseteq late => brokers' \subseteq late')
  <2>1. OnlyOne'
    BY <1>2 DEF FInv, OnlyOne
  <2>2. Fits'
    BY <1>2 DEF FInv, Fits, PlanFits, RemovalFits, GateFits, Installed
  <2> QED BY <2>1, <2>2
<1>3. CASE \E n \in Namespaces : CreateBroker(n) \/ RemoveBroker(n)
  BY <1>2, <1>3 DEF CreateBroker, RemoveBroker, cluster
<1>4. CASE UNCHANGED vars
  BY <1>2, <1>4 DEF vars
<1> QED BY <1>1, <1>3, <1>4 DEF Next

LEMMA NextServes ==
  ASSUME OneByOne, NothingInCommon
  PROVE  IInv /\ [Next]_vars => IInv'
<1> SUFFICES ASSUME IInv, [Next]_vars PROVE ClaimsAreServed'
  BY NextFits DEF IInv
<1>1. CASE \E f \in Files : Deploy(f) \/ Remove(f)
  BY <1>1, DeployServes, RemoveServes
<1>2. ASSUME NEW f \in Files, Scale(f) PROVE ClaimsAreServed'
  BY <1>2, ScaleKeeps DEF IInv, FInv, ClaimsAreServed, Scale
<1>3. CASE (\E n \in Namespaces : CreateBroker(n) \/ RemoveBroker(n)) \/ UNCHANGED vars
  BY <1>3, NothingMoves DEF IInv, CreateBroker, RemoveBroker, cluster, vars
<1> QED BY <1>1, <1>2, <1>3 DEF Next

\* As long as commands run one at a time and no namespace is in two files: an env
\* file that has deployed the operator is served until it lets go of it, whatever
\* the others deploy, stop and remove, and whichever call of theirs fails half-way
\* (watch.go: unionWatch, subtractWatch).
THEOREM DeployersAreServed ==
  ASSUME OneByOne, NothingInCommon
  PROVE  Spec => []ClaimsAreServed
<1>1. IInv /\ [Next]_vars => IInv'
  BY NextServes
<1>2. IInv => ClaimsAreServed
  BY DEF IInv
<1> QED BY InitInv, <1>1, <1>2, PTL DEF Spec

\* The write of a deploy takes an operator over only with consent.
LEMMA WriteByConsent ==
  ASSUME TypeOK, NEW f \in Files, PlanFits(f), cmd[f].phase = "bundle",
         dep' = [dep EXCEPT ![Home[f]] = Deployment(f)], NEW p \in Installed,
         (dep[p].watch # {} /\ dep'[p].watch = {}) \/ dep'[p].version < dep[p].version
  PROVE  cmd[f].agreed /\ Home[f] = p
<1>1. p = Home[f]
  <2>1. ASSUME p # Home[f] PROVE FALSE
    <3>1. dep'[p] = dep[p] /\ dep[p] \in Deployments
      BY <2>1 DEF Installed, TypeOK
    <3>2. dep[p].version \in Nat
      BY <3>1 DEF Deployments
    <3> QED BY <3>1, <3>2
  <2> QED BY <2>1
<1>2. dep'[p].watch = cmd[f].watch /\ dep'[p].version = Version[f]
  BY <1>1 DEF Deployment, Installed, TypeOK
<1>3. dep[p].version \in Nat /\ Version[f] \in Nat
  BY FilesAssumption DEF Installed, TypeOK, Deployments
<1>4. ~cmd[f].agreed => (dep[p].watch # {} => cmd[f].watch # {}) /\ ~(dep[p].version > Version[f])
  BY <1>1 DEF PlanFits, Planned
<1> QED BY <1>1, <1>2, <1>3, <1>4

\* As long as commands run one at a time, an operator that is installed is made to
\* watch every namespace, or is replaced by an older version, only by a deploy whose
\* question about it was answered with yes (watch.go: reconcileWatch;
\* operatorversion.go: confirmNoDowngrade).
THEOREM TakenOverByConsent ==
  ASSUME OneByOne
  PROVE  Spec => SharedOnlyByConsent
<1> DEFINE Agreed(p) == \E f \in Files : cmd[f].phase = "bundle" /\ cmd[f].agreed /\ Home[f] = p
           TakenOver(p) == \/ dep[p].watch # {} /\ dep'[p].watch = {}
                           \/ dep'[p].version < dep[p].version
           Kept == \A p \in Installed :
                     dep'[p] # NoOperator
                     /\ ((dep[p].watch # {} /\ dep'[p].watch = {}) \/ dep'[p].version < dep[p].version)
                     => \E f \in Files : cmd[f].phase = "bundle" /\ cmd[f].agreed /\ Home[f] = p
<1>1. FInv /\ [Next]_vars => FInv'
  BY NextFits
<1>2. FInv /\ [Next]_vars => Kept
  <2> SUFFICES ASSUME FInv, [Next]_vars, NEW p \in Installed, dep'[p] # NoOperator, TakenOver(p)
               PROVE  Agreed(p)
    OBVIOUS
  <2>1. dep[p] \in Deployments /\ dep[p].version \in Nat
    BY DEF FInv, Installed, TypeOK, Deployments
  <2>2. CASE dep'[p].watch = dep[p].watch /\ dep'[p].version = dep[p].version
    BY <2>1, <2>2
  <2>3. ASSUME NEW f \in Files, cmd[f].phase = "bundle", dep' = [dep EXCEPT ![Home[f]] = Deployment(f)]
        PROVE  Agreed(p)
    BY <2>3, WriteByConsent DEF FInv, Fits
  <2>4. ASSUME NEW f \in Files, Deploy(f) PROVE Agreed(p)
    <3>1. \/ dep' = dep
          \/ cmd[f].phase = "bundle" /\ dep' = [dep EXCEPT ![Home[f]] = Deployment(f)]
      BY <2>4 DEF Deploy, ReadForDeploy, Answer, ApplyNamespace, ApplyRegcred, ApplyBundle, BreakBundle, cluster
    <3> QED BY <2>2, <2>3, <3>1
  <2>5. ASSUME NEW f \in Files, Remove(f) PROVE Agreed(p)
    <3>1. CASE dep' = dep
      BY <2>2, <3>1
    <3>2. CASE dep' = [dep EXCEPT ![Home[f]] = NoOperator]
      BY <2>2, <3>2 DEF FInv, TypeOK, Installed
    <3>3. CASE SetWatch(f) /\ Home[f] \in Installed
      <4>1. dep' = [dep EXCEPT ![Home[f]].watch = cmd[f].watch] /\ cmd[f].phase = "narrow"
        BY <3>3 DEF SetWatch
      <4>2. cmd[f].watch # {}
        BY <3>3, <4>1 DEF FInv, Fits, RemovalFits
      <4>3. dep'[p].version = dep[p].version /\ (p # Home[f] => dep'[p].watch = dep[p].watch)
        BY <2>1, <4>1 DEF FInv, TypeOK, Installed, Deployments
      <4>4. p = Home[f] => dep'[p].watch = cmd[f].watch
        BY <2>1, <4>1 DEF FInv, TypeOK, Installed, Deployments
      <4> QED BY <2>1, <4>2, <4>3, <4>4
    <3> QED BY <2>5, <3>1, <3>2, <3>3
            DEF Remove, AskRemove, Release, SetWatch, DeleteBundle, BreakDelete, GateAgain, DeleteCRDs, cluster
  <2>6. ASSUME NEW f \in Files, Scale(f) PROVE Agreed(p)
    BY <2>2, <2>6, ScaleKeeps DEF FInv
  <2>7. CASE (\E n \in Namespaces : CreateBroker(n) \/ RemoveBroker(n)) \/ UNCHANGED vars
    BY <2>2, <2>7 DEF CreateBroker, RemoveBroker, cluster, vars
  <2> QED BY <2>4, <2>5, <2>6, <2>7 DEF Next
<1>3. FInv /\ [Next]_vars => [Kept]_vars
  BY <1>2
<1>4. Init => FInv
  BY InitInv DEF IInv
<1> QED BY <1>1, <1>3, <1>4, PTL DEF Spec, SharedOnlyByConsent

\* As long as commands run one at a time, deleting the definitions takes no broker
\* with it that was there at the last look (operator.go:
\* refuseCRDDeleteIfBrokersExist, asked for the second time).
THEOREM GateSparesBrokers ==
  ASSUME OneByOne
  PROVE  Spec => CascadeTakesNobody
<1> DEFINE Spared == (crds /\ ~crds') => brokers \subseteq late
<1>1. FInv /\ [Next]_vars => FInv'
  BY NextFits
<1>2. FInv /\ [Next]_vars => Spared
  <2> SUFFICES ASSUME FInv, [Next]_vars, crds, ~crds' PROVE brokers \subseteq late
    OBVIOUS
  <2>1. ASSUME NEW f \in Files, DeleteCRDs(f) PROVE brokers \subseteq late
    BY <2>1 DEF DeleteCRDs, FInv, Fits, GateFits
  <2>2. ASSUME NEW f \in Files, Deploy(f) PROVE FALSE
    BY <2>2 DEF Deploy, ReadForDeploy, Answer, ApplyNamespace, ApplyRegcred, ApplyBundle, BreakBundle, cluster
  <2>3. ASSUME NEW f \in Files, Remove(f), ~DeleteCRDs(f) PROVE FALSE
    BY <2>3 DEF Remove, AskRemove, Release, SetWatch, DeleteBundle, BreakDelete, GateAgain, cluster
  <2>4. ASSUME NEW f \in Files, Scale(f) PROVE FALSE
    BY <2>4 DEF Scale
  <2>5. CASE (\E n \in Namespaces : CreateBroker(n) \/ RemoveBroker(n)) \/ UNCHANGED vars
    BY <2>5 DEF CreateBroker, RemoveBroker, cluster, vars
  <2> QED BY <2>1, <2>2, <2>3, <2>4, <2>5 DEF Next
<1>3. FInv /\ [Next]_vars => [Spared]_vars
  BY <1>2
<1>4. Init => FInv
  BY InitInv DEF IInv
<1> QED BY <1>1, <1>3, <1>4, PTL DEF Spec, CascadeTakesNobody
=============================================================================
