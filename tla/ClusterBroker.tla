---------------------------- MODULE ClusterBroker ----------------------------
(***************************************************************************)
(* `broker deploy` and `broker remove` on Kubernetes (internal/k8s/prep.go,*)
(* deploy.go, adminsecret.go, namespace.go, ops.go, preflight.go and       *)
(* internal/cli/ops_k8s.go): one env file, its broker, the namespace it    *)
(* lives in, the Solace operator that turns the custom resource into       *)
(* Secrets, claims and pods in its own time, and whoever else has objects  *)
(* in that namespace.  Objects of a kind the occupancy check does not list *)
(* are left out: a namespace found empty goes with them.                   *)
(*                                                                         *)
(* A step is one write of the tool, with the probes and reads that precede *)
(* it.  A certificate is a number, 0 standing for none; a password is a    *)
(* number, 0 standing for the one the user chose, the others for passwords *)
(* the operator generated.                                                 *)
(***************************************************************************)
EXTENDS Naturals, Sequences

CONSTANTS
  RestartOrder,  \* the broker's nodes, in the order they are restarted
  Primary,       \* the node whose pod tells that the broker is running
  Custom,        \* the nodes on a volume the operator did not provision
  None,          \* no broker resource, no volume, no pod, no generated password
  Leaving,       \* a pod whose resource is deleted and that is not gone yet
  Identities,    \* the sets of permissions the command may be run with
  MaxCert,       \* bound: certificates the user comes to
  MaxCommands,   \* bound: commands
  MaxFaults,     \* bound: calls that fail
  MaxGenerated,  \* bound: passwords the operator generates
  MaxOthers      \* bound: times somebody else puts something in the namespace

Roles == {RestartOrder[i] : i \in 1..Len(RestartOrder)}
Grants == {"get namespaces", "create namespaces", "delete namespaces", "brokers",
           "secrets", "claims", "pods"}

ASSUME RolesAssumption ==
  RestartOrder \in Seq(Roles) /\ Primary \in Roles /\ Custom \subseteq Roles
ASSUME ValuesAssumption ==
  /\ {None, Leaving} \cap Nat = {} /\ None # Leaving
  /\ None \notin [admin : {"unset", "build", "named"}, tls : BOOLEAN]
ASSUME IdentitiesAssumption == Identities \subseteq SUBSET Grants
ASSUME BoundsAssumption ==
  /\ MaxCert \in Nat /\ MaxCommands \in Nat /\ MaxFaults \in Nat
  /\ MaxGenerated \in Nat /\ MaxOthers \in Nat

VARIABLES
  file,    \* the env file: where the admin password is, the certificate on disk,
           \* whether the namespace is one of Kubernetes' own
  may,     \* the permissions of this identity
  ns,      \* whether the namespace exists
  cr,      \* the broker resource: the admin Secret it names, whether it has TLS
  data,    \* per node: the password its data was first booted with
  pods,    \* per node: the certificate its pod mounted when it started
  built,   \* whether the admin Secret built from the env file exists
  tls,     \* the certificate in the TLS Secret
  gen,     \* the operator's generated admin password
  others,  \* whether something of somebody else's is here, of a kind that is listed
  cmd,     \* the command in progress
  told,    \* what the last command ended with
  blind,   \* a deploy went on past a broker resource it could not read
  stale,   \* a run that wrote a new certificate ended before its last question
  late,    \* whether that came after the occupancy check
  spent    \* what is used up of the bounds above

inside == <<cr, data, pods, built, tls, gen>>
vars == <<file, may, ns, cr, data, pods, built, tls, gen, others, cmd, told, stale, late, blind, spent>>

Phases == {"idle", "namespace", "secrets", "resource", "confirm", "offer", "restart", "load",
           "delete", "claims", "clean", "occupancy", "question"}
Outcomes == {"none", "refused", "failed", "deployed", "served", "declined", "unseen", "removed",
             "kept", "gone"}
Admins == {"unset", "build", "named"}
Idle == [phase |-> "idle", changed |-> FALSE, purge |-> FALSE, wrote |-> FALSE,
         left |-> <<>>]

EnvFiles == [admin : Admins, cert : 0..MaxCert, protected : BOOLEAN]
Resources == [admin : Admins, tls : BOOLEAN] \cup {None}
Commands == [phase : Phases, changed : BOOLEAN, purge : BOOLEAN, wrote : BOOLEAN,
             left : Seq(Roles)]
Uses == [commands : Nat, faults : Nat, generated : Nat, others : Nat]

TypeOK ==
  /\ file \in EnvFiles
  /\ may \in Identities
  /\ ns \in BOOLEAN /\ built \in BOOLEAN /\ others \in BOOLEAN
  /\ late \in BOOLEAN /\ stale \in BOOLEAN /\ blind \in BOOLEAN
  /\ cr \in Resources
  /\ data \in [Roles -> 0..MaxGenerated \cup {None}]
  /\ pods \in [Roles -> 0..MaxCert \cup {None, Leaving}]
  /\ tls \in 0..MaxCert /\ gen \in 1..MaxGenerated \cup {None}
  /\ cmd \in Commands /\ told \in Outcomes /\ spent \in Uses

NoData == [r \in Roles |-> None]
NoPods == [r \in Roles |-> None]

Init ==
  /\ file \in [admin : Admins, cert : {0, 1} \cap (0..MaxCert), protected : BOOLEAN]
  /\ may \in Identities
  /\ ns \in BOOLEAN /\ (file.protected => ns)
  /\ cr = None /\ data = NoData /\ pods = NoPods
  /\ built = FALSE /\ tls = 0 /\ gen = None
  /\ others = FALSE /\ late = FALSE
  /\ cmd = Idle /\ told = "none" /\ stale = FALSE /\ blind = FALSE
  /\ spent = [commands |-> 0, faults |-> 0, generated |-> 0, others |-> 0]

-----------------------------------------------------------------------------
(* What the env file makes this tool own.                                  *)

OwnsAdmin == file.admin = "build"
OwnsTLS == file.cert > 0
OwnsSecrets == OwnsAdmin \/ OwnsTLS

\* Claims are deleted with the data only where the operator provisioned them.
DeletesClaims(purge) == purge /\ Roles \ Custom # {}

Fault == spent.faults < MaxFaults /\ spent' = [spent EXCEPT !.faults = @ + 1]
NoFault == UNCHANGED spent

Start == /\ cmd.phase = "idle" /\ spent.commands < MaxCommands
         /\ spent' = [spent EXCEPT !.commands = @ + 1]

End(outcome) == cmd' = Idle /\ told' = outcome
Goto(phase) == cmd' = [cmd EXCEPT !.phase = phase] /\ UNCHANGED told
Wrote(phase) == cmd' = [cmd EXCEPT !.phase = phase, !.wrote = TRUE] /\ UNCHANGED told

-----------------------------------------------------------------------------
(* broker deploy: the questions asked before the first write.              *)

\* Broken on purpose: only a running broker is asked about.
PasswordOfRunning(read) ==
  /\ file.admin = "unset"
  /\ "brokers" \notin may \/ (cr # None /\ cr.admin # "unset")

\* The broker reads its password from the Secret on a fresh volume only, so
\* a deploy that names no Secret must not make the operator generate one for
\* a broker, or for data, that has a password already.  A resource that was
\* not read leaves the answer to the claims; claims this identity may not
\* read are a warning.
PasswordAtRisk(read) ==
  /\ file.admin = "unset"
  /\ \/ "brokers" \notin may
     \/ read /\ cr # None /\ cr.admin # "unset"
     \/ (~read \/ cr = None) /\ "claims" \in may /\ \E r \in Roles \ Custom : data[r] # None

\* Broken on purpose: compared once the Secret has been written.
CertChangedTooLate(read) == OwnsTLS /\ ~read

\* The Secret built earlier holds another certificate; one that cannot be
\* read counts as changed.
CertChanged(read) == OwnsTLS /\ (~read \/ (tls # 0 /\ tls # file.cert))

\* Broken on purpose: each step asks for itself only.
DeployUnasked == TRUE

\* Every write's permission before the first write.
DeployAllowed == "brokers" \in may /\ (OwnsSecrets => "secrets" \in may)

StartDeploy ==
  /\ Start
  /\ \E readCR, readTLS \in BOOLEAN :
       IF PasswordAtRisk(readCR) \/ ~DeployAllowed THEN End("refused") /\ UNCHANGED blind
       ELSE /\ cmd' = [Idle EXCEPT !.phase = "namespace",
                                   !.changed = CertChanged(readTLS /\ "secrets" \in may)]
            /\ told' = "none"
            /\ blind' = (blind \/ (~readCR /\ cr # None /\ file.admin = "unset"))
  /\ UNCHANGED <<file, may, ns, inside, others, stale, late>>

\* The namespace is created only if it is absent, or could not be read by an
\* identity that may create it.
EnsureNamespace ==
  /\ cmd.phase = "namespace"
  /\ \E read \in BOOLEAN :
       LET known == read /\ "get namespaces" \in may
       IN IF known /\ ns THEN Goto("secrets") /\ UNCHANGED ns
          ELSE IF "create namespaces" \in may THEN Wrote("secrets") /\ ns' = TRUE
          ELSE IF known THEN End("refused") /\ UNCHANGED ns
          ELSE Goto("secrets") /\ UNCHANGED ns
  /\ UNCHANGED <<file, may, inside, others, stale, late, spent, blind>>

\* A new certificate is in the Secret and the pods have the previous one.
Renewed == cmd.changed /\ \E r \in Roles : pods[r] \notin {None, Leaving}

\* One stream of the Secrets the file owns.  A stream that fails may have
\* written any of them.
CreateSecrets ==
  /\ cmd.phase = "secrets"
  /\ IF ~OwnsSecrets THEN Goto("resource") /\ NoFault /\ UNCHANGED <<built, tls, stale>>
     ELSE IF "secrets" \notin may
          THEN End("refused") /\ NoFault /\ UNCHANGED <<built, tls, stale>>
     ELSE \/ /\ ns /\ NoFault
             /\ built' = (built \/ OwnsAdmin)
             /\ tls' = IF OwnsTLS THEN file.cert ELSE tls
             /\ stale' = stale
             /\ Wrote("resource")
          \/ /\ IF ns THEN Fault ELSE NoFault
             /\ \E admin, cert \in BOOLEAN :
                  /\ built' = (built \/ (ns /\ admin /\ OwnsAdmin))
                  /\ tls' = IF ns /\ cert /\ OwnsTLS THEN file.cert ELSE tls
             /\ stale' = (stale \/ (tls' # tls /\ Renewed))
             /\ End("failed")
  /\ UNCHANGED <<file, may, ns, cr, data, pods, gen, others, late, blind>>

\* The rendered resource: names of Secrets, never their values.
Resource == [admin |-> file.admin, tls |-> OwnsTLS]

\* The resource is applied; an admission webhook may swallow it.
DeployBroker ==
  /\ cmd.phase = "resource"
  /\ IF "brokers" \notin may THEN End("refused") /\ NoFault /\ UNCHANGED <<cr, stale>>
     ELSE \/ /\ ns /\ NoFault
             /\ cr' = Resource
             /\ Wrote("confirm") /\ UNCHANGED stale
          \/ /\ ns /\ Fault
             /\ Wrote("confirm") /\ UNCHANGED <<cr, stale>>
          \/ /\ IF ns THEN Fault ELSE NoFault
             /\ stale' = (stale \/ Renewed)
             /\ End("failed") /\ UNCHANGED cr
  /\ UNCHANGED <<file, may, ns, data, pods, built, tls, gen, others, late, blind>>

\* The resource is read back before anything is called deployed.
Confirm ==
  /\ cmd.phase = "confirm"
  /\ \/ /\ cr # None /\ NoFault
        /\ IF cmd.changed THEN Goto("offer") ELSE End("deployed")
        /\ UNCHANGED stale
     \/ /\ IF cr # None THEN Fault ELSE NoFault
        /\ stale' = (stale \/ Renewed)
        /\ End("failed")
  /\ UNCHANGED <<file, may, ns, inside, others, late, blind>>

\* A renewed certificate is served by a running broker after a restart only:
\* it is offered, and may be declined; a pod that cannot be seen is said.
OfferRestart ==
  /\ cmd.phase = "offer"
  /\ \/ /\ "pods" \in may /\ pods[Primary] = None
        /\ End("deployed") /\ stale' = (stale \/ Renewed)
     \/ /\ "pods" \in may /\ pods[Primary] # None
        /\ \/ /\ cmd' = [cmd EXCEPT !.phase = "restart", !.left = RestartOrder]
              /\ UNCHANGED <<told, stale>>
           \/ End("declined") /\ stale' = TRUE
     \/ /\ "pods" \notin may
        /\ End("unseen") /\ stale' = TRUE
  /\ UNCHANGED <<file, may, ns, inside, others, late, spent, blind>>

\* A pod comes up once the Secrets its resource names are there; it reads the
\* password on a fresh volume only, the certificate every time.
CanStart == /\ cr # None
            /\ cr.admin = "build" => built
            /\ cr.admin = "unset" => gen # None
            /\ cr.tls => tls # 0

Up(r) ==
  /\ pods' = [pods EXCEPT ![r] = IF cr.tls THEN tls ELSE 0]
  /\ data' = [data EXCEPT ![r] = IF @ # None THEN @ ELSE IF cr.admin = "unset" THEN gen ELSE 0]

NextPod ==
  IF Len(cmd.left) = 1 THEN End("served") /\ stale' = FALSE
  ELSE cmd' = [cmd EXCEPT !.left = Tail(@)] /\ UNCHANGED <<told, stale>>

\* One pod at a time, waited for; the first that does not come up ends it.
RestartPod ==
  /\ cmd.phase = "restart"
  /\ LET r == Head(cmd.left)
     IN \/ /\ CanStart /\ NoFault
           /\ Up(r)
           /\ NextPod
        \/ /\ IF CanStart THEN Fault ELSE NoFault
           /\ pods' = [pods EXCEPT ![r] = None]
           /\ End("failed") /\ stale' = TRUE /\ UNCHANGED data
  /\ UNCHANGED <<file, may, ns, cr, built, tls, gen, others, late, blind>>

-----------------------------------------------------------------------------
(* broker restart and broker configure server-certs.                       *)

StartRestart ==
  /\ Start
  /\ cmd' = [Idle EXCEPT !.phase = "restart", !.left = RestartOrder] /\ told' = "none"
  /\ UNCHANGED <<file, may, ns, inside, others, stale, late, blind>>

\* The Secret first, for the pods of tomorrow.
StartServerCerts ==
  /\ Start
  /\ IF ~OwnsTLS \/ "secrets" \notin may THEN End("refused") /\ UNCHANGED tls
     ELSE IF ~ns THEN End("failed") /\ UNCHANGED tls
     ELSE /\ tls' = file.cert
          /\ cmd' = [Idle EXCEPT !.phase = "load", !.left = RestartOrder, !.wrote = TRUE]
          /\ told' = "none"
  /\ UNCHANGED <<file, may, ns, cr, data, pods, built, gen, others, stale, late, blind>>

\* Then over the CLI into each running node; a node that is not there, or
\* does not take it, ends the command.
LoadCert ==
  /\ cmd.phase = "load"
  /\ LET r == Head(cmd.left)
         runs == pods[r] \notin {None, Leaving}
     IN \/ /\ runs /\ NoFault
           /\ pods' = [pods EXCEPT ![r] = file.cert]
           /\ NextPod
        \/ /\ IF runs THEN Fault ELSE NoFault
           /\ End("failed") /\ stale' = TRUE /\ UNCHANGED pods
  /\ UNCHANGED <<file, may, ns, cr, data, built, tls, gen, others, late, blind>>

-----------------------------------------------------------------------------
(* broker remove, confirmed.                                               *)

\* Every permission the removal uses, asked for before its first delete.  The
\* namespace is not asked about: whether it goes is known last of all.
RemovalAllowed(purge) ==
  /\ "brokers" \in may
  /\ DeletesClaims(purge) => "claims" \in may
  /\ OwnsSecrets => "secrets" \in may

StartRemove ==
  /\ Start
  /\ \E purge \in BOOLEAN :
       IF RemovalAllowed(purge)
       THEN cmd' = [Idle EXCEPT !.phase = "delete", !.purge = purge] /\ told' = "none"
       ELSE End("refused")
  /\ UNCHANGED <<file, may, ns, inside, others, stale, late, blind>>

\* The resource goes before the claims its pods hold; the Secret the operator
\* generated goes with it.
DeleteResource ==
  /\ cmd.phase = "delete"
  /\ IF DeletesClaims(cmd.purge) /\ "claims" \notin may
     THEN End("refused") /\ NoFault /\ UNCHANGED <<cr, gen, pods>>
     ELSE \/ /\ NoFault
             /\ cr' = None /\ gen' = None
             /\ pods' = [r \in Roles |-> IF pods[r] = None THEN None ELSE Leaving]
             /\ Wrote(IF cmd.purge THEN "claims" ELSE "clean")
          \/ Fault /\ End("failed") /\ UNCHANGED <<cr, gen, pods>>
  /\ UNCHANGED <<file, may, ns, data, built, tls, others, stale, late, blind>>

\* Broken on purpose: a claim that would not go is logged and forgotten.
AfterSomeClaims(failed) == Goto("clean")

\* A failed claim does not spare the others, and fails the command once each
\* has had its turn.
AfterClaims(failed) == IF failed = {} THEN Goto("clean") ELSE End("failed")

\* A claim waits for the pod that mounts it, and a custom volume is kept.
DeleteClaims ==
  /\ cmd.phase = "claims"
  /\ \A r \in Roles \ Custom : pods[r] = None
  /\ \E failed \in SUBSET (Roles \ Custom) :
       /\ IF failed = {} THEN NoFault ELSE Fault
       /\ data' = [r \in Roles |-> IF r \in Custom \cup failed THEN data[r] ELSE None]
       /\ AfterClaims(failed)
  /\ UNCHANGED <<file, may, ns, cr, pods, built, tls, gen, others, stale, late, blind>>

\* The Secrets this env file builds; one it only names is somebody else's.
\* The first that cannot be deleted ends the command.
DeleteSecrets ==
  /\ cmd.phase = "clean"
  /\ IF ~OwnsSecrets THEN Goto("occupancy") /\ NoFault /\ UNCHANGED <<built, tls>>
     ELSE IF "secrets" \notin may
          THEN End("refused") /\ NoFault /\ UNCHANGED <<built, tls>>
     ELSE \/ /\ NoFault
             /\ built' = (built /\ ~OwnsAdmin)
             /\ tls' = IF OwnsTLS THEN 0 ELSE tls
             /\ Wrote("occupancy")
          \/ /\ Fault
             /\ \/ UNCHANGED <<built, tls>>
                \/ built' = (built /\ ~OwnsAdmin) /\ UNCHANGED tls
             /\ End("failed")
  /\ UNCHANGED <<file, may, ns, cr, data, pods, gen, others, stale, late, blind>>

\* Broken on purpose: workloads and Secrets are listed, claims are not.
OccupiedByWorkload ==
  \/ \E r \in Roles : pods[r] # None
  \/ built \/ tls # 0 \/ gen # None \/ others

\* What still occupies the namespace, of the kinds the check lists.
Occupied ==
  \/ \E r \in Roles : data[r] # None \/ pods[r] # None
  \/ built \/ tls # 0 \/ gen # None \/ others

\* A namespace of Kubernetes, one that cannot be listed and one with anything
\* in it are kept without a question.
Occupancy ==
  /\ cmd.phase = "occupancy"
  /\ \/ file.protected /\ End("removed") /\ UNCHANGED late
     \/ /\ ~file.protected /\ (Occupied \/ TRUE)
        /\ End("kept") /\ UNCHANGED late
     \/ /\ ~file.protected /\ ~Occupied
        /\ Goto("question") /\ late' = FALSE
  /\ UNCHANGED <<file, may, ns, inside, others, stale, spent, blind>>

\* The permission is asked about here, last of all.  Deleting a namespace
\* takes everything that is in it by then.
DeleteNamespace ==
  /\ cmd.phase = "question"
  /\ \/ End("removed") /\ NoFault /\ UNCHANGED <<ns, inside, others>>
     \/ /\ "delete namespaces" \notin may
        /\ End("refused") /\ NoFault /\ UNCHANGED <<ns, inside, others>>
     \/ /\ "delete namespaces" \in may
        /\ \/ Fault /\ End("failed") /\ UNCHANGED <<ns, inside, others>>
           \/ /\ NoFault /\ End("gone")
              /\ ns' = FALSE
              /\ cr' = None /\ data' = NoData /\ pods' = NoPods
              /\ built' = FALSE /\ tls' = 0 /\ gen' = None /\ others' = FALSE
  /\ UNCHANGED <<file, may, stale, late, blind>>

-----------------------------------------------------------------------------
(* What goes on around the tool.                                           *)

\* The operator generates an admin password for a resource that names none.
Generate ==
  /\ cr # None /\ gen = None /\ cr.admin = "unset"
  /\ spent.generated < MaxGenerated
  /\ gen' = spent.generated + 1
  /\ spent' = [spent EXCEPT !.generated = @ + 1]
  /\ UNCHANGED <<file, may, ns, cr, data, pods, built, tls, others, cmd, told, stale, late, blind>>

\* The operator, or Kubernetes, starts a pod that is not there.
StartPod(r) ==
  /\ pods[r] = None /\ CanStart
  /\ Up(r)
  /\ UNCHANGED <<file, may, ns, cr, built, tls, gen, others, cmd, told, stale, late, spent, blind>>

\* A pod crashes, is rolled, or is collected after its resource went.
PodGoes(r) ==
  /\ pods[r] # None
  /\ pods' = [pods EXCEPT ![r] = None]
  /\ UNCHANGED <<file, may, ns, cr, data, built, tls, gen, others, cmd, told, stale, late, spent, blind>>

\* Between two commands the user edits the env file or renews the certificate.
EditFile ==
  /\ cmd.phase = "idle" /\ spent.commands < MaxCommands
  /\ file' \in [admin : Admins, cert : {file.cert, file.cert + 1} \cap (0..MaxCert),
                protected : {file.protected}]
  /\ UNCHANGED <<may, ns, inside, others, cmd, told, stale, late, spent, blind>>

PutOther ==
  /\ ns /\ ~others /\ spent.others < MaxOthers
  /\ others' = TRUE
  /\ late' = (cmd.phase = "question")
  /\ spent' = [spent EXCEPT !.others = @ + 1]
  /\ UNCHANGED <<file, may, ns, inside, cmd, told, stale, blind>>

Next ==
  \/ StartDeploy \/ EnsureNamespace \/ CreateSecrets \/ DeployBroker \/ Confirm
  \/ OfferRestart \/ RestartPod
  \/ StartRestart \/ StartServerCerts \/ LoadCert
  \/ StartRemove \/ DeleteResource \/ DeleteClaims \/ DeleteSecrets
  \/ Occupancy \/ DeleteNamespace
  \/ Generate \/ EditFile \/ PutOther
  \/ \E r \in Roles : StartPod(r) \/ PodGoes(r)

Spec == Init /\ [][Next]_vars

-----------------------------------------------------------------------------
(* Properties.                                                             *)

\* While the broker's password is the operator's to generate, the generated
\* Secret holds the password every node's data was first booted with
\* (adminsecret.go:102-197, for an identity that may read claims, nodes on
\* volumes the operator provisioned, and deploys that could read the resource
\* of a broker that was there).
PasswordIsHeld ==
  (cr # None /\ cr.admin = "unset" /\ gen # None /\ "claims" \in may /\ ~blind) =>
    \A r \in Roles \ Custom : data[r] \in {None, gen}

\* A deploy, restart or certificate load that ends in success leaves no
\* running pod on another certificate than the Secret's, unless an earlier run
\* or this one was cut short, or saw no primary pod, after it had written a
\* new one (cli/ops_k8s.go:78-134, 166-216, prep.go:328-399).
CertServed ==
  [][(told \notin {"deployed", "served"} /\ told' \in {"deployed", "served"}
       /\ OwnsTLS /\ ~stale') =>
     \A r \in Roles : pods'[r] \in {None, Leaving, 0, tls'}]_vars

\* No command stops halfway for want of a permission: one that is refused has
\* written and deleted nothing (deploy.go:113-148, prep.go:85-119).  The one
\* exception is the namespace of a removal, whose permission is asked about
\* after everything else is gone (prep.go:158-168): by then the removal is
\* complete, and leaves a namespace with nothing in it but what somebody else
\* put there while its question was open.
NoRefusalHalfway ==
  [][(told' = "refused" /\ cmd.phase # "idle") =>
       \/ ~cmd.wrote
       \/ /\ cmd.phase = "question"
          /\ cr' = None /\ data' = NoData /\ pods' = NoPods
          /\ ~built' /\ tls' = 0 /\ gen' = None
          /\ others' => late']_vars

\* A removal that ends once its deletes are made, without a failure, leaves no
\* resource, no Secret this file builds and, asked to take the data, no claim
\* the operator provisioned, also where the namespace is then refused
\* (deploy.go:150-227, prep.go:305-326).
RemovedIsGone ==
  [][(cmd.phase \in {"occupancy", "question"} /\ cmd'.phase = "idle" /\ told' # "failed") =>
     /\ cr' = None
     /\ OwnsAdmin => ~built'
     /\ OwnsTLS => tls' = 0
     /\ cmd.purge => \A r \in Roles \ Custom : data'[r] = None]_vars

\* A namespace is deleted with nothing in it that the occupancy check lists,
\* except what came while the question was open, and never one of
\* Kubernetes' own: data that was kept is never cascaded away
\* (cli/ops_k8s.go:756-787, namespace.go:66-102).
NamespaceTakesNothingSeen ==
  [][(ns /\ ~ns') =>
     /\ ~file.protected /\ data = NoData /\ ~built /\ tls = 0
     /\ others => late]_vars
=============================================================================
