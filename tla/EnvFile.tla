------------------------------- MODULE EnvFile -------------------------------
(***************************************************************************)
(* What an env file means: the secrets it refers to, the defaults it is    *)
(* given, the checks it must pass and the names derived from it            *)
(* (internal/config).  Pure operators on one file; EnvHosts loads files    *)
(* with them and deploys what they describe.                               *)
(*                                                                         *)
(* A file is a record.  Its secrets are Sources: the value itself, or the   *)
(* environment variable that holds it.  Its paths and commands are the     *)
(* forms of ExecGuard.  `malformed' is the set of fields whose value has    *)
(* not the shape its check asks for (a quantity, a label, a port ...), and  *)
(* `retired' names a key an older build read.                              *)
(***************************************************************************)
EXTENDS ExecGuard

Roles == {"primary", "backup", "monitor"}
SharedSecrets == {"adminPass", "monitorPass", "imagePass", "phrase", "psk"}

Source(value, env) == [value |-> value, env |-> env]
Unset == Source("", "")

(* A file as it is written, and the values of its path keys.               *)
PathKeys == {"cert", "certKey", "ca", "scripts", "composeFile", "dataDir", "quadletDir", "baseDir", "domainCert"}
WrittenPaths == {"", "abs", "rel", "~/", "~user", "a b", "$x"}

Sources == [value : STRING, env : STRING]
SiteEntries ==
    [vrn : STRING, routers : Seq(STRING),
     endpoints : Seq([host : STRING, port : STRING, transport : STRING]),
     via : [kube : Seq([command : Seq(STRING), name : STRING]),
            semp : Seq([pass : Sources, passSecret : STRING])]]
EnvFiles ==
    [retired : STRING, ha : STRING, secret : [SharedSecrets -> Sources],
     users : Seq([name : STRING, level : STRING, pass : Sources]),
     imageUser : STRING, tag : STRING, name : STRING, size : STRING, class : STRING,
     claims : UNION {[K -> {"", "pvc"}] : K \in SUBSET (Roles \cup {"prmary"})},
     adminSecret : STRING, tlsSecret : STRING, pullSecret : STRING,
     ports : Seq([name : STRING, container : Nat, service : Nat]),
     node : [Roles -> [name : STRING, addr : STRING]], tier : Nat,
     cpuset : Seq(Nat), monitorCpuset : Seq(Nat),
     cluster : Seq(STRING), runtime : Seq(STRING), compose : Seq(STRING), rootless : BOOLEAN,
     sites : Seq(SiteEntries), vpns : Seq([name : STRING, at : STRING]),
     caNames : SUBSET STRING, probe : STRING, malformed : SUBSET STRING,
     path : [PathKeys -> WrittenPaths]]

(* Fields of the shape checks, by the validator that reads them.            *)
SharedFormats == {"image"}
KubernetesFormats == {"namespace", "quantity", "securityId", "updateStrategy", "affinity"}
ContainerFormats == {"containerName", "mem", "port", "duration", "networkMode"}

-----------------------------------------------------------------------------
(* Secret references (secretref.go).                                       *)

ViaSources(via) == {via.semp[i].pass : i \in DOMAIN via.semp}
SecretRefs(f) == {f.secret[s] : s \in SharedSecrets} \cup {f.users[i].pass : i \in DOMAIN f.users}
                     \cup UNION {ViaSources(f.sites[i].via) : i \in DOMAIN f.sites}

(* A reference names a variable that is exported and not empty, and stands  *)
(* alone.                                                                  *)
RefResolves(src, exported) == src.env # "" => src.value = "" /\ src.env \in exported
ResolveSource(src) == IF src.env = "" THEN src ELSE Source("text", src.env)

(* In a user and in a SEMP block alike.                                    *)
ResolvePass(x) == [x EXCEPT !.pass = ResolveSource(x.pass)]
ResolveSite(s) == [s EXCEPT !.via.semp = [i \in DOMAIN s.via.semp |-> ResolvePass(s.via.semp[i])]]
ResolveSecretRefs(f) ==
    [f EXCEPT !.secret = [s \in SharedSecrets |-> ResolveSource(f.secret[s])],
              !.users = [i \in DOMAIN f.users |-> ResolvePass(f.users[i])],
              !.sites = [i \in DOMAIN f.sites |-> ResolveSite(f.sites[i])]]

-----------------------------------------------------------------------------
(* Defaults (load.go) and the sizing a connection tier fixes (scaling.go).  *)

ScalingTiers == (100 :> 2) @@ (1000 :> 2) @@ (10000 :> 4)

SetDefault(v, d) == IF v = "" THEN d ELSE v
SetDefaultInt(v, d) == IF v = 0 THEN d ELSE v
SetDefaultCmd(c, d) == IF c = <<>> THEN d ELSE c

TierDefault(p) == IF p = Kubernetes THEN 100 ELSE 1000
DefaultRuntime(p) == CASE p = Docker -> <<"docker">> [] p = Podman -> <<"podman">> [] OTHER -> <<>>
(* Under the home directory, where XDG_CONFIG_HOME does not say otherwise.  *)
DefaultQuadletDir(f) == IF f.rootless THEN "~/" ELSE "abs"

(* The cpus a container is given when the file lists none: as many as the   *)
(* tier has cores, from 0.                                                 *)
CPUSetRange(cores) == [i \in 1 .. cores |-> i - 1]

DefaultPaths(f, p) ==
    [f.path EXCEPT !["scripts"] = SetDefault(@, "rel"),
                   !["dataDir"] = SetDefault(@, IF IsContainer(p) THEN "abs" ELSE ""),
                   !["quadletDir"] = SetDefault(@, IF p = Podman THEN DefaultQuadletDir(f) ELSE "")]

ApplyDefaults(f, p) ==
    LET tier == SetDefaultInt(f.tier, TierDefault(p))
        runtime == SetDefaultCmd(f.runtime, DefaultRuntime(p))
        cores == IF tier \in DOMAIN ScalingTiers THEN ScalingTiers[tier] ELSE 0
    IN [f EXCEPT
          !.ha = SetDefault(@, "false"),
          !.cluster = SetDefaultCmd(@, <<"kubectl">>),
          !.tier = tier,
          !.runtime = runtime,
          !.compose = IF p = Docker THEN ComposeOrDerived(@, runtime) ELSE @,
          !.cpuset = IF IsContainer(p) /\ @ = <<>> THEN CPUSetRange(cores) ELSE @,
          !.monitorCpuset = IF IsContainer(p) /\ @ = <<>> THEN <<0>> ELSE @,
          !.path = DefaultPaths(f, p)]

RedundancyEnabled(f) == f.ha = "true"
RedundancyRoles(f) == IF RedundancyEnabled(f) THEN Roles ELSE {"primary"}

-----------------------------------------------------------------------------
(* Home directories and the env file's own directory (hostpath.go).        *)

SiteCommands(f) == UNION {{f.sites[i].via.kube[j].command : j \in DOMAIN f.sites[i].via.kube} :
                              i \in DOMAIN f.sites}

Commands(f, p) == {f.cluster} \cup SiteCommands(f)
                      \cup (IF IsContainer(p) THEN {f.runtime} ELSE {})
                      \cup (IF p = Docker THEN {f.compose} ELSE {})

HomesExpand(f, p, home) == /\ \A c \in Commands(f, p) : CommandExpandable(c, home)
                           /\ \A k \in DOMAIN f.path : Expandable(f.path[k], home)

ExpandKube(k) == [k EXCEPT !.command = ExpandCommand(k.command)]
ExpandSite(s) == [s EXCEPT !.via.kube = [j \in DOMAIN s.via.kube |-> ExpandKube(s.via.kube[j])]]

ExpandCommandHomes(f) ==
    [f EXCEPT !.cluster = ExpandCommand(@), !.runtime = ExpandCommand(@), !.compose = ExpandCommand(@),
              !.sites = [i \in DOMAIN f.sites |-> ExpandSite(f.sites[i])]]

ExpandHomePaths(f) == [f EXCEPT !.path = [k \in DOMAIN f.path |-> ExpandTilde(f.path[k])]]

(* Never joined to the env file's directory: the unit's directory, and the  *)
(* directories a removal empties, which must be absolute as written.        *)
NeverRebased == {"quadletDir", "baseDir", "dataDir"}
RebaseHostPaths(f) ==
    [f EXCEPT !.path = [k \in DOMAIN f.path |->
                           IF k \in NeverRebased THEN f.path[k] ELSE HostPath(f.path[k])]]

-----------------------------------------------------------------------------
(* The Secrets a broker CR names (config.go).                              *)

Value(f, s) == f.secret[s].value

ManagesAdminSecret(f) == Value(f, "adminPass") # ""
AdminSecretName(f) == IF f.adminSecret # "" THEN f.adminSecret
                      ELSE IF ManagesAdminSecret(f) /\ f.name # "" THEN f.name \o "-admin" ELSE ""

ManagesTLSSecret(f) == f.path["cert"] # "" \/ f.path["certKey"] # ""
TLSServerSecretName(f) == IF f.tlsSecret # "" THEN f.tlsSecret
                          ELSE IF ManagesTLSSecret(f) /\ f.name # "" THEN f.name \o "-tls" ELSE ""

ManagesImagePullSecret(f) == f.imageUser # "" /\ Value(f, "imagePass") # ""
ImagePullSecretName(f) == IF f.pullSecret # "" THEN f.pullSecret
                          ELSE IF ManagesImagePullSecret(f) THEN f.name \o "-image-pull" ELSE ""

AdditionalUsersSecretName(f) == f.name \o "-additional-users"
OperatorAdminSecretName(f) == f.name \o "-pubsubplus-admin-creds"

PSKConfigured(f) == f.secret["psk"] # Unset

-----------------------------------------------------------------------------
(* The checks of Validate (validate.go), one operator each.                *)

RenamedKeys == {"runtime", "cliScriptsFolder"}
RetiredContainerKeys == {"shmSize"}

(* The key of a domain certificate, and a path for each.                    *)
ValidExplicitCAName(ca) == ca \notin {"", "a b", "a..b"}
ValidateDomainCerts(f) == \A ca \in f.caNames : ValidExplicitCAName(ca) /\ f.path["domainCert"] # ""

\* Broken on purpose: the compose command an env file spells out is taken as it is.
ValidateExecCommandsNoCompose(f, p, extra) ==
    LET Passes(r, cmd) == cmd # <<>> => CheckCommand(r, cmd, extra)
    IN /\ Passes(Rules(Kubernetes), f.cluster)
       /\ IsContainer(p) => Passes(Rules(p), f.runtime)
       /\ \A cmd \in SiteCommands(f) : Passes(Rules(Kubernetes), cmd)

(* An unset command is skipped here; the executors refuse it.               *)
ValidateExecCommands(f, p, extra) ==
    LET Passes(r, cmd) == cmd # <<>> => CheckCommand(r, cmd, extra)
    IN /\ Passes(Rules(Kubernetes), f.cluster)
       /\ IsContainer(p) => Passes(Rules(p), f.runtime)
       /\ p = Docker => Passes(ComposeRules, ComposeOrDerived(f.compose, f.runtime))
       /\ \A cmd \in SiteCommands(f) : Passes(Rules(Kubernetes), cmd)

ValidateScaling(f) == f.tier \in DOMAIN ScalingTiers /\ f.retired # "maxPool"

CheckCredentialChars(src) == src.value # "control"
ValidateCredentialChars(f) == \A s \in SharedSecrets : CheckCredentialChars(f.secret[s])

ValidateHostPaths(f, p) ==
    \A k \in DOMAIN f.path \ (CASE p = Docker -> {"quadletDir", "baseDir"}
                                [] p = Podman -> {"composeFile"}
                                [] OTHER -> {"quadletDir", "baseDir", "composeFile", "dataDir"}) :
        CheckHostPath(f.path[k])

RequireAll(values) == "" \notin values
TLSPairComplete(f) == (f.path["cert"] = "") <=> (f.path["certKey"] = "")

-----------------------------------------------------------------------------
(* The replication pair.                                                   *)

NoneTwice(s) == IsInjective(s)

EndpointKey(e) == [e EXCEPT !.transport = SetDefault(@, "plainText")]
ValidateReplEndpoints(eps) ==
    /\ eps # <<>>
    /\ \A k \in DOMAIN eps : eps[k].transport \in {"", "plainText", "compressed", "ssl"}
    /\ NoneTwice([k \in DOMAIN eps |-> EndpointKey(eps[k])])
    /\ \A t \in {EndpointKey(eps[k]).transport : k \in DOMAIN eps} :
          Cardinality({k \in DOMAIN eps : EndpointKey(eps[k]).transport = t}) <= 2

(* How many of pass, passEnv and passSecret a site's SEMP block carries.    *)
PassesSet(s) == (IF s.pass.value # "" THEN 1 ELSE 0) + (IF s.pass.env # "" THEN 1 ELSE 0)
                    + (IF s.passSecret # "" THEN 1 ELSE 0)

CheckSecretKeyRef(ref) == ref # "bad"

ValidateReplViaSEMP(s) == /\ PassesSet(s) = 1
                          /\ CheckSecretKeyRef(s.passSecret)
                          /\ CheckCredentialChars(s.pass)

ValidateReplVia(via) ==
    /\ via.kube = <<>> \/ via.semp = <<>>
    /\ \A j \in DOMAIN via.kube : via.kube[j].command # <<>> /\ via.kube[j].name # ""
    /\ \A j \in DOMAIN via.semp : ValidateReplViaSEMP(via.semp[j])

\* Broken on purpose: once in its own site is enough.
RoutersApartBySite(f) == \A i \in DOMAIN f.sites : NoneTwice(f.sites[i].routers)
(* A router name stands once in the whole pair, not once in its site.        *)
RoutersApart(f) ==
    \A i, j \in DOMAIN f.sites : \A k \in DOMAIN f.sites[i].routers, l \in DOMAIN f.sites[j].routers :
        f.sites[i].routers[k] = f.sites[j].routers[l] => i = j /\ k = l

ValidateReplication(f) ==
    f.sites # <<>> \/ f.vpns # <<>> =>
        /\ Len(f.sites) = 2
        /\ NoneTwice([i \in DOMAIN f.sites |-> f.sites[i].vrn])
        /\ \A i \in DOMAIN f.sites :
              LET s == f.sites[i]
              IN s.vrn # "" /\ s.routers # <<>> /\ "" \notin ToSet(s.routers)
                    /\ ValidateReplEndpoints(s.endpoints) /\ ValidateReplVia(s.via)
        /\ RoutersApart(f)
        /\ NoneTwice([i \in DOMAIN f.vpns |-> f.vpns[i].name])
        /\ \A i \in DOMAIN f.vpns : f.vpns[i].name # "" /\ f.vpns[i].at \in {f.sites[j].vrn : j \in DOMAIN f.sites}

(* The sites a router name belongs to; Locate takes it for one of a pair    *)
(* only when there is exactly one.                                         *)
SitesOf(f, router) == {i \in DOMAIN f.sites : router \in ToSet(f.sites[i].routers)}
Locates(f, router) == Cardinality(SitesOf(f, router)) = 1
SelfOf(f, router) == CHOOSE i \in SitesOf(f, router) : TRUE
MateOf(f, router) == 3 - SelfOf(f, router)

-----------------------------------------------------------------------------
(* The users of every platform.                                            *)

AccessLevels == {"none", "read-only", "admin"}
BuiltInUsers == {"admin", "monitor"}
EnvVarNames == {"ops", "OPS", "a_b", "admin", "monitor"}   \* Letters, digits and '_'.

(* Upper case, every separator an underscore.                              *)
FoldToEnvVar(name) == CASE name \in {"ops", "OPS"} -> "OPS" [] name \in {"a_b", "a.b"} -> "A_B" [] OTHER -> name

ValidateAdditionalUsers(f, p) ==
    /\ NoneTwice([i \in DOMAIN f.users |-> f.users[i].name])
    /\ IsContainer(p) => NoneTwice([i \in DOMAIN f.users |-> FoldToEnvVar(f.users[i].name)])
    /\ \A i \in DOMAIN f.users :
          LET u == f.users[i]
          IN /\ u.name \notin BuiltInUsers \cup {""}
             /\ u.level \in AccessLevels
             /\ u.pass.value # ""
             /\ CheckCredentialChars(u.pass)
             /\ p = Kubernetes => u.name \in EnvVarNames

-----------------------------------------------------------------------------
(* Kubernetes.                                                             *)

CustomMountFor(f, role) == role \in DOMAIN f.claims /\ f.claims[role] # ""
UsesCustomMounts(f) == \E k \in DOMAIN f.claims : f.claims[k] # ""

ValidateStorage(f) ==
    UsesCustomMounts(f) =>
        /\ f.class = ""
        /\ DOMAIN f.claims \subseteq Roles
        /\ \A k \in DOMAIN f.claims : f.claims[k] # ""
        /\ \A role \in RedundancyRoles(f) : CustomMountFor(f, role)

ValidateK8sPorts(f) == /\ NoneTwice([i \in DOMAIN f.ports |-> f.ports[i].name])
                       /\ NoneTwice([i \in DOMAIN f.ports |-> f.ports[i].container])
                       /\ NoneTwice([i \in DOMAIN f.ports |-> f.ports[i].service])

SecretNames(f) == <<AdminSecretName(f), TLSServerSecretName(f), ImagePullSecretName(f)>>
                      \o (IF f.users # <<>> THEN <<AdditionalUsersSecretName(f)>> ELSE <<>>)

\* Broken on purpose: nothing keeps two Secrets from sharing a name.
ValidateK8sSecretRefsShared(f) ==
    /\ ~ManagesAdminSecret(f) => f.secret["monitorPass"] = Unset /\ ~PSKConfigured(f)
    /\ f.adminSecret # OperatorAdminSecretName(f)

(* A monitor password or a key needs the Secret the admin password builds,  *)
(* the operator's own names are not the file's to use, and no two of the    *)
(* Secrets that have a name share it.                                      *)
ValidateK8sSecretRefs(f) ==
    /\ ~ManagesAdminSecret(f) => f.secret["monitorPass"] = Unset /\ ~PSKConfigured(f)
    /\ f.adminSecret # OperatorAdminSecretName(f)
    /\ \A i, j \in DOMAIN SecretNames(f) :
          SecretNames(f)[i] = SecretNames(f)[j] /\ SecretNames(f)[i] # "" => i = j

ValidateK8s(f) ==
    /\ RequireAll({f.name, f.tag} \cup (IF UsesCustomMounts(f) THEN {} ELSE {f.size}))
    /\ ValidateStorage(f)
    /\ TLSPairComplete(f)
    /\ ValidateK8sSecretRefs(f)
    /\ f.retired \notin {"msgNode.cpu", "readOnlyRootFilesystem"}
    /\ f.malformed \cap KubernetesFormats = {}
    /\ ValidateK8sPorts(f)
    /\ ValidateAdditionalUsers(f, Kubernetes)

-----------------------------------------------------------------------------
(* Docker and podman.                                                      *)

ValidateContainerPSK(f) == f.secret["psk"] # Unset

\* Broken on purpose: a group node needs an address only.
RequiredInGroupAddrs(f) == {f.node[r].addr : r \in Roles}
RequiredInGroup(f) == UNION {{f.node[r].name, f.node[r].addr} : r \in Roles}

(* A list of cpu ids as long as the tier has cores, one for the monitor.    *)
ValidateCPUSets(f) == Len(f.cpuset) = ScalingTiers[f.tier] /\ Len(f.monitorCpuset) = 1

(* The probe this tool provides needs release 10.26; an unreadable tag is   *)
(* refused rather than guessed at.                                         *)
AtLeast1026(tag) == tag = "10.26"
CheckProbe(f) == f.probe = "builtin" => AtLeast1026(f.tag)

ValidateContainer(f, p) ==
    /\ RedundancyEnabled(f) => ValidateContainerPSK(f) /\ RequireAll(RequiredInGroup(f))
    /\ RequireAll({f.tag, Value(f, "adminPass"), f.path["dataDir"]})
    /\ p = Podman /\ f.path["baseDir"] # "" => IsAbsHostPath(f.path["baseDir"])
    /\ TLSPairComplete(f)
    /\ IsAbsHostPath(f.path["dataDir"])
    /\ f.malformed \cap ContainerFormats = {}
    /\ ValidateCPUSets(f)
    /\ ValidateAdditionalUsers(f, p)
    /\ CheckProbe(f)

Validate(f, p, extra) ==
    /\ f.retired \notin {"admin"} \cup RenamedKeys \cup RetiredContainerKeys
    /\ ValidateDomainCerts(f)
    /\ f.ha \in {"true", "false"}
    /\ ValidateExecCommands(f, p, extra)
    /\ ValidateScaling(f)
    /\ ValidateCredentialChars(f)
    /\ ValidateReplication(f)
    /\ ValidateHostPaths(f, p)
    /\ f.malformed \cap SharedFormats = {}
    /\ IF p = Kubernetes THEN ValidateK8s(f) ELSE ValidateContainer(f, p)

-----------------------------------------------------------------------------
(* Load: the references resolved, the approvals recorded, the defaults      *)
(* filled, home directories expanded, the checks, and only then the paths   *)
(* moved to the env file's directory.                                      *)

Prepared(f, p) == ExpandHomePaths(ExpandCommandHomes(ApplyDefaults(ResolveSecretRefs(f), p)))

Accepts(f, p, host, approved) ==
    /\ \A src \in SecretRefs(f) : RefResolves(src, host.exported)
    /\ AllowCommands(approved)
    /\ HomesExpand(ApplyDefaults(ResolveSecretRefs(f), p), p, host.home)
    /\ Validate(Prepared(f, p), p, approved)

Loaded(f, p) == RebaseHostPaths(Prepared(f, p))
=============================================================================
