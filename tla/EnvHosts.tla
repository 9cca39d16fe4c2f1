------------------------------- MODULE EnvHosts -------------------------------
(***************************************************************************)
(* One env file, carried to the hosts of a deployment.  Each host loads it  *)
(* in its own environment (its home directory, the variables exported      *)
(* there, its name and addresses), decides which node it is, and renders    *)
(* what it deploys: the Secrets and the broker CR on Kubernetes, the broker *)
(* settings and the secrets of one container on docker and podman.  Nothing *)
(* but the file is shared: three hosts that each read it must agree.        *)
(*                                                                         *)
(* internal/config (EnvFile), internal/cli/context.go and ops_container.go, *)
(* internal/broker/verify_local.go, internal/render/render.go.              *)
(***************************************************************************)
EXTENDS EnvFile

CONSTANTS Hosts,     \* The machines the file is carried to.
          Cases,     \* The platform, the file and the approvals of a run.
          Worlds     \* The environments the hosts may have: functions of Hosts.

Platforms == {Kubernetes, Docker, Podman}
Machines == [hostname : STRING, addrs : SUBSET STRING, home : {"home", "none", "spaced"},
             exported : SUBSET STRING]

ASSUME HostsAssumption == IsFiniteSet(Hosts) /\ Worlds \subseteq [Hosts -> Machines]
ASSUME CasesAssumption == Cases \subseteq [platform : Platforms, file : EnvFiles, approved : SUBSET STRING]

(* The name of a Secret that ends in something is not empty.               *)
ASSUME NamesAssumption ==
    \A c \in Cases : \A suffix \in {"-admin", "-tls", "-image-pull", "-additional-users"} :
        c.file.name \o suffix # ""

VARIABLES case,      \* [platform, file, approved], as written: never changed.
          world,     \* Each host's environment.
          conf,      \* What each host has loaded: NotLoaded, Refused or a file.
          deployed   \* What each host has deployed: Nothing, Failed or an artifact.

vars == <<case, world, conf, deployed>>

NotLoaded == [state |-> "unloaded"]
Refused == [state |-> "refused"]
Loads(f) == [state |-> "loaded", file |-> f]

Nothing == [state |-> "nothing"]
Failed(why) == [state |-> "failed", why |-> why]

IsLoaded(h) == conf[h].state = "loaded"
IsDeployed(h) == deployed[h].state = "deployed"

-----------------------------------------------------------------------------
(* Which node a host is.                                                   *)

ShortHost(name) == IF name = "n1.x" THEN "n1" ELSE name
HostMatches(host, name) == ShortHost(host) = ShortHost(name)

ByName(c, h) == {r \in Roles : c.node[r].name # "" /\ HostMatches(world[h].hostname, c.node[r].name)}
ByAddr(c, h) == {r \in Roles : c.node[r].addr \in world[h].addrs}

(* By name first; by address only when no name matches.                    *)
Matched(c, h) == IF ByName(c, h) # {} THEN ByName(c, h) ELSE ByAddr(c, h)
DetectRole(c, h) == IF Cardinality(Matched(c, h)) = 1 THEN Matched(c, h) ELSE {}

(* The role a host deploys as, or none: the one named on the command line,  *)
(* else the one detected.  A standalone broker is always the primary.       *)
ContainerRole(c, h, pod) == IF pod # "" THEN {pod}
                            ELSE IF ~RedundancyEnabled(c) THEN {"primary"}
                            ELSE DetectRole(c, h)

FillStandaloneNodeName(c, hostname) ==
    IF RedundancyEnabled(c) \/ c.node["primary"].name # "" THEN c
    ELSE [c EXCEPT !.node["primary"].name = hostname]

NodeType(role) == IF role = "monitor" THEN "monitoring" ELSE "message_routing"
ResolveNode(c, role) == IF RedundancyEnabled(c) THEN [name |-> c.node[role].name, nodetype |-> NodeType(role)]
                        ELSE [name |-> c.node["primary"].name, nodetype |-> "message_routing"]

(* The settings of the group table are keyed by node name and written for    *)
(* the primary, the backup and the monitor in this order: of two nodes with  *)
(* one name, the later one's are the ones that hold (a compose file with a   *)
(* key twice may be refused altogether).                                     *)
HolderOf(c, name) == IF c.node["monitor"].name = name THEN "monitor"
                     ELSE IF c.node["backup"].name = name THEN "backup" ELSE "primary"
Entry(c, role) == [connectvia |-> c.node[role].addr, nodetype |-> NodeType(role)]

(* The group table every node of the group is given, by node name.           *)
GroupNames(c) == IF RedundancyEnabled(c) THEN {c.node[r].name : r \in Roles} ELSE {}
GroupTable(c) == [name \in GroupNames(c) |-> Entry(c, HolderOf(c, name))]

-----------------------------------------------------------------------------
(* What a container is given: each secret under its own host variable, the *)
(* certificate as one file.  The suffix of a user's variable is none of the *)
(* fixed ones, whatever the user is called.                                *)

Secret(key, suffix, user) == [key |-> key, var |-> [suffix |-> suffix, user |-> user]]

ContainerSecrets(c) ==
    {Secret("adminPass", "ADMIN", "")}
        \cup {Secret(c.users[i].name, "USER", FoldToEnvVar(c.users[i].name)) : i \in DOMAIN c.users}
        \cup (IF RedundancyEnabled(c) THEN {Secret("psk", "PSK", "")} ELSE {})
        \cup (IF Value(c, "phrase") # "" THEN {Secret("phrase", "PHRASE", "")} ELSE {})
        \cup (IF c.path["cert"] # "" /\ c.path["certKey"] # "" THEN {Secret("cert", "CERT", "")} ELSE {})

(* A variable holds one value: of two secrets that share it, one is lost.   *)
DeliveredToContainer(c) == {s.key : s \in {t \in ContainerSecrets(c) :
                                \A u \in ContainerSecrets(c) : u.var = t.var => u.key = t.key}}

-----------------------------------------------------------------------------
(* What Kubernetes is given: the Secrets this tool builds, applied one      *)
(* after the other, and the CR that names them.                            *)

AdminSecret(c) == {s \in {"adminPass", "monitorPass", "psk"} : Value(c, s) # ""}
TLSSecret(c) == {k \in {"cert", "certKey"} : c.path[k] # ""}
UserNames(c) == {c.users[i].name : i \in DOMAIN c.users}

(* The keys of the Secret of a name: of two with one name, the later one    *)
(* applied replaces the other.  They are applied in the opposite order.     *)
BuiltSecrets(c, name) ==
    IF c.users # <<>> /\ name = AdditionalUsersSecretName(c) THEN UserNames(c)
    ELSE IF ManagesTLSSecret(c) /\ name = TLSServerSecretName(c) THEN TLSSecret(c)
    ELSE IF ManagesImagePullSecret(c) /\ name = ImagePullSecretName(c) THEN {"imagePass"}
    ELSE IF ManagesAdminSecret(c) /\ name = AdminSecretName(c) THEN AdminSecret(c)
    ELSE {}

(* The Secret each setting of the CR names, "" where the CR leaves it out.   *)
BrokerCR(c) ==
    LET builtAdmin == ManagesAdminSecret(c) /\ AdminSecretName(c) # ""
    IN [adminPass |-> AdminSecretName(c),
        monitorPass |-> IF Value(c, "monitorPass") # "" /\ builtAdmin THEN AdminSecretName(c) ELSE "",
        psk |-> IF PSKConfigured(c) /\ builtAdmin THEN AdminSecretName(c) ELSE "",
        tls |-> TLSServerSecretName(c),
        imagePass |-> ImagePullSecretName(c),
        users |-> IF c.users # <<>> THEN AdditionalUsersSecretName(c) ELSE "",
        ports |-> {[name |-> c.ports[i].name, service |-> c.ports[i].service] : i \in DOMAIN c.ports}]

(* What the pods find under one setting; the kubelet skips a user whose      *)
(* name no variable can have.                                              *)
DeliveredBy(c, setting) ==
    LET keys == BuiltSecrets(c, BrokerCR(c)[setting])
    IN IF setting = "users" THEN keys \cap EnvVarNames ELSE keys

DeliveredToPods(c) ==
    (UNION {DeliveredBy(c, s) \cap {s} : s \in {"adminPass", "monitorPass", "psk", "imagePass"}})
        \cup DeliveredBy(c, "tls") \cup DeliveredBy(c, "users")

-----------------------------------------------------------------------------
(* The commands a host runs, each checked once more before it is.           *)

ClusterCommand(c) == CheckCommand(Rules(Kubernetes), c.cluster, case.approved)
RuntimeCommand(c) == CheckCommand(Rules(case.platform), c.runtime, case.approved)
ComposeCommand(c) == CheckCommand(ComposeRules, ComposeOrDerived(c.compose, c.runtime), case.approved)
SiteCommand(c, i) == CheckCommand(Rules(Kubernetes), c.sites[i].via.kube[1].command, case.approved)

DeployCommandsPass(c) == CASE case.platform = Kubernetes -> ClusterCommand(c)
                           [] case.platform = Docker -> RuntimeCommand(c) /\ ComposeCommand(c)
                           [] OTHER -> RuntimeCommand(c)

-----------------------------------------------------------------------------
Init == /\ case \in Cases
        /\ world \in Worlds
        /\ conf = [h \in Hosts |-> NotLoaded]
        /\ deployed = [h \in Hosts |-> Nothing]

Named(f, h) == IF IsContainer(case.platform) THEN FillStandaloneNodeName(f, world[h].hostname) ELSE f

Load(h) ==
    /\ conf[h] = NotLoaded
    /\ conf' = [conf EXCEPT ![h] =
                   IF Accepts(case.file, case.platform, world[h], case.approved)
                   THEN Loads(Named(Loaded(case.file, case.platform), h)) ELSE Refused]
    /\ UNCHANGED <<case, world, deployed>>

DeployKubernetes(h) ==
    /\ IsLoaded(h) /\ deployed[h] = Nothing /\ case.platform = Kubernetes
    /\ LET c == conf[h].file
       IN deployed' = [deployed EXCEPT ![h] =
                          IF DeployCommandsPass(c)
                          THEN [state |-> "deployed", delivered |-> DeliveredToPods(c), cr |-> BrokerCR(c)]
                          ELSE Failed("command")]
    /\ UNCHANGED <<case, world, conf>>

DeployContainer(h, pod) ==
    /\ IsLoaded(h) /\ deployed[h] = Nothing /\ IsContainer(case.platform)
    /\ LET c == conf[h].file
           role == ContainerRole(c, h, pod)
       IN deployed' = [deployed EXCEPT ![h] =
              IF role = {} THEN Failed("role")
              ELSE IF ~DeployCommandsPass(c) THEN Failed("command")
              ELSE LET r == CHOOSE x \in role : TRUE
                   IN [state |-> "deployed", role |-> r, pod |-> pod,
                       node |-> ResolveNode(c, r), table |-> GroupTable(c),
                       delivered |-> DeliveredToContainer(c)]]
    /\ UNCHANGED <<case, world, conf>>

Next == \E h \in Hosts : \/ Load(h)
                         \/ DeployKubernetes(h)
                         \/ \E pod \in Roles \cup {""} : DeployContainer(h, pod)

Spec == Init /\ [][Next]_vars

-----------------------------------------------------------------------------
(* What a file sets for the broker on its platform.  A credential counts     *)
(* only where it is documented to reach the broker: on docker and podman not *)
(* the monitor's password, which nothing reads there, nor the image's, with  *)
(* which this tool itself logs in; on Kubernetes not the key's passphrase.   *)
Credentials(c) ==
    {s \in {"adminPass"} : Value(c, s) # ""} \cup UserNames(c)
        \cup (IF case.platform = Kubernetes
              THEN {s \in {"monitorPass", "psk"} : Value(c, s) # ""}
                       \cup {k \in {"cert", "certKey"} : c.path[k] # ""}
                       \cup (IF c.imageUser # "" /\ Value(c, "imagePass") # "" THEN {"imagePass"} ELSE {})
              ELSE {s \in {"phrase"} : Value(c, s) # ""}
                       \cup {s \in {"psk"} : RedundancyEnabled(c)}
                       \cup (IF c.path["cert"] # "" \/ c.path["certKey"] # "" THEN {"cert"} ELSE {}))

(* A credential the file sets, of those its platform takes (Credentials),    *)
(* reaches the broker that is deployed from it: none is lost to a Secret     *)
(* nobody builds, to a name two Secrets share, to a variable two users fold  *)
(* to or to a name the kubelet skips, and every port is published            *)
(* (validate.go:1352-1422, 1216-1298, config.go:117-220).                    *)
NothingDropped ==
    \A h \in Hosts : IsDeployed(h) =>
        /\ Credentials(conf[h].file) \subseteq deployed[h].delivered
        /\ case.platform = Kubernetes =>
              Cardinality({p.service : p \in deployed[h].cr.ports}) = Len(conf[h].file.ports)

(* An entry of the table whose name and address belong to one host at most.  *)
Uncrossed(c) == \A r \in Roles : Cardinality({h \in Hosts : HostMatches(world[h].hostname, c.node[r].name)
                                                                \/ c.node[r].addr \in world[h].addrs}) <= 1

(* A role whose name no other node of the file has.                          *)
HasOwnName(c, role) == \A r \in Roles : c.node[r].name = c.node[role].name => r = role

(* A host that was not told which node it is and knew itself by its name.    *)
KnewItsName(h) == deployed[h].pod = "" /\ ByName(conf[h].file, h) # {}

(* Hosts that deploy from one file form one group.  They hold the same       *)
(* table, and every entry of it can be dialled by name and address.  A node  *)
(* is in it under its own name, address and type, so each host finds itself, *)
(* unless the file gives two nodes one name, which nothing refuses: then one *)
(* entry replaces the other, but a host that recognised itself by its name   *)
(* is never one of those two.  And two hosts that worked out for themselves  *)
(* which node they are never took the same entry, unless the file gives one  *)
(* machine's name with another's address (load.go, roles.go:120-156,         *)
(* validate.go:1460-1500, verify_local.go:28-114, render.go:804-812).        *)
GroupForms ==
    \A h, g \in Hosts :
        IsDeployed(h) /\ IsDeployed(g) /\ IsContainer(case.platform) /\ RedundancyEnabled(conf[h].file) =>
            LET c == conf[h].file
                table == deployed[h].table
                self == deployed[h].node
            IN /\ table = deployed[g].table
               /\ \A name \in DOMAIN table : name # "" /\ table[name].connectvia # ""
               /\ \A r \in Roles : HasOwnName(c, r) =>
                     c.node[r].name \in DOMAIN table /\ table[c.node[r].name] = Entry(c, r)
               /\ HasOwnName(c, deployed[h].role) =>
                     self.name \in DOMAIN table /\ table[self.name].nodetype = self.nodetype
               /\ KnewItsName(h) => HasOwnName(c, deployed[h].role)
               /\ \/ h = g \/ deployed[h].pod # "" \/ deployed[g].pod # "" \/ ~Uncrossed(c)
                  \/ deployed[h].role # deployed[g].role

(* A command a file was accepted with is not refused when it is run, in the  *)
(* middle of a deploy or of a switch at the mate: the two enforcement points *)
(* agree, on the defaults and on the derived commands too                    *)
(* (execguard.go:469-514, 579-659).                                          *)
CommandsStillPass ==
    \A h \in Hosts : IsLoaded(h) =>
        /\ DeployCommandsPass(conf[h].file)
        /\ \A i \in DOMAIN conf[h].file.sites :
              conf[h].file.sites[i].via.kube # <<>> => SiteCommand(conf[h].file, i)

(* A podman unit directory that is used as it is found: written relative, or *)
(* a rootless default, which XDG_CONFIG_HOME may give (load.go:272, 379).    *)
UnitDirAsFound(f) == \/ f.path["quadletDir"] = "rel"
                     \/ f.path["quadletDir"] = "" /\ f.rootless

(* A loaded path no longer depends on the directory a command is run from,   *)
(* with one exception: the podman unit directory (UnitDirAsFound), which is  *)
(* accepted relative and stays so (UnitDirAnchored).  And neither the        *)
(* directory a removal empties nor the unit's is ever one made up next to    *)
(* the file (hostpath.go:187-256, validate.go:293-298, 1504-1560).           *)
Anchored ==
    \A h \in Hosts : IsLoaded(h) =>
        LET path == conf[h].file.path
        IN /\ \A k \in DOMAIN path \ NeverRebased : path[k] # "" => IsAbsHostPath(path[k])
           /\ IsContainer(case.platform) => path["dataDir"] \in {"abs", "home/"}
           /\ case.platform = Podman =>
                 /\ path["baseDir"] \in {"", "abs", "home/"}
                 /\ path["quadletDir"] \in {"abs", "home/"} \/ UnitDirAsFound(case.file)

(* The directory of the podman unit is absolute once a file is loaded: "a    *)
(* relative value is still refused" (docs/configuration.md:111-113, of the   *)
(* three container-host directories; validate.go:294-295 calls it "an        *)
(* operator error").                                                         *)
UnitDirAnchored ==
    \A h \in Hosts : IsLoaded(h) /\ case.platform = Podman =>
        IsAbsHostPath(conf[h].file.path["quadletDir"])

(* Every router name of a loaded pair finds itself at exactly one site, and  *)
(* the mate it is given finds it back (config.go:593-633,                    *)
(* validate.go:1014-1076).                                                   *)
SitesMirror ==
    \A h \in Hosts : IsLoaded(h) =>
        LET c == conf[h].file
        IN \A i \in DOMAIN c.sites : \A n \in ToSet(c.sites[i].routers) :
              /\ Locates(c, n) /\ SelfOf(c, n) = i
              /\ \A m \in ToSet(c.sites[MateOf(c, n)].routers) : Locates(c, m) /\ MateOf(c, m) = i

-----------------------------------------------------------------------------
(* The file with each referenced secret written out.                       *)
WrittenOut(src) == IF src.env = "" THEN src ELSE Source("text", "")
WrittenOutVia(via) == [via EXCEPT !.semp = [i \in DOMAIN @ |-> [@[i] EXCEPT !.pass = WrittenOut(@)]]]
Literal(f) ==
    [f EXCEPT !.secret = [s \in SharedSecrets |-> WrittenOut(@[s])],
              !.users = [i \in DOMAIN @ |-> [@[i] EXCEPT !.pass = WrittenOut(@)]],
              !.sites = [i \in DOMAIN @ |-> [@[i] EXCEPT !.via = WrittenOutVia(@)]]]

(* A file that refers to its secrets is accepted wherever the variables are  *)
(* exported and the same file with the values written out would be: "Every   *)
(* secret field takes either the value itself or ... the name of an          *)
(* environment variable" (docs/configuration.md:431-443).                    *)
ReferenceIsAccepted ==
    \A h \in Hosts :
        conf[h] = Refused /\ (\A src \in SecretRefs(case.file) : RefResolves(src, world[h].exported))
            => ~Accepts(Literal(case.file), case.platform, world[h], case.approved)
=============================================================================
